------------------------------- MODULE Apply --------------------------------
(***************************************************************************)
(* "kestrai apply -f FILE" (internal/cli/apply.go) as a client of the      *)
(* control plane.  For each document of the file, in order, the command    *)
(* gets the object, then creates it or updates it with the version it just *)
(* read, under one deadline; the first error ends it.  Several commands    *)
(* run at once, next to other clients, the reconciler and crashes.         *)
(*                                                                         *)
(* A command is a session of ControlPlane that follows this program: every *)
(* step here is a step of ControlPlane or leaves its variables alone.  A   *)
(* document carries no status.                                             *)
(***************************************************************************)
EXTENDS ControlPlane

CONSTANTS
    Commands,       \* the sessions that run "kestrai apply"
    Manifest        \* Manifest[c]: the documents of the file c applies

(* A decoded document: the object it names and the spec it wants. *)
Document == [key : ProjectKeys, spec : ProjectSpecs] \union [key : WorkflowKeys, spec : WorkflowSpecs]

ASSUME CommandsAssumption == Commands \subseteq Sessions

(* decodeResources fails on a file without documents. *)
ASSUME ManifestAssumption == Manifest \in [Commands -> Seq(Document) \ {<<>>}]

VARIABLES
    step,       \* step[c]: where in applyResource the command is, or how it ended
    doc,        \* doc[c]: the document it is at
    written,    \* history: the documents whose write by c changed the table
    excuse      \* history: may the API refuse the document c is at?

commandVars == <<step, doc>>
historyVars == <<written, excuse>>
applyVars == <<vars, commandVars, historyVars>>

Ended == {"ok", "refused", "gave up"}

ApplyInit ==
    /\ Init
    /\ step = [c \in Commands |-> "get"]
    /\ doc = [c \in Commands |-> 1]
    /\ written = [c \in Commands |-> <<>>]
    /\ excuse = [c \in Commands |-> FALSE]

Key(c) == Manifest[c][doc[c]].key
Wants(c) == Manifest[c][doc[c]].spec

Owner(k) == ProjectKey(k.project)
Ownerless(k) == k \in WorkflowKeys /\ ~Present(Owner(k))

(* What somebody else must change for the API to refuse the document: the  *)
(* object, and its Project until CreateWorkflow has found it.              *)
Watched(c) == {Key(c)} \union (IF step[c] = "create" THEN Keys \intersect {Owner(Key(c))} ELSE {})

Disturbed(c) == step[c] \in {"create", "update", "answer"} /\ \E k \in Watched(c) : rows'[k] # rows[k]

(* The history of a step by the actors in movers (one command or none). *)
Watch(movers) ==
    excuse' = [c \in Commands |-> excuse[c] \/ (c \notin movers /\ Disturbed(c))]

Goto(c, label) == step' = [step EXCEPT ![c] = label]
Wrote(c) == written' = [written EXCEPT ![c] = Append(@, doc[c])]

-----------------------------------------------------------------------------
(* The program of one command. *)

(* Mutant: an object the command was shown before is not read again. *)
Lookup_Remembered(c) ==
    /\ step[c] = "get"
    /\ \/ /\ Present(Key(c))
          /\ IF held[c] # NoRead /\ held[c].key = Key(c) THEN UNCHANGED vars ELSE Get(c, Key(c))
          /\ Goto(c, "update")
       \/ ~Present(Key(c)) /\ Goto(c, "create") /\ UNCHANGED vars
    /\ excuse' = [excuse EXCEPT ![c] = Ownerless(Key(c))]
    /\ UNCHANGED <<doc, written>>

(* GetProject or GetWorkflow: NotFound leads to a create, an object to an  *)
(* update with the version it came with.                                   *)
Lookup(c) ==
    /\ step[c] = "get"
    /\ \/ Get(c, Key(c)) /\ Goto(c, "update")
       \/ ~Present(Key(c)) /\ Goto(c, "create") /\ UNCHANGED vars
    /\ excuse' = [excuse EXCEPT ![c] = Ownerless(Key(c))]
    /\ UNCHANGED <<doc, written>>

(* CreateWorkflow, UpdateProject or UpdateWorkflow up to its second store  *)
(* call.                                                                   *)
Ask(c) ==
    /\ \/ /\ step[c] = "create"
          /\ Key(c) \in WorkflowKeys
          /\ CreateWorkflow(c, Key(c), Wants(c))
       \/ step[c] = "update" /\ UpdateResource(c, Wants(c), NoStatus)
    /\ Goto(c, "answer")
    /\ UNCHANGED <<doc, historyVars>>

Answered(c) == held'[c] = [key |-> Key(c), row |-> rows'[Key(c)]]

(* On to the next document, or to the end of the file. *)
Proceed(c) ==
    IF doc[c] = Len(Manifest[c]) THEN Goto(c, "ok") /\ UNCHANGED doc
    ELSE Goto(c, "get") /\ doc' = [doc EXCEPT ![c] = @ + 1]

CreateInOneCall(c) ==
    step[c] = "create" /\ \E p \in Projects : Key(c) = ProjectKey(p) /\ CreateProject(c, p, Wants(c))

CommitInFlight(c) == CommitCreate(c) \/ CommitUpdate(c)

(* The write is in the table; the command hears of it or its deadline      *)
(* passes first.                                                           *)
Write(c) ==
    /\ CreateInOneCall(c) \/ (step[c] = "answer" /\ CommitInFlight(c))
    /\ IF Answered(c) THEN Proceed(c) ELSE Goto(c, "gave up") /\ UNCHANGED doc
    /\ Wrote(c)
    /\ Watch({c})

(* AlreadyExists, FailedPrecondition, NotFound and Aborted. *)
Refusal(c) ==
    \/ step[c] = "answer" /\ Refuse(c)
    \/ /\ \/ step[c] = "create" /\ Key(c) \in ProjectKeys /\ Present(Key(c))
          \/ step[c] = "create" /\ Ownerless(Key(c))
          \/ step[c] = "update" /\ ~Present(Key(c))
       /\ UNCHANGED vars

(* Mutant: an error is reported and the next document is tried. *)
Rejected_CarryOn(c) ==
    /\ Refusal(c)
    /\ Proceed(c)
    /\ UNCHANGED historyVars

(* The command ends with the error, whichever it is. *)
Rejected(c) ==
    /\ Refusal(c)
    /\ Goto(c, "refused")
    /\ UNCHANGED <<doc, historyVars>>

(* The deadline passes; a handler in flight is left behind. *)
GiveUp(c) ==
    /\ step[c] \notin Ended
    /\ Goto(c, "gave up")
    /\ UNCHANGED <<vars, doc, historyVars>>

(* The handler left behind: its write is done or it is cancelled or        *)
(* refused, and nobody hears of it.                                        *)
Orphan(c) ==
    /\ step[c] = "gave up"
    /\ \/ CommitInFlight(c) /\ UNCHANGED held /\ Wrote(c) /\ Watch({c})
       \/ (Refuse(c) \/ Cancel(c)) /\ UNCHANGED historyVars
    /\ UNCHANGED commandVars

(* The user runs the same file again. *)
Rerun(c) ==
    /\ step[c] \in Ended
    /\ Idle(c)
    /\ Goto(c, "get")
    /\ doc' = [doc EXCEPT ![c] = 1]
    /\ written' = [written EXCEPT ![c] = <<>>]
    /\ UNCHANGED <<vars, excuse>>

CommandStep(c) ==
    \/ Lookup(c) \/ Ask(c) \/ Write(c) \/ Rejected(c)
    \/ GiveUp(c) \/ Orphan(c) \/ Rerun(c)

-----------------------------------------------------------------------------
(* Everybody else. *)

OthersStep ==
    /\ \/ \E s \in Sessions \ Commands : SessionStep(s)
       \/ DeleteStep
       \/ ReconcilerStep
    /\ Watch({})
    /\ UNCHANGED <<commandVars, written>>

(* A command waiting for an answer of the process that died gets an error. *)
ServerCrash ==
    /\ Crash
    /\ step' = [c \in Commands |-> IF step[c] = "answer" THEN "gave up" ELSE step[c]]
    /\ UNCHANGED <<doc, historyVars>>

ApplyNext == (\E c \in Commands : CommandStep(c)) \/ OthersStep \/ ServerCrash

ApplySpec == ApplyInit /\ [][ApplyNext]_applyVars

-----------------------------------------------------------------------------
(* Properties. *)

(* Whatever a command was told, what it wrote is a first part of its file, *)
(* each document once and in order; all of it if it reports success, and   *)
(* at most the document it stopped at is in doubt.                         *)
WritesAreAPrefix ==
    \A c \in Commands :
        LET n == Len(written[c])
        IN  /\ written[c] = [i \in 1 .. n |-> i]
            /\ step[c] = "ok" => n = Len(Manifest[c])
            /\ step[c] # "ok" => n \in {doc[c] - 1} \union
                                       (IF step[c] = "gave up" THEN {doc[c]} ELSE {})

(* A command is refused only for a reason outside of it: the Project of    *)
(* the document was missing, or somebody changed the object or its Project *)
(* after the command looked it up.                                         *)
RefusalsAreRaces == \A c \in Commands : step[c] = "refused" => excuse[c]

=============================================================================
