---------------------------- MODULE ApplyProofs -----------------------------
(***************************************************************************)
(* Theorems about Apply for any number of commands and other clients, any  *)
(* files, names, specs and bounds.                                         *)
(***************************************************************************)
EXTENDS Apply, ControlPlaneProofs

-----------------------------------------------------------------------------
(* The invariants: where a command can be, what it has written, and why it *)
(* cannot be refused as long as nobody interfered.                         *)

Running == {"get", "create", "update", "answer"}

CommandTypeOK ==
    /\ step \in [Commands -> Running \union Ended]
    /\ doc \in [Commands -> Nat]
    /\ \A c \in Commands : doc[c] \in 1 .. Len(Manifest[c])
    /\ written \in [Commands -> Seq(Nat)]
    /\ excuse \in [Commands -> BOOLEAN]

(* A handler is in flight for a command only while it waits for the answer *)
(* or after it gave up; before an update it holds the object to update.    *)
ControlInv ==
    \A c \in Commands :
        /\ step[c] \notin {"answer", "gave up"} => Idle(c)
        /\ step[c] = "update" => held[c] # NoRead /\ held[c].key = Key(c)
        /\ step[c] = "answer" => ~Idle(c) /\ call[c].key = Key(c)

Upto(n) == [i \in 1 .. n |-> i]

WrittenInv ==
    \A c \in Commands :
        /\ step[c] \notin {"ok", "gave up"} => written[c] = Upto(doc[c] - 1)
        /\ step[c] = "ok" => doc[c] = Len(Manifest[c]) /\ written[c] = Upto(doc[c])
        /\ step[c] = "gave up" => \/ written[c] = Upto(doc[c] - 1)
                                  \/ Idle(c) /\ written[c] = Upto(doc[c])

(* As long as there is no excuse, what the command was told is still true. *)
UndisturbedInv ==
    \A c \in Commands : ~excuse[c] =>
        /\ step[c] = "create" => ~Present(Key(c)) /\ ~Ownerless(Key(c))
        /\ step[c] = "update" => Present(Key(c)) /\ held[c].row = rows[Key(c)]
        /\ InFlight(c, "create") /\ step[c] = "answer" => ~Present(Key(c))
        /\ InFlight(c, "update") /\ step[c] = "answer" => VersionMatches(Key(c), call[c].rv)
        /\ step[c] # "refused"

ApplyInv == TypeOK /\ CommandTypeOK /\ ControlInv

-----------------------------------------------------------------------------
(* The document a command is at names a key and a spec of the same kind.   *)
LEMMA DocumentTypes ==
    ASSUME CommandTypeOK, NEW c \in Commands
    PROVE  /\ c \in Sessions
           /\ Key(c) \in Keys
           /\ Key(c) \in ProjectKeys => Wants(c) \in ProjectSpecs
           /\ Key(c) \in WorkflowKeys => Wants(c) \in WorkflowSpecs
           /\ ProjectKeys \intersect WorkflowKeys = {}
<1>1. Manifest[c][doc[c]] \in Document
  <2>1. Manifest[c] \in Seq(Document) /\ doc[c] \in 1 .. Len(Manifest[c])
    BY ManifestAssumption DEF CommandTypeOK
  <2> QED
    BY <2>1
<1> QED
  BY <1>1, KindsAreDisjoint, CommandsAssumption DEF Document, Key, Wants, Keys

(* A step of a command is a step of a session, or leaves the control plane *)
(* alone.                                                                  *)
LEMMA CommandIsASession ==
    ASSUME CommandTypeOK, ControlInv, NEW c \in Commands, CommandStep(c)
    PROVE  SessionStep(c) \/ UNCHANGED vars
<1>1. CASE Lookup(c)
  <2>1. CASE Get(c, Key(c))
    BY <2>1, DocumentTypes
    DEF SessionStep, ProjectStep, WorkflowStep, GetProject, GetWorkflow, Keys, ProjectKeys
  <2> QED
    BY <1>1, <2>1 DEF Lookup
<1>2. CASE Ask(c)
  <2>1. CASE Key(c) \in WorkflowKeys /\ CreateWorkflow(c, Key(c), Wants(c))
    BY <2>1, DocumentTypes DEF SessionStep, WorkflowStep
  <2>2. CASE step[c] = "update" /\ UpdateResource(c, Wants(c), NoStatus)
    <3>1. held[c] # NoRead /\ held[c].key = Key(c)
      BY <2>2 DEF ControlInv
    <3>2. CASE Key(c) \in ProjectKeys
      BY <2>2, <3>1, <3>2, DocumentTypes DEF SessionStep, ProjectStep, UpdateProject
    <3>3. CASE Key(c) \in WorkflowKeys
      BY <2>2, <3>1, <3>3, DocumentTypes DEF SessionStep, WorkflowStep, UpdateWorkflow
    <3> QED
      BY <3>2, <3>3, DocumentTypes DEF Keys
  <2> QED
    BY <1>2, <2>1, <2>2 DEF Ask
<1>3. CASE Write(c)
  <2>1. CASE CreateInOneCall(c)
    <3>1. PICK p \in Projects : Key(c) = ProjectKey(p) /\ CreateProject(c, p, Wants(c))
      BY <2>1 DEF CreateInOneCall
    <3>2. Wants(c) \in ProjectSpecs
      BY <3>1, DocumentTypes DEF ProjectKeys
    <3> QED
      BY <3>1, <3>2 DEF SessionStep, ProjectStep
  <2> QED
    BY <1>3, <2>1 DEF Write, CommitInFlight, SessionStep
<1>4. CASE Rejected(c)
  BY <1>4 DEF Rejected, Refusal, SessionStep
<1>5. CASE Orphan(c)
  BY <1>5 DEF Orphan, CommitInFlight, SessionStep
<1> QED
  BY <1>1, <1>2, <1>3, <1>4, <1>5 DEF CommandStep, GiveUp, Rerun

(* Every step is a step of the control plane, or leaves it alone. *)
LEMMA StepIsNext ==
    ASSUME ApplyInv, [ApplyNext]_applyVars
    PROVE  [Next]_vars
<1>1. ASSUME NEW c \in Commands, CommandStep(c)
      PROVE  [Next]_vars
  BY <1>1, CommandIsASession, CommandsAssumption DEF ApplyInv, Next
<1>2. ASSUME OthersStep
      PROVE  [Next]_vars
  BY <1>2 DEF OthersStep, Next
<1> QED
  BY <1>1, <1>2 DEF ApplyNext, ServerCrash, Next, applyVars

-----------------------------------------------------------------------------
(* What a step does to one command: it is the command's own step, or only  *)
(* what it reads of the table can change, and a crash ends its call.       *)

OthersAct(c) ==
    /\ doc'[c] = doc[c]
    /\ written'[c] = written[c]
    /\ held'[c] = held[c]
    /\ \/ step'[c] = step[c] /\ call'[c] = call[c]
       \/ call'[c] = NoCall /\ step'[c] = IF step[c] = "answer" THEN "gave up" ELSE step[c]
    /\ excuse'[c] \in BOOLEAN
    /\ excuse[c] => excuse'[c]
    /\ ~excuse'[c] /\ step[c] \in {"create", "update", "answer"} =>
          \A k \in Watched(c) : rows'[k] = rows[k]

(* A session's step leaves the other sessions alone. *)
LEMMA SessionFrame ==
    ASSUME TypeOK, NEW s \in Sessions, NEW t \in Sessions, s # t, SessionStep(s)
    PROVE  held'[t] = held[t] /\ call'[t] = call[t]
BY DEF SessionStep, ProjectStep, WorkflowStep, GetProject, GetWorkflow, Get, CreateProject,
       UpdateProject, UpdateWorkflow, UpdateResource, CreateWorkflow, CommitCreate,
       CommitUpdate, Refuse, Cancel, Reply, Finish, serverVars, TypeOK

(* The steps of Next, seen by one command. *)
LEMMA OthersActOnOne ==
    ASSUME ApplyInv, [ApplyNext]_applyVars, NEW c \in Commands
    PROVE  CommandStep(c) \/ OthersAct(c)
<1>1. TypeOK /\ CommandTypeOK /\ ControlInv /\ c \in Sessions
  BY CommandsAssumption DEF ApplyInv
<1>2. excuse[c] \in BOOLEAN
  BY <1>1 DEF CommandTypeOK
<1>3. ASSUME NEW d \in Commands, d # c, CommandStep(d)
      PROVE  OthersAct(c)
  <2>1. d \in Sessions
    BY CommandsAssumption
  <2>2. SessionStep(d) \/ UNCHANGED vars
    BY <1>1, <1>3, CommandIsASession
  <2>3. held'[c] = held[c] /\ call'[c] = call[c]
    BY <1>1, <1>3, <2>1, <2>2, SessionFrame DEF vars
  <2>4. step'[c] = step[c] /\ doc'[c] = doc[c] /\ written'[c] = written[c]
    BY <1>1, <1>3 DEF CommandStep, Lookup, Ask, Write, Rejected, GiveUp, Orphan, Rerun,
                      Goto, Proceed, Wrote, commandVars, historyVars, CommandTypeOK
  <2>5. CASE UNCHANGED rows /\ excuse'[c] = excuse[c]
    BY <1>2, <2>3, <2>4, <2>5 DEF OthersAct
  <2>6. CASE Watch({d})
    BY <1>2, <1>3, <2>3, <2>4, <2>6 DEF OthersAct, Watch, Disturbed
  <2> QED
    BY <1>1, <1>3, <2>5, <2>6
    DEF CommandStep, Lookup, Ask, Write, Rejected, GiveUp, Orphan, Rerun, Refusal, Refuse,
        Cancel, Get, CreateWorkflow, UpdateResource, historyVars, vars, storeVars, CommandTypeOK
<1>4. ASSUME OthersStep
      PROVE  OthersAct(c)
  <2>1. held'[c] = held[c] /\ call'[c] = call[c]
    BY <1>1, <1>4, SessionFrame
    DEF OthersStep, DeleteStep, DeleteProject, DeleteWorkflow, DeleteResource, ReconcilerStep,
        ReconcileList, ReconcileItem, ReconcileSkip, ReconcileWrite, ReconcileRaced,
        ReconcileError, serverVars
  <2> QED
    BY <1>2, <1>4, <2>1 DEF OthersStep, Watch, Disturbed, OthersAct, commandVars
<1>5. ASSUME ServerCrash
      PROVE  OthersAct(c)
  BY <1>1, <1>2, <1>5 DEF ServerCrash, Crash, OthersAct, historyVars, storeVars
<1>6. ASSUME UNCHANGED applyVars
      PROVE  OthersAct(c)
  BY <1>2, <1>6 DEF applyVars, vars, commandVars, historyVars, OthersAct
<1> QED
  BY <1>3, <1>4, <1>5, <1>6 DEF ApplyNext

-----------------------------------------------------------------------------
(* The first invariants are inductive. *)

LEMMA CommandTypeStep ==
    ASSUME ApplyInv, [ApplyNext]_applyVars
    PROVE  CommandTypeOK'
<1>1. CommandTypeOK
  BY DEF ApplyInv
<1>2. \A c \in Commands : Len(Manifest[c]) \in Nat \ {0}
  BY ManifestAssumption
<1>3. ASSUME NEW c \in Commands, NEW label \in Running \union Ended, Goto(c, label)
      PROVE  step' \in [Commands -> Running \union Ended]
  BY <1>1, <1>3 DEF Goto, CommandTypeOK
<1>4. ASSUME NEW c \in Commands, Proceed(c)
      PROVE  /\ step' \in [Commands -> Running \union Ended]
             /\ doc' \in [Commands -> Nat]
             /\ \A d \in Commands : doc'[d] \in 1 .. Len(Manifest[d])
  <2>1. step' \in [Commands -> Running \union Ended]
    BY <1>3, <1>4 DEF Proceed, Running, Ended
  <2>2. /\ doc' \in [Commands -> Nat]
        /\ \A d \in Commands : doc'[d] \in 1 .. Len(Manifest[d])
    <3>1. CASE UNCHANGED doc
      BY <1>1, <3>1 DEF CommandTypeOK
    <3>2. CASE doc[c] # Len(Manifest[c]) /\ doc' = [doc EXCEPT ![c] = @ + 1]
      <4>1. doc[c] \in 1 .. Len(Manifest[c]) /\ Len(Manifest[c]) \in Nat
        BY <1>1, <1>2 DEF CommandTypeOK
      <4>2. doc[c] + 1 \in 1 .. Len(Manifest[c]) /\ doc[c] + 1 \in Nat
        BY <3>2, <4>1
      <4> QED
        BY <1>1, <3>2, <4>2 DEF CommandTypeOK
    <3> QED
      BY <1>4, <3>1, <3>2 DEF Proceed
  <2> QED
    BY <2>1, <2>2
<1>5. ASSUME NEW c \in Commands, Wrote(c)
      PROVE  written' \in [Commands -> Seq(Nat)]
  BY <1>1, <1>5 DEF Wrote, CommandTypeOK
<1>6. ASSUME NEW movers, Watch(movers)
      PROVE  excuse' \in [Commands -> BOOLEAN]
  BY <1>6 DEF Watch
<1>7. ASSUME NEW c \in Commands, CommandStep(c)
      PROVE  CommandTypeOK'
  <2>1. CASE Lookup(c)
    <3>1. step' \in [Commands -> Running \union Ended]
      BY <1>3, <2>1 DEF Lookup, Running
    <3> QED
      BY <1>1, <2>1, <3>1 DEF Lookup, CommandTypeOK, Ownerless
  <2>2. CASE Ask(c)
    <3>1. step' \in [Commands -> Running \union Ended]
      BY <1>3, <2>2 DEF Ask, Running
    <3> QED
      BY <1>1, <2>2, <3>1 DEF Ask, historyVars, CommandTypeOK
  <2>3. CASE Write(c)
    <3>1. Proceed(c) \/ (Goto(c, "gave up") /\ UNCHANGED doc)
      BY <2>3 DEF Write
    <3>2. /\ step' \in [Commands -> Running \union Ended]
          /\ doc' \in [Commands -> Nat]
          /\ \A d \in Commands : doc'[d] \in 1 .. Len(Manifest[d])
      BY <1>1, <1>3, <1>4, <3>1 DEF CommandTypeOK, Ended
    <3> QED
      BY <1>5, <1>6, <2>3, <3>2 DEF Write, CommandTypeOK
  <2>4. CASE Rejected(c) \/ GiveUp(c)
    <3>1. step' \in [Commands -> Running \union Ended]
      BY <1>3, <2>4 DEF Rejected, GiveUp, Ended
    <3> QED
      BY <1>1, <2>4, <3>1 DEF Rejected, GiveUp, historyVars, CommandTypeOK
  <2>5. CASE Orphan(c)
    <3>1. written' \in [Commands -> Seq(Nat)] /\ excuse' \in [Commands -> BOOLEAN]
      BY <1>1, <1>5, <1>6, <2>5 DEF Orphan, historyVars, CommandTypeOK
    <3> QED
      BY <1>1, <2>5, <3>1 DEF Orphan, commandVars, CommandTypeOK
  <2>6. CASE Rerun(c)
    <3>1. step' \in [Commands -> Running \union Ended]
      BY <1>3, <2>6 DEF Rerun, Running
    <3>2. written' \in [Commands -> Seq(Nat)]
      BY <1>1, <2>6 DEF Rerun, CommandTypeOK
    <3> QED
      BY <1>1, <1>2, <2>6, <3>1, <3>2 DEF Rerun, CommandTypeOK
  <2> QED
    BY <1>7, <2>1, <2>2, <2>3, <2>4, <2>5, <2>6 DEF CommandStep
<1>8. CASE OthersStep
  BY <1>1, <1>6, <1>8 DEF OthersStep, commandVars, CommandTypeOK
<1>9. CASE ServerCrash
  BY <1>1, <1>9 DEF ServerCrash, historyVars, CommandTypeOK, Ended
<1>10. CASE UNCHANGED applyVars
  BY <1>1, <1>10 DEF applyVars, commandVars, historyVars, CommandTypeOK
<1> QED
  BY <1>7, <1>8, <1>9, <1>10 DEF ApplyNext

(* The handler a command asks for carries the key of its document. *)
LEMMA AskedFor ==
    ASSUME ApplyInv, NEW c \in Commands, Ask(c)
    PROVE  /\ call'[c] \in Call /\ call'[c].key = Key(c)
           /\ step[c] = "create" => call'[c].op = "create"
           /\ step[c] = "update" => call'[c].op = "update" /\ call'[c].rv = held[c].row.rv
<1>1. TypeOK /\ ControlInv /\ CommandTypeOK
  BY DEF ApplyInv
<1>2. /\ c \in Sessions /\ Key(c) \in Keys /\ Wants(c) \in Specs
  BY <1>1, DocumentTypes DEF Keys, Specs
<1>3. CASE CreateWorkflow(c, Key(c), Wants(c)) /\ step[c] = "create"
  <2>1. call'[c] = [op |-> "create", key |-> Key(c), rv |-> 0, gen |-> 1,
                    spec |-> Wants(c), status |-> NoStatus]
    BY <1>1, <1>2, <1>3 DEF CreateWorkflow, TypeOK
  <2> QED
    BY <1>2, <1>3, <2>1 DEF Call, Statuses
<1>4. CASE UpdateResource(c, Wants(c), NoStatus) /\ step[c] = "update"
  <2>1. /\ held[c] \in Held /\ held[c].key = Key(c) /\ rows[Key(c)] \in Row
        /\ held[c].row.rv \in Nat
    BY <1>1, <1>2, <1>4 DEF UpdateResource, ControlInv, Present, TypeOK, Held, Row
  <2>2. call'[c] = [op |-> "update", key |-> Key(c), rv |-> held[c].row.rv,
                    gen |-> NextGeneration(rows[Key(c)], Wants(c)),
                    spec |-> Wants(c), status |-> NoStatus]
    BY <1>1, <1>2, <1>4, <2>1 DEF UpdateResource, TypeOK
  <2>3. NextGeneration(rows[Key(c)], Wants(c)) \in Nat \ {0}
    BY <2>1 DEF NextGeneration, Row
  <2> QED
    BY <1>2, <1>4, <2>1, <2>2, <2>3 DEF Call, Statuses
<1> QED
  BY <1>3, <1>4 DEF Ask

LEMMA ControlStep ==
    ASSUME ApplyInv, [ApplyNext]_applyVars
    PROVE  ControlInv'
<1> SUFFICES ASSUME NEW c \in Commands
             PROVE  /\ step'[c] \notin {"answer", "gave up"} => call'[c] = NoCall
                    /\ step'[c] = "update" => held'[c] # NoRead /\ held'[c].key = Key(c)'
                    /\ step'[c] = "answer" => call'[c] # NoCall /\ call'[c].key = Key(c)'
  BY DEF ControlInv, Idle
<1>1. TypeOK /\ CommandTypeOK /\ ControlInv /\ c \in Sessions /\ Key(c) \in Keys
  BY DocumentTypes DEF ApplyInv
<1>2. CASE Lookup(c)
  <2>1. step[c] = "get" /\ call[c] = NoCall /\ Key(c)' = Key(c) /\ call'[c] = call[c]
    BY <1>1, <1>2 DEF Lookup, ControlInv, Idle, Key, Get, serverVars, vars
  <2>2. CASE Get(c, Key(c)) /\ Goto(c, "update")
    <3>1. held'[c] = [key |-> Key(c), row |-> rows[Key(c)]] /\ rows[Key(c)] \in Row
      BY <1>1, <2>2 DEF Get, Present, TypeOK
    <3>2. held'[c] \in Held /\ held'[c].key = Key(c)
      BY <1>1, <3>1 DEF Held
    <3> QED
      BY <1>1, <2>1, <2>2, <3>2, SentinelAssumption DEF Goto, CommandTypeOK
  <2>3. CASE Goto(c, "create")
    BY <1>1, <2>1, <2>3 DEF Goto, CommandTypeOK
  <2> QED
    BY <1>2, <2>2, <2>3 DEF Lookup
<1>3. CASE Ask(c)
  <2>1. step'[c] = "answer" /\ Key(c)' = Key(c)
    BY <1>1, <1>3 DEF Ask, Goto, Key, CommandTypeOK
  <2> QED
    BY <1>3, <2>1, AskedFor, SentinelAssumption
<1>4. CASE Write(c)
  <2>1. call'[c] = NoCall
    BY <1>1, <1>4 DEF Write, CreateInOneCall, CreateProject, CommitInFlight, CommitCreate,
                      CommitUpdate, Finish, Idle, serverVars, TypeOK
  <2>2. step'[c] \notin {"update", "answer"}
    BY <1>1, <1>4 DEF Write, Proceed, Goto, CommandTypeOK
  <2> QED
    BY <2>1, <2>2
<1>5. CASE Rejected(c)
  <2>1. call'[c] = NoCall
    BY <1>1, <1>5 DEF Rejected, Refusal, Refuse, Finish, Idle, ControlInv, vars, TypeOK
  <2>2. step'[c] = "refused"
    BY <1>1, <1>5 DEF Rejected, Goto, CommandTypeOK
  <2> QED
    BY <2>1, <2>2
<1>6. CASE GiveUp(c) \/ Orphan(c)
  BY <1>1, <1>6 DEF GiveUp, Orphan, Goto, commandVars, CommandTypeOK
<1>7. CASE Rerun(c)
  BY <1>1, <1>7 DEF Rerun, Goto, Idle, vars, CommandTypeOK
<1>8. CASE OthersAct(c)
  BY <1>1, <1>8 DEF OthersAct, ControlInv, Idle, Key
<1> QED
  BY <1>2, <1>3, <1>4, <1>5, <1>6, <1>7, <1>8, OthersActOnOne DEF CommandStep

LEMMA ApplyInitInv == ApplyInit => Init /\ ApplyInv
<1> SUFFICES ASSUME ApplyInit
             PROVE  ApplyInv
  BY DEF ApplyInit
<1>1. TypeOK
  BY DEF ApplyInit, Init, Nothing, TypeOK
<1>2. \A c \in Commands : Len(Manifest[c]) \in Nat \ {0}
  BY ManifestAssumption
<1>3. CommandTypeOK
  BY <1>2 DEF ApplyInit, CommandTypeOK, Running
<1>4. ControlInv
  BY CommandsAssumption DEF ApplyInit, Init, ControlInv, Idle
<1> QED
  BY <1>1, <1>3, <1>4 DEF ApplyInv

LEMMA ApplyInvStep ==
    ASSUME ApplyInv, [ApplyNext]_applyVars
    PROVE  ApplyInv'
<1>1. TypeOK'
  BY StepIsNext, TypeStep DEF ApplyInv
<1> QED
  BY <1>1, CommandTypeStep, ControlStep DEF ApplyInv

(* The variables of the commands keep their types, and a handler is in     *)
(* flight for a command only where its program waits for one.              *)
THEOREM CommandsAreTyped == ApplySpec => []ApplyInv
<1>1. ApplyInit => ApplyInv
  BY ApplyInitInv
<1>2. ApplyInv /\ [ApplyNext]_applyVars => ApplyInv'
  BY ApplyInvStep
<1> QED
  BY <1>1, <1>2, PTL DEF ApplySpec

(* A system in which sessions run "kestrai apply" is a control plane: what *)
(* is proved of Spec holds of it.                                          *)
THEOREM ApplyIsASession == ApplySpec => Spec
<1>1. ApplyInit => Init
  BY ApplyInitInv
<1>2. ApplyInv /\ [ApplyNext]_applyVars => [Next]_vars
  BY StepIsNext
<1> QED
  BY <1>1, <1>2, CommandsAreTyped, PTL DEF ApplySpec, Spec

(* In particular no command overwrites what it was not shown, in the life  *)
(* of an object it was shown, and none loses another's write.              *)
THEOREM ApplyLosesNoUpdate == ApplySpec => NoLostUpdate
BY ApplyIsASession, NoUpdateIsLost, PTL

-----------------------------------------------------------------------------
(* What a command has written. *)

LEMMA UptoGrows ==
    ASSUME NEW n \in Nat
    PROVE  Upto(n) \in Seq(Nat) /\ Len(Upto(n)) = n /\ Append(Upto(n), n + 1) = Upto(n + 1)
BY DEF Upto

LEMMA WrittenStep ==
    ASSUME ApplyInv, WrittenInv, [ApplyNext]_applyVars
    PROVE  WrittenInv'
<1> SUFFICES ASSUME NEW c \in Commands
             PROVE  /\ step'[c] \notin {"ok", "gave up"} => written'[c] = Upto(doc'[c] - 1)
                    /\ step'[c] = "ok" => doc'[c] = Len(Manifest[c]) /\ written'[c] = Upto(doc'[c])
                    /\ step'[c] = "gave up" =>
                         \/ written'[c] = Upto(doc'[c] - 1)
                         \/ call'[c] = NoCall /\ written'[c] = Upto(doc'[c])
  BY DEF WrittenInv, Idle, Upto
<1>1. TypeOK /\ CommandTypeOK /\ ControlInv /\ c \in Sessions
  BY CommandsAssumption DEF ApplyInv
<1>2. doc[c] \in Nat \ {0} /\ doc[c] - 1 \in Nat
  BY <1>1 DEF CommandTypeOK
<1>3. ASSUME Wrote(c), written[c] = Upto(doc[c] - 1)
      PROVE  written'[c] = Upto(doc[c])
  <2>1. written'[c] = Append(Upto(doc[c] - 1), doc[c])
    BY <1>1, <1>3 DEF Wrote, CommandTypeOK
  <2>2. Append(Upto(doc[c] - 1), (doc[c] - 1) + 1) = Upto((doc[c] - 1) + 1)
    BY <1>2, UptoGrows
  <2>3. (doc[c] - 1) + 1 = doc[c]
    BY <1>2
  <2> QED
    BY <2>1, <2>2, <2>3
<1>4. CASE Lookup(c) \/ Ask(c) \/ Rejected(c)
  <2>1. /\ step[c] \notin {"ok", "gave up"} /\ step'[c] \notin {"ok", "gave up"}
        /\ doc'[c] = doc[c] /\ written'[c] = written[c]
    BY <1>1, <1>4 DEF Lookup, Ask, Rejected, Refusal, Goto, historyVars, CommandTypeOK
  <2> QED
    BY <2>1 DEF WrittenInv
<1>5. CASE Write(c)
  <2>1. step[c] \in {"create", "answer"} /\ Wrote(c)
    BY <1>5 DEF Write, CreateInOneCall
  <2>2. written'[c] = Upto(doc[c])
    BY <1>3, <2>1 DEF WrittenInv
  <2>3. CASE Goto(c, "gave up") /\ UNCHANGED doc
    <3>1. call'[c] = NoCall
      BY <1>1, <1>5 DEF Write, CreateInOneCall, CreateProject, CommitInFlight, CommitCreate,
                        CommitUpdate, Finish, Idle, serverVars, TypeOK
    <3> QED
      BY <1>1, <2>2, <2>3, <3>1 DEF Goto, CommandTypeOK
  <2>4. CASE doc[c] = Len(Manifest[c]) /\ Goto(c, "ok") /\ UNCHANGED doc
    BY <1>1, <2>2, <2>4 DEF Goto, CommandTypeOK
  <2>5. CASE Goto(c, "get") /\ doc' = [doc EXCEPT ![c] = @ + 1]
    <3>1. doc'[c] - 1 = doc[c] /\ step'[c] = "get"
      BY <1>1, <1>2, <2>5 DEF Goto, CommandTypeOK
    <3> QED
      BY <2>2, <3>1
  <2> QED
    BY <1>5, <2>3, <2>4, <2>5 DEF Write, Proceed
<1>6. CASE GiveUp(c)
  <2>1. /\ step[c] \in Running /\ step'[c] = "gave up"
        /\ doc'[c] = doc[c] /\ written'[c] = written[c]
    BY <1>1, <1>6 DEF GiveUp, Goto, historyVars, CommandTypeOK
  <2> QED
    BY <2>1 DEF WrittenInv, Running
<1>7. CASE Orphan(c)
  <2>1. step[c] = "gave up" /\ step'[c] = step[c] /\ doc'[c] = doc[c] /\ call[c] # NoCall
    BY <1>7 DEF Orphan, commandVars, CommitInFlight, CommitCreate, CommitUpdate, InFlight,
                Idle, Refuse, Cancel
  <2>2. written[c] = Upto(doc[c] - 1) /\ call'[c] = NoCall
    BY <1>1, <1>7, <2>1 DEF WrittenInv, Idle, Orphan, CommitInFlight, CommitCreate,
                            CommitUpdate, Refuse, Cancel, Finish, TypeOK
  <2>3. Wrote(c) \/ written' = written
    BY <1>7 DEF Orphan, historyVars
  <2> QED
    BY <1>3, <2>1, <2>2, <2>3
<1>8. CASE Rerun(c)
  <2>1. step'[c] = "get" /\ doc'[c] = 1 /\ written'[c] = <<>>
    BY <1>1, <1>8 DEF Rerun, Goto, CommandTypeOK
  <2>2. Upto(0) = <<>>
    BY DEF Upto
  <2> QED
    BY <2>1, <2>2
<1>9. CASE OthersAct(c)
  BY <1>1, <1>9 DEF OthersAct, WrittenInv, ControlInv, Idle
<1> QED
  BY <1>4, <1>5, <1>6, <1>7, <1>8, <1>9, OthersActOnOne DEF ApplyInv, CommandStep

(* Whatever a command was told, the documents it wrote are the first ones  *)
(* of its file, each once and in order, and all of them if it succeeded.   *)
THEOREM CommandsWriteAPrefix == ApplySpec => []WritesAreAPrefix
<1>1. ApplyInit => WrittenInv
  BY DEF ApplyInit, WrittenInv, Upto
<1>2. ApplyInv /\ WrittenInv /\ [ApplyNext]_applyVars => WrittenInv'
  BY WrittenStep
<1>3. ASSUME ApplyInv, WrittenInv
      PROVE  WritesAreAPrefix
  <2> SUFFICES ASSUME NEW c \in Commands
               PROVE  /\ written[c] = [i \in 1 .. Len(written[c]) |-> i]
                      /\ step[c] = "ok" => Len(written[c]) = Len(Manifest[c])
                      /\ step[c] # "ok" => \/ Len(written[c]) = doc[c] - 1
                                           \/ step[c] = "gave up" /\ Len(written[c]) = doc[c]
    BY DEF WritesAreAPrefix
  <2>1. doc[c] \in Nat /\ doc[c] - 1 \in Nat
    BY <1>3 DEF ApplyInv, CommandTypeOK
  <2>2. \A n \in Nat : Len(Upto(n)) = n /\ Upto(n) = [i \in 1 .. n |-> i]
    BY UptoGrows DEF Upto
  <2>3. PICK n \in Nat : /\ written[c] = Upto(n)
                         /\ step[c] = "ok" => n = Len(Manifest[c])
                         /\ step[c] # "ok" => n = doc[c] - 1 \/ (step[c] = "gave up" /\ n = doc[c])
    BY <1>3, <2>1 DEF WrittenInv
  <2> QED
    BY <2>2, <2>3
<1> QED
  BY <1>1, <1>2, <1>3, CommandsAreTyped, PTL DEF ApplySpec

-----------------------------------------------------------------------------
(* Why a command can be refused. *)

LEMMA UndisturbedStep ==
    ASSUME ApplyInv, UndisturbedInv, [ApplyNext]_applyVars
    PROVE  UndisturbedInv'
<1> SUFFICES ASSUME NEW c \in Commands, ~excuse'[c]
             PROVE  /\ step'[c] = "create" => ~Present(Key(c))' /\ ~Ownerless(Key(c))'
                    /\ step'[c] = "update" =>
                         Present(Key(c))' /\ held'[c].row = rows'[Key(c)']
                    /\ step'[c] = "answer" /\ call'[c] # NoCall /\ call'[c].op = "create" =>
                         ~Present(Key(c))'
                    /\ step'[c] = "answer" /\ call'[c] # NoCall /\ call'[c].op = "update" =>
                         Present(Key(c))' /\ rows'[Key(c)'].rv = call'[c].rv
                    /\ step'[c] # "refused"
  BY DEF UndisturbedInv, InFlight, Idle, VersionMatches, Present
<1>1. TypeOK /\ CommandTypeOK /\ ControlInv /\ c \in Sessions /\ Key(c) \in Keys
  BY DocumentTypes DEF ApplyInv
<1>2. ASSUME step'[c] \in {"get", "ok", "gave up"}
      PROVE  ~(step'[c] \in {"create", "update", "answer", "refused"})
  BY <1>2
<1>3. CASE Lookup(c)
  <2>1. Key(c)' = Key(c) /\ rows' = rows
    BY <1>3 DEF Lookup, Key, Get, storeVars, vars
  <2>2. ~Ownerless(Key(c))
    BY <1>1, <1>3 DEF Lookup, CommandTypeOK
  <2>3. CASE Get(c, Key(c)) /\ Goto(c, "update")
    BY <1>1, <2>1, <2>3 DEF Goto, Get, Present, TypeOK, CommandTypeOK
  <2>4. CASE ~Present(Key(c)) /\ Goto(c, "create")
    BY <1>1, <2>1, <2>2, <2>4 DEF Goto, Present, Ownerless, CommandTypeOK
  <2> QED
    BY <1>3, <2>3, <2>4 DEF Lookup
<1>4. CASE Ask(c)
  <2>1. /\ Key(c)' = Key(c) /\ rows' = rows /\ step'[c] = "answer" /\ ~excuse[c]
        /\ step[c] \in {"create", "update"}
    BY <1>1, <1>4 DEF Ask, Goto, Key, CreateWorkflow, UpdateResource, storeVars, historyVars,
                      CommandTypeOK
  <2>2. CASE step[c] = "create"
    BY <1>4, <2>1, <2>2, AskedFor DEF UndisturbedInv, Present
  <2>3. CASE step[c] = "update"
    BY <1>4, <2>1, <2>3, AskedFor DEF UndisturbedInv, Present
  <2> QED
    BY <2>1, <2>2, <2>3
<1>5. CASE Write(c) \/ GiveUp(c) \/ Orphan(c) \/ Rerun(c)
  <2>1. step'[c] \in {"get", "ok", "gave up"}
    BY <1>1, <1>5 DEF Write, GiveUp, Orphan, Rerun, Proceed, Goto, commandVars, CommandTypeOK
  <2> QED
    BY <1>2, <2>1
<1>6. ASSUME Rejected(c)
      PROVE  FALSE
  <2>1. ~excuse[c] /\ Refusal(c)
    BY <1>6 DEF Rejected, historyVars
  <2>2. CASE step[c] = "answer" /\ Refuse(c)
    BY <1>1, <2>1, <2>2 DEF Refuse, UndisturbedInv, ControlInv, InFlight
  <2> QED
    BY <2>1, <2>2 DEF Refusal, UndisturbedInv
<1>7. CASE OthersAct(c)
  <2>1. ~excuse[c] /\ Key(c)' = Key(c)
    BY <1>7 DEF OthersAct, Key
  <2>2. step[c] \in {"create", "update", "answer"} => rows'[Key(c)] = rows[Key(c)]
    BY <1>7 DEF OthersAct, Watched
  <2>3. step[c] = "create" /\ Key(c) \in WorkflowKeys =>
          rows'[Owner(Key(c))] = rows[Owner(Key(c))]
    <3> SUFFICES ASSUME step[c] = "create", Key(c) \in WorkflowKeys
                 PROVE  rows'[Owner(Key(c))] = rows[Owner(Key(c))]
      OBVIOUS
    <3>1. PICK p \in Projects, n \in Names : Key(c) = WorkflowKey(p, n)
      BY DEF WorkflowKeys
    <3>2. Owner(Key(c)) = ProjectKey(p)
      BY <3>1 DEF Owner, WorkflowKey
    <3>3. Owner(Key(c)) \in Watched(c)
      BY <3>2, ProjectKeysAreKeys DEF Watched
    <3> QED
      BY <1>7, <3>3 DEF OthersAct
  <2>4. CASE step'[c] = step[c] /\ call'[c] = call[c] /\ held'[c] = held[c]
    BY <2>1, <2>2, <2>3, <2>4
    DEF UndisturbedInv, InFlight, Idle, VersionMatches, Present, Ownerless
  <2>5. CASE /\ call'[c] = NoCall /\ held'[c] = held[c]
             /\ step'[c] = IF step[c] = "answer" THEN "gave up" ELSE step[c]
    BY <2>1, <2>2, <2>3, <2>5 DEF UndisturbedInv, Present, Ownerless
  <2> QED
    BY <1>7, <2>4, <2>5 DEF OthersAct
<1> QED
  BY <1>3, <1>4, <1>5, <1>6, <1>7, OthersActOnOne DEF CommandStep

(* A command that read before it wrote is refused only because the Project *)
(* was missing or because somebody else changed what it had read.          *)
THEOREM CommandsAreRefusedByRaces == ApplySpec => []RefusalsAreRaces
<1>1. ApplyInit => UndisturbedInv
  BY CommandsAssumption DEF ApplyInit, UndisturbedInv
<1>2. ApplyInv /\ UndisturbedInv /\ [ApplyNext]_applyVars => UndisturbedInv'
  BY UndisturbedStep
<1>3. UndisturbedInv => RefusalsAreRaces
  BY DEF UndisturbedInv, RefusalsAreRaces
<1> QED
  BY <1>1, <1>2, <1>3, CommandsAreTyped, PTL DEF ApplySpec
=============================================================================
