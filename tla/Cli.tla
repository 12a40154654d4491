-------------------------------- MODULE Cli ---------------------------------
(***************************************************************************)
(* The kestrai command line (internal/cli) in terminals: apply, get,       *)
(* version and server, each a process that parses its line, reads or       *)
(* writes a file, makes its calls through the stubs of Rpc and exits with  *)
(* 0 or 1.  Users type one line after the other and redirect what get      *)
(* prints into files that apply reads later; programs that use the API     *)
(* without the CLI run next to them.                                       *)
(*                                                                         *)
(* A file is the sequence of YAML documents a decoder finds in it.  A      *)
(* document is EmptyDoc, Garbled (text that is no YAML mapping, or two     *)
(* mappings run together) or a record of its envelope and its body.        *)
(***************************************************************************)
EXTENDS Rpc, Sequences, FiniteSets

CONSTANTS
    Terminals,      \* the callers that are CLI processes
    CommandLines,   \* what users type
    Files,          \* names of files
    Manifests,      \* Manifests[f]: what is in file f at the start
    ApiCalls,       \* the calls of the other callers
    Words,          \* what a document can say it is: its apiVersion or its kind
    EmptyDoc, Garbled,
    NoRun,          \* a terminal at its prompt
    NoFile          \* no file: a missing -f, output that is not redirected

ASSUME TerminalAssumption == Terminals \subseteq Callers
ASSUME CallAssumption ==
    \A call \in ApiCalls : call.method \in DOMAIN Request => call.req \in Request[call.method]
ASSUME CommandAssumption ==
    \A cmd \in CommandLines :
        /\ cmd.verb \in {"apply", "get"} => cmd.conn \in Connections
        /\ cmd.verb = "apply" => cmd.file \in Files \union {NoFile}
        /\ cmd.verb = "get" =>
              /\ cmd.kind.word \in {"project", "workflow", "unknown"}
              /\ cmd.scope \in Text(Projects)
              /\ cmd.kind.word = "project" => cmd.name \in Text(Projects)
              /\ cmd.kind.word = "workflow" => cmd.name \in Text(Names)
ASSUME FileAssumption == NoFile \notin Files

VARIABLES
    run,        \* run[t]: the process in terminal t: its line, where it is, what is left
    exit,       \* exit[t]: the exit code of the last line at the prompt, else 0
    disk,       \* disk[f]: the documents in file f
    input,      \* history: the file the running line of t read
    written,    \* history: what the running line of t changed in the table
    saved       \* history: the objects get printed into file f, if it did

cliVars == <<run, exit, disk>>
historyVars == <<input, written, saved>>
allVars == <<rpcVars, cliVars, historyVars>>

-----------------------------------------------------------------------------
(* codec.go. *)

apiVersionV1Alpha1 == "kestrai.dev/v1alpha1"

(* A document as it is in the file; strict says that its body has no       *)
(* unknown field and no field of a wrong type.                             *)
Document(apiVersion, kind, strict, message) ==
    [apiVersion |-> apiVersion, kind |-> kind, strict |-> strict, message |-> message]

newMessageForKind == {"Project", "Workflow"}

(* What a YAML mapping can be: its body is a message when its kind is one. *)
YamlDocument ==
    {doc \in [apiVersion : Words, kind : Words, strict : BOOLEAN,
              message : Project \union Workflow \union {Nil}] :
        doc.kind \in newMessageForKind => doc.message \in MessageOf(doc.kind)}

FileContent == YamlDocument \union {EmptyDoc, Garbled}

ASSUME DocumentAssumption ==
    /\ {apiVersionV1Alpha1} \union newMessageForKind \subseteq Words
    /\ EmptyDoc # Garbled /\ EmptyDoc \notin YamlDocument /\ Garbled \notin YamlDocument
    /\ Manifests \in [Files -> Seq(FileContent)]

(* Does decodeDocument return without an error? *)
decodes(doc) ==
    /\ doc # Garbled
    /\ doc.apiVersion = apiVersionV1Alpha1
    /\ doc.kind \in newMessageForKind
    /\ doc.strict
    /\ GetName(GetMetadata(doc.message)) # ""

decodeDocument(doc) == [kind |-> doc.kind, message |-> doc.message]

(* The documents of a file that are not empty, in order: the nth is the    *)
(* one with n of them up to its position.                                  *)
Documents(file) ==
    LET kept == {i \in DOMAIN file : file[i] # EmptyDoc}
        UpTo(i) == {j \in kept : j <= i}
    IN  [n \in 1 .. Cardinality(kept) |-> file[CHOOSE i \in kept : Cardinality(UpTo(i)) = n]]

Resources(docs) == [i \in DOMAIN docs |-> decodeDocument(docs[i])]

(* Mutant: a document that does not decode is skipped. *)
decodeResources_Skip(file) == Resources(SelectSeq(Documents(file), decodes))

(* Mutant: what came before the document that does not decode is returned. *)
decodeResources_UpTo(file) ==
    LET docs == Documents(file)
        good == {i \in 0 .. Len(docs) : \A j \in 1 .. i : decodes(docs[j])}
        last == CHOOSE i \in good : \A j \in good : j <= i
    IN  Resources(SubSeq(docs, 1, last))

(* The resources of a file, <<>> when there is none or one document does   *)
(* not decode: both are errors.                                            *)
decodeResources(file) ==
    LET docs == Documents(file)
    IN  IF \A i \in DOMAIN docs : decodes(docs[i]) THEN Resources(docs) ELSE <<>>

(* Mutant: the envelope is not stamped on. *)
encodeResource_Bare(kind, msg) == Document("", "", TRUE, msg)

encodeResource(kind, msg) == Document(apiVersionV1Alpha1, kind, TRUE, msg)

(* The trailing s goes first and only in lower case, so that "PROJECTS" is *)
(* no kind while "Projects" and "PROJECT" are.                             *)
normalizeKind(arg) == IF arg.ending = "S" THEN "unknown" ELSE arg.word

-----------------------------------------------------------------------------
(* get.go: what is printed for a set of objects.  Tables are not YAML, and *)
(* the encoded objects of a list follow each other without a separator.    *)

formats == {"yaml", "json"}

printTable == <<Garbled>>

Single(items) == \E obj \in items : items = {obj}

renderOne(kind, obj, output) ==
    IF output = "" THEN printTable ELSE <<encodeResource(kind, obj)>>

renderList(kind, items, output) ==
    IF items = {} THEN <<>>
    ELSE IF output = "" THEN printTable
    ELSE IF Single(items)
         THEN <<encodeResource(kind, CHOOSE obj \in items : TRUE)>>
         ELSE <<Garbled>>

(* An unknown format is noticed at the first object to encode. *)
Renders(items, output) == output = "" \/ output \in formats \/ items = {}

-----------------------------------------------------------------------------
(* Processes. *)

(* client.go: the token goes with every call, unless it is empty. *)
bearerCreds(token) == IF token = "" THEN NoHeader ELSE [scheme |-> "bearer", token |-> token]
dial(address, token) == [server |-> address, header |-> bearerCreds(token)]

(* A resource decodeResources returns, and what a process is in. *)
Resource ==
    {r \in [kind : newMessageForKind, message : Project \union Workflow] :
        r.message \in MessageOf(r.kind) /\ GetName(GetMetadata(r.message)) # ""}

Process ==
    [cmd : CommandLines, at : {"look", "write", "answer", "ask", "print"}, todo : Seq(Resource)]

ASSUME PromptAssumption == NoRun \notin Process

AtPrompt(t) == run[t] = NoRun

(* The process is gone, and with it the connection and the answer; the     *)
(* server is not told of it at once.                                       *)
Exit(t, code) ==
    /\ run' = [run EXCEPT ![t] = NoRun]
    /\ exit' = [exit EXCEPT ![t] = code]
    /\ answer' = [answer EXCEPT ![t] = NoAnswer]
    /\ input' = [input EXCEPT ![t] = <<>>]
    /\ written' = [written EXCEPT ![t] = <<>>]
    /\ UNCHANGED <<storeVars, conn, inflight>>

Continue(t, cmd, at, todo) ==
    /\ run' = [run EXCEPT ![t] = [cmd |-> cmd, at |-> at, todo |-> todo]]
    /\ exit' = [exit EXCEPT ![t] = 0]

Goto(t, at) == Continue(t, run[t].cmd, at, run[t].todo)

At(t, at) == ~AtPrompt(t) /\ run[t].at = at

(* The handler of an earlier line is over: its connection was closed. *)
Ready(t) == AtPrompt(t) /\ Idle(t)

CliInit ==
    /\ RpcInit
    /\ run = [t \in Terminals |-> NoRun]
    /\ exit = [t \in Terminals |-> 0]
    /\ disk = Manifests
    /\ input = [t \in Terminals |-> <<>>]
    /\ written = [t \in Terminals |-> <<>>]
    /\ saved = [f \in Files |-> {}]

(* What a step of t changed in the table, for the history. *)
Changed == {k \in Keys : rows'[k] # rows[k]}

Wrote(t) ==
    written' = [written EXCEPT ![t] =
        IF Changed = {} \/ AtPrompt(t) THEN @
        ELSE LET k == CHOOSE k \in Changed : TRUE
             IN  Append(@, [kind |-> k.kind, project |-> k.project, name |-> k.name,
                            spec |-> rows'[k].spec])]

-----------------------------------------------------------------------------
(* apply.go. *)

(* A file that does not open reads like NoFile. *)
openInput(file) == IF file = NoFile THEN <<>> ELSE disk[file]

(* The whole file is decoded before anything is dialled. *)
StartApply(t, cmd) ==
    /\ Ready(t)
    /\ cmd.verb = "apply"
    /\ LET file == openInput(cmd.file)
           todo == decodeResources(file)
       IN  \/ todo = <<>> /\ Exit(t, 1)
           \/ /\ todo # <<>>
              /\ Continue(t, cmd, "look", todo)
              /\ Dial(t, cmd.conn)
              /\ input' = [input EXCEPT ![t] = file]
              /\ UNCHANGED written
    /\ UNCHANGED <<disk, saved>>

Current(t) == Head(run[t].todo)
MetadataOf(t) == GetMetadata(Current(t).message)

(* applyProject and applyWorkflow: first the object as it is. *)
LookUp(t) ==
    /\ At(t, "look")
    /\ \/ /\ Current(t).kind = "Project"
          /\ ProjectServiceClient(t, "GetProject",
                 [tenantId |-> "", name |-> GetName(MetadataOf(t))])
       \/ /\ Current(t).kind = "Workflow"
          /\ WorkflowServiceClient(t, "GetWorkflow",
                 [tenantId |-> "", project |-> GetProject(MetadataOf(t)),
                  name |-> GetName(MetadataOf(t))])
    /\ Goto(t, "write")
    /\ UNCHANGED <<disk, historyVars>>

(* The stored resource_version is carried into the document. *)
WithVersion(message, version) == [message EXCEPT !.metadata.resourceVersion = version]

ShownVersion(t) ==
    LET obj == CHOOSE obj \in answer[t].items : TRUE
    IN  GetResourceVersion(GetMetadata(obj))

applyProject(t, p) ==
    \/ /\ answer[t].code = "NotFound"
       /\ ProjectServiceClient(t, "CreateProject", [project |-> p])
    \/ /\ answer[t].code = "OK"
       /\ ProjectServiceClient(t, "UpdateProject",
              [project |-> WithVersion(p, ShownVersion(t))])

applyWorkflow(t, w) ==
    \/ /\ answer[t].code = "NotFound"
       /\ WorkflowServiceClient(t, "CreateWorkflow", [workflow |-> w])
    \/ /\ answer[t].code = "OK"
       /\ WorkflowServiceClient(t, "UpdateWorkflow",
              [workflow |-> WithVersion(w, ShownVersion(t))])

Write(t) ==
    /\ At(t, "write")
    /\ \/ Current(t).kind = "Project" /\ applyProject(t, Current(t).message)
       \/ Current(t).kind = "Workflow" /\ applyWorkflow(t, Current(t).message)
    /\ Goto(t, "answer")
    /\ Wrote(t)
    /\ UNCHANGED <<disk, input, saved>>

LookUpFailed(t) ==
    /\ At(t, "write")
    /\ answer[t].code \notin {"OK", "NotFound"}
    /\ Exit(t, 1)
    /\ UNCHANGED <<disk, saved>>

(* On to the next document; the first error is the last. *)
NextDocument(t) ==
    /\ At(t, "answer")
    /\ Idle(t)
    /\ \/ answer[t].code # "OK" /\ Exit(t, 1)
       \/ answer[t].code = "OK" /\ Len(run[t].todo) = 1 /\ Exit(t, 0)
       \/ /\ answer[t].code = "OK" /\ Len(run[t].todo) > 1
          /\ Continue(t, run[t].cmd, "look", Tail(run[t].todo))
          /\ UNCHANGED <<rpcVars, input, written>>
    /\ UNCHANGED <<disk, saved>>

-----------------------------------------------------------------------------
(* get.go, version.go and server.go. *)

(* The shell empties the file the output goes to before the command runs;  *)
(* users do not send two outputs into one file at a time.                  *)
Prints(t, f) == ~AtPrompt(t) /\ run[t].cmd.verb = "get" /\ run[t].cmd.into = f

StartGet(t, cmd) ==
    LET kind == normalizeKind(cmd.kind)
        usable == kind # "unknown" /\ (kind = "workflow" /\ cmd.name # "" => cmd.scope # "")
    IN  /\ Ready(t)
        /\ cmd.verb = "get"
        /\ \A u \in Terminals : ~(cmd.into \in Files /\ Prints(u, cmd.into))
        /\ \/ ~usable /\ Exit(t, 1)
           \/ /\ usable
              /\ Continue(t, cmd, "ask", <<>>)
              /\ Dial(t, cmd.conn)
              /\ UNCHANGED <<input, written>>
        /\ disk' = [f \in Files |-> IF f = cmd.into THEN <<>> ELSE disk[f]]
        /\ saved' = [f \in Files |-> IF f = cmd.into THEN {} ELSE saved[f]]

getProjects(t, cmd) ==
    IF cmd.name # ""
    THEN ProjectServiceClient(t, "GetProject", [tenantId |-> "", name |-> cmd.name])
    ELSE ProjectServiceClient(t, "ListProjects", [tenantId |-> ""])

getWorkflows(t, cmd) ==
    IF cmd.name # ""
    THEN WorkflowServiceClient(t, "GetWorkflow",
             [tenantId |-> "", project |-> cmd.scope, name |-> cmd.name])
    ELSE WorkflowServiceClient(t, "ListWorkflows", [tenantId |-> "", project |-> cmd.scope])

Ask(t) ==
    /\ At(t, "ask")
    /\ \/ normalizeKind(run[t].cmd.kind) = "project" /\ getProjects(t, run[t].cmd)
       \/ normalizeKind(run[t].cmd.kind) = "workflow" /\ getWorkflows(t, run[t].cmd)
    /\ Goto(t, "print")
    /\ UNCHANGED <<disk, historyVars>>

KindNames == [project |-> "Project", workflow |-> "Workflow"]

Printed(cmd, items) ==
    LET kind == KindNames[normalizeKind(cmd.kind)]
    IN  IF cmd.name # "" THEN renderOne(kind, CHOOSE obj \in items : TRUE, cmd.output)
        ELSE renderList(kind, items, cmd.output)

PrintAnswer(t) ==
    LET cmd == run[t].cmd
        items == answer[t].items
    IN  /\ At(t, "print")
        /\ answer[t].code = "OK"
        /\ Renders(items, cmd.output)
        /\ Exit(t, 0)
        /\ disk' = [f \in Files |-> IF f = cmd.into THEN Printed(cmd, items) ELSE disk[f]]
        /\ saved' = [f \in Files |-> IF f # cmd.into THEN saved[f]
                                     ELSE IF cmd.output # "" THEN items ELSE {}]

PrintError(t) ==
    /\ At(t, "print")
    /\ answer[t].code = "OK" => ~Renders(answer[t].items, run[t].cmd.output)
    /\ Exit(t, 1)
    /\ UNCHANGED <<disk, saved>>

serverRoles == {"api", "reconciler", "scheduler", "agent-runtime"}

(* version and server make no call; server only checks its role. *)
VersionCommand(t, cmd) ==
    /\ Ready(t)
    /\ cmd.verb = "version"
    /\ Exit(t, 0)
    /\ UNCHANGED <<disk, saved>>

ServerCommand(t, cmd) ==
    /\ Ready(t)
    /\ cmd.verb = "server"
    /\ Exit(t, IF cmd.role \in serverRoles THEN 0 ELSE 1)
    /\ UNCHANGED <<disk, saved>>

-----------------------------------------------------------------------------
(* Time and everybody else. *)

(* The deadline of callContext ends the command; its handler may go on. *)
Deadline(t) ==
    /\ ~AtPrompt(t)
    /\ Exit(t, 1)
    /\ UNCHANGED <<disk, saved>>

ServerStep(t) ==
    /\ HandlerStep(t)
    /\ Wrote(t)
    /\ UNCHANGED <<cliVars, input, saved>>

TerminalStep(t) ==
    \/ \E cmd \in CommandLines :
          \/ StartApply(t, cmd) \/ StartGet(t, cmd)
          \/ VersionCommand(t, cmd) \/ ServerCommand(t, cmd)
    \/ LookUp(t) \/ Write(t) \/ LookUpFailed(t) \/ NextDocument(t)
    \/ Ask(t) \/ PrintAnswer(t) \/ PrintError(t)
    \/ Deadline(t) \/ ServerStep(t)

ApiStep(c) ==
    /\ \/ \E connection \in Connections : Dial(c, connection)
       \/ \E call \in ApiCalls :
             \/ call.service = "SystemService" /\ SystemServiceClient(c, call.method)
             \/ call.service = "ProjectService" /\ ProjectServiceClient(c, call.method, call.req)
             \/ call.service = "WorkflowService" /\ WorkflowServiceClient(c, call.method, call.req)
       \/ ReflectionClient(c)
       \/ HandlerStep(c)
    /\ UNCHANGED <<cliVars, historyVars>>

CliNext ==
    \/ \E t \in Terminals : TerminalStep(t)
    \/ \E c \in Callers \ Terminals : ApiStep(c)

CliSpec == CliInit /\ [][CliNext]_allVars

-----------------------------------------------------------------------------
(* Properties. *)

(* What a file asks for, document by document; a Project has no project. *)
Asked(file) ==
    LET docs == Documents(file)
    IN  [i \in DOMAIN docs |->
            LET meta == GetMetadata(docs[i].message)
            IN  [kind |-> docs[i].kind,
                 project |-> IF docs[i].kind = "Project" THEN "" ELSE GetProject(meta),
                 name |-> GetName(meta),
                 spec |-> GetSpec(docs[i].message)]]

Bad(file) == \E i \in DOMAIN file : file[i] # EmptyDoc /\ ~decodes(file[i])

(* apply exits with 0 only when the table was given every document of the  *)
(* file it read, with the spec the document has and in the order of the    *)
(* file, through both halves of each handler.                              *)
ExitZeroMeansApplied ==
    [][\A t \in Terminals :
          At(t, "answer") /\ run'[t] = NoRun /\ exit'[t] = 0 =>
              ~Bad(input[t]) /\ written[t] = Asked(input[t])]_allVars

(* At any time, what a command line changed in the table is what the first *)
(* documents of its file ask for, in their order and each once, and nothing *)
(* if a document anywhere in the file does not decode: decodeResources     *)
(* reads all of it before anything is dialled.                             *)
WritesFollowTheFile ==
    \A t \in Terminals :
        /\ Bad(input[t]) => written[t] = <<>>
        /\ Len(written[t]) <= Len(Asked(input[t]))
        /\ \A i \in DOMAIN written[t] : written[t][i] = Asked(input[t])[i]

(* "output round-trips back through apply" (codec.go): a file that get -o  *)
(* printed one object into decodes to that object, whatever happened to    *)
(* the object since; a list of several is refused as a whole.              *)
OutputRoundTrips ==
    \A f \in Files :
        /\ Single(saved[f]) =>
              /\ Len(decodeResources(disk[f])) = 1
              /\ decodeResources(disk[f])[1].message \in saved[f]
        /\ saved[f] # {} /\ ~Single(saved[f]) => decodeResources(disk[f]) = <<>>
=============================================================================
