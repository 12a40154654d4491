# A specification of the Kestrai control plane

Kestrai's Phase 0 control plane is one Go process, `kestrai up`: a gRPC API over
a SQLite table of versioned objects, and a reconciler that polls the same table
and publishes a status for every Workflow. This directory specifies that process,
from the command line and the generated stubs in front of it down to the table, in
TLA+, model-checks it with TLC on small instances, and proves with TLAPS, for every
instance, its optimistic-concurrency guarantees, the safety of its shutdown, the
separation of its tenants, the completeness of its listings and what a command line's
exit code and output promise; and, when names are not reused, that the control plane
implements an abstract specification in which every operation is one atomic step.

Paths below are relative to the repository.

## 1. The system

### Parts, their state and their operations

| Part | Source | State | Operations |
|---|---|---|---|
| Resource store | `internal/store/sqlite.go`, `store.go` | the table `resources`: key, uid, resource_version, generation, labels, created_at, data | `Create`, `Get`, `Update` (compare-and-swap on resource_version), `Delete`, `List` (scope, label filter, cursor, page limit) |
| Migrations | `internal/store/migrate.go` | the table `schema_migrations` | `migrate`, inside `Open` |
| Project API | `internal/server/project.go`, `resources.go` | none of its own | Create, Get, List, Update, Delete |
| Workflow API | `internal/server/workflow.go`, `resources.go` | none of its own | the same five; Create looks the owning Project up first |
| Reconciler | `internal/reconciler/reconciler.go` | the slice of rows its last `List` returned | `Run`, `reconcileAll`, `reconcileWorkflow` and the pure functions that compute a status |
| `kestrai up` | `internal/cli/up.go`, `internal/server/server.go` | the process: store, server, reconciler goroutine | start, serve, drain, close, exit |
| `kestrai apply` | `internal/cli/apply.go`, `codec.go` | the documents of its file, the object it read | decode the file; for each document: Get, then Create or Update |
| `kestrai get`, `version`, `server` | `internal/cli/get.go`, `version.go`, `server.go` | none | read and print |
| Authentication | `internal/auth/*.go`, `internal/server/resources.go` | none (an identity per request) | authenticate, resolve the tenant |
| System service, server wiring | `internal/server/server.go`, `system.go` | none | health, version; which services and interceptors a server has |
| API definitions | `proto/`, `gen/go/` | | messages and their getters, stubs, dispatch; their comments are the documentation the code is held to |
| SDKs, web | `sdk/`, `web/` | | stubs |

### How the parts interact

* Every RPC is a goroutine of the gRPC server. Handlers share nothing but the
  store and take no lock. `CreateWorkflow`, `UpdateProject` and `UpdateWorkflow`
  make *two* store calls, and anything may happen between them.
* A store call is a transaction on the single connection of the pool
  (`SetMaxOpenConns(1)`), so one store call is one atomic step.
* The reconciler is one more goroutine. It lists all Workflows once per tick,
  then walks through the *copies* and writes each changed one back with
  `store.Update`: the whole record, protected by the listed resource_version.
* A client reads an object, edits it and sends it back with the
  resource_version it was shown. Every call of the CLI has a deadline of ten seconds,
  so it may give up on a call whose write has happened or will not happen.
* The identity a handler works for comes from the interceptor in front of it. The
  tenant of that identity is part of every key the handler uses; the tenant a request
  or an object names is ignored.
* `kestrai apply` reads a whole file before its first call. `kestrai get -o yaml` writes
  files that `apply` can read.
* A signal cancels the context of the reconciler and drains the server; nobody waits for
  the reconciler. The process can also die at any point; the table survives it. Several
  processes may open one database file, and migrate it.

### What is hard about it

| Behaviour | Where | Properties |
|---|---|---|
| stale copies written back: by clients, by handlers between two store calls, by the reconciler | `sqlite.go:155`, `workflow.go:131`, `project.go:119`, `reconciler.go:135` | `VersionDeterminesContent`, `NoLostUpdate`, `GenerationCountsEdits`, `ReconcilerKeepsListedLife`, `ImplementsDesiredState` |
| names that are deleted and created again, versions that start over | `sqlite.go:93,155` | `StaleVersionRejected` (refuted) |
| check-then-insert across two store calls | `workflow.go:48` | `WorkflowHadProject`, `OwningProjectExists` (refuted) |
| a verdict computed from one spec and published next to another | `reconciler.go:125` | `NoFalseReady`, `VerdictIsTruthful` |
| a steady state that must write nothing | `reconciler.go:126` | `NoChurn`, `SteadyStateIsFixpoint` |
| transition times that must follow the flips only | `reconciler.go:199` | `TransitionsAreFlips`, `TimesAreFlipTimes`, `TransitionTimesReflectFlips` (refuted) |
| swallowed conflicts and errors, shutdowns and crashes between steps | `reconciler.go:107,140`, `up.go:76` | `ConvergesWhileUp`, `ImplementsControlPlane` |
| a shutdown with handlers, streams and a reconciler in flight | `up.go:59,88`, `server.go:101` | `SignalCutsNobodyOff`, `ShutdownEnds` |
| one table for several tenants, keyed by an identity fixed before the handler | `interceptor.go:37`, `resources.go:43` | `OwnTenantOnly`, `AnswersShowOwnTenant` |
| a file with one bad document among good ones | `codec.go:55` | `WritesFollowTheFile`, `ExitZeroMeansApplied` |
| printed objects applied again later | `codec.go:157`, `get.go:131` | `OutputRoundTrips` |
| paging while the table changes | `sqlite.go:260,289` | `Ascending`, `NothingMissed`, `NothingInvented` |
| a command over several documents that can be refused, cut off or run again at any point | `apply.go:70,92,96,132` | `WritesAreAPrefix`, `RefusalsAreRaces` |
| several processes migrating one file, dying in the middle | `migrate.go:83,123,129` | `AppliedOnce`, `NoGaps`, `ReadyIsMigrated`, `EventuallyReady` |

`PROJECT.json` lists every hazard at its line, those no property covers yet
included, with the reason.

## 2. The modules

| Module | Role |
|---|---|
| `Store` | the table and its three writing calls; no actors |
| `WorkflowStatus` | the reconciler's pure functions, and what "runnable" and "truthful" mean without the code's order of tests; no variables |
| `ControlPlane` | **the core**: `EXTENDS Store, WorkflowStatus`; API sessions, handlers in flight, the reconciler and faults over the table |
| `Apply` | "kestrai apply": `EXTENDS ControlPlane`; some sessions follow the program of the command |
| `DesiredState` | the abstract specification of Workflows: create, edit, publish and remove as atomic steps on the current object |
| `Lifecycle` | the process of `kestrai up`: `EXTENDS ControlPlane`; start, serve, drain, close, exit, kill |
| `Messages` | the messages of the API with their nil-safe getters; no variables |
| `Auth` | providers, the interceptor and the tenant of a call; no variables |
| `Rpc` | a call from its stub to its answer: `EXTENDS Store, Auth, Messages`; several servers, tenants and callers over one table |
| `Cli` | terminals, command lines and files: `EXTENDS Rpc`; `apply`, `get`, `version`, `server` next to programs that use the API directly |
| `Resync` | one Workflow, its status and a clock, for every shape of spec |
| `Listing` | a client paging through `List` while others change the table |
| `Migrate` | several processes in `Open` on one file |
| `WorkflowStatusProofs` | lemmas about the status functions, shared by the next three |
| `ControlPlaneProofs` | the TLAPS proofs about `ControlPlane`, first with reuse of names, then without it: the refinement of `DesiredState` needs the latter |
| `ResyncProofs` | the TLAPS proofs about `Resync` |
| `ApplyProofs`, `LifecycleProofs` | about `Apply` and `Lifecycle`; both `EXTENDS ControlPlaneProofs`, whose theorems they carry over |
| `MigrateProofs` | about `Migrate` |
| `ListingProofs` | about `Listing` |
| `CliProofs` | about tenants, the types of `Rpc`, and the commands: `EXTENDS Cli`, so for servers, programs and terminals together |
| `MCControlPlane`, `MCApply`, `MCLifecycle`, `MCCli`, `MCResync`, `MCMigrate` | constants for TLC |

An operator named `X_Something` next to an operator `X`, with a comment starting
with "Mutant:", is `X` with one plausible mistake in it. No specification uses
it: putting it in the place of `X` makes one named property fail, which is how
the properties are shown to depend on the code they are about (`PROJECT.json`,
"mutants").

### `Store` and `ControlPlane` against the code

State:

| Variable | In the code |
|---|---|
| `rows[k]` | the row of `resources` with primary key `k`, or `NoRow`. `spec` and `status` are the two parts of the data blob the control plane tells apart |
| `nextUid` | the UUID the next `Create` draws: fresh, so a counter |
| `retired` | history variable: keys deleted at least once |
| `held[s]` | what client `s` was last shown; its `resource_version` is the one it will quote |
| `call[s]` | the local variables of the handler serving `s`, between its two store calls |
| `snap[w]` | the record of `w` in the slice `reconcileAll` is ranging over, while it is not handled |
| `faults` | number of faults so far, for the bound |

Actions:

| Action | In the code |
|---|---|
| `GetProject`, `GetWorkflow` | the handlers of that name, both the operator `Get` |
| `CreateProject` | `CreateProject`: one store call |
| `CreateWorkflow`, then `CommitCreate` or `Refuse` | `CreateWorkflow`: the lookup of the Project; then `store.Create` or `ErrAlreadyExists` |
| `UpdateProject`, `UpdateWorkflow`, then `CommitUpdate` or `Refuse` | the two Update handlers: `store.Get` and the generation; then `store.Update`, or `ErrConflict` or `ErrNotFound` |
| `DeleteProject`, `DeleteWorkflow` | the handlers of that name, both the operator `DeleteResource` |
| `Cancel` | the context of a handler is cancelled (deadline, disconnect) before its second store call |
| `Reply` (inside the committing actions) | the answer arrives, or is lost after the write |
| `ReconcileList` | `reconcileAll` calls `List` |
| `ReconcileSkip`, `ReconcileWrite`, `ReconcileRaced` | `reconcileWorkflow`: equal status; write-back; `ErrConflict` or `ErrNotFound` swallowed |
| `ReconcileError` | the write fails otherwise; logged, next item |
| `Crash` | the process dies and is started again |

Abstractions, and why they are safe:

* *One tenant.* `kestrai up` wires the local-dev provider, which puts everybody
  in the tenant `default`, and the reconciler watches that tenant only. `Rpc` has
  several tenants and shows that they do not meet.
* *No labels in the core.* They travel with the rest of the row in every write;
  `Listing` has them.
* *Time.* The `at` of a condition is the version of the write that stamps it. Inside
  one life of a row versions are ordered as its writes are, so two stamps are
  equal exactly when the code copied one from the other. `Resync` has a clock.
* *What clients send.* A client updates with the version it was shown and with
  the status it was shown or none (a manifest); a specification of clients that make up versions
  or statuses would say nothing about the code.
* *Order of the items.* `reconcileAll` walks its slice in key order; the model
  takes any order, which only adds behaviours.
* *Messages and run counters.* A condition's message is a function of the reason;
  nothing writes the run counters.
* A request refused before its first store call (no name, no version, NotFound)
  changes nothing and is not an action.

### `DesiredState` and the refinement

`DesiredState` knows no versions, sessions, snapshots or failures: a Workflow is
absent, live or gone; an edit bumps the generation exactly when the spec changes
and keeps or withdraws the verdict; the control plane publishes the verdict on
*what is desired now*. `ControlPlane!Desired` maps the table to it (`objOf`), and
`ImplementsDesiredState` says that every behaviour of the control plane is one
of `DesiredState`. That is a strong statement: it is false as soon as a handler
computes a generation from an old row, or the reconciler publishes a verdict on
an old spec. It needs one assumption on the users, `ReuseNames = FALSE`: nobody
creates a name again after deleting it. Without it the refinement is false, for
the reason the run `stale_version` shows.

### `Apply`

`Apply` gives some sessions a program. `Manifest[c]` is the file the command `c`
applies: a sequence of documents, each a key and the spec wanted for it.
`step[c]` is the place in `applyResource` (`get`, `create`, `update`, `answer`) or
how the command ended (`ok`, `refused`, `gave up`); `doc[c]` is the document it is
at.

| Action | In the code |
|---|---|
| `Lookup` | `GetProject` or `GetWorkflow`; NotFound leads to a create, an object to an update with its version |
| `Ask` | the handler's first store call: `CreateWorkflow`, `UpdateProject`, `UpdateWorkflow` |
| `Write` | the write happens (`CreateProject` in one call); the command goes on to the next document, or the deadline beats the answer |
| `Rejected` | AlreadyExists, FailedPrecondition, NotFound or Aborted: `runApply` returns the error, there is no retry |
| `GiveUp` | the deadline of `callContext` passes at any point |
| `Orphan` | the handler of a command that gave up writes after all, is refused or sees its context cancelled |
| `Rerun` | the user runs the same file again |
| `OthersStep`, `ServerCrash` | every other actor of `ControlPlane`; the death of the server, which is an error to a command waiting for it |

No action touches a variable of `ControlPlane` except through an action of
`ControlPlane`, which `ApplyIsASession` proves. Two history variables serve the
properties: `written` (which documents got into the table) and `excuse` (whether
anybody but the command has touched what the command had looked up). A document
carries no status, so an `apply` over an existing Workflow withdraws its status
until the next resync: what `transition_times` is about.

### `Lifecycle`

`Lifecycle` puts the process around the control plane. `phase` is where `runUp` is,
`late` the Workflow whose write-back had begun when the signal came, `streams` the
sessions holding a call of the reflection service open.

| Action | In the code |
|---|---|
| `Start` | `runUp` up to the `select`: the reconciler's goroutine, the server's goroutine |
| `Accept` | a call arrives; its handler's first store call (`ProjectStep`, `WorkflowStep`, `DeleteStep` of `ControlPlane`) |
| `HandlerStep` | the second store call of a handler, which can only fail once the store is closed |
| `Resync` | the reconciler's goroutine, while its context lives |
| `Signal` | SIGINT or SIGTERM: the reconciler's context is cancelled, at most the store call it is in gets through; the server stops accepting |
| `LateWrite` | that store call lands while the server drains |
| `CloseStore` | `GracefulStop` has returned, the deferred `Close` runs |
| `ServeFails`, `AbandonStore` | `Serve` returns an error; the deferred `Close` runs with handlers in flight |
| `Exit`, `Die` | `main` returns, with whatever goroutines are left; the process is killed |

Every step of it is a step of `ControlPlane` or changes none of its variables, which is
the run property `ImplementsControlPlane` and the theorem `UpIsAControlPlane`: everything
`ControlPlane` promises survives starts, shutdowns, late writes and kills.

### `Messages`, `Auth`, `Rpc`

`ControlPlane` follows the contents of the table under one tenant; `Rpc` follows a call
under many. A server is a record of what it was built with (`server.New`): a store or
none, an interceptor or none. `conn[c]` is the server and header a caller dialled,
`inflight[c]` its handler between two store calls, `answer[c]` what it was told last.

| Definition | In the code |
|---|---|
| `ObjectMeta`, `Project`, `Workflow`, the requests, `GetMetadata` and the other getters | the generated message types; a message field may be nil, and a getter of nil answers the zero value |
| `bearerToken`, `authenticate`, `Unary`, `Stream` | `interceptor.go`; public methods run without an identity |
| `AuthenticateLocalDev`, `AuthenticateStaticToken` | the two providers |
| `resolveTenant` | `resources.go`; the argument `requested` is what the request says, which the code does not look at |
| `SystemServiceClient`, `ProjectServiceClient`, `WorkflowServiceClient` | the stubs and the generated dispatch: unreachable, unauthenticated, not registered, or the handler |
| `CreateProject` ... `DeleteWorkflow` | the ten handlers with their validation and status codes; Update and `CreateWorkflow` stop at `inflight` |
| `Insert`, `Lookup`, `Remove`, `List`, `Revise` | the store call of a handler and what `storeErr` makes of its error |
| `FinishCreate`, `FinishUpdate`, `CancelHandler` | the second store call; the caller's deadline |

`tenantsTable` is `{default}`: migration 0001 seeds that row and nothing inserts another,
so a tenant of a static token can read and delete but every insert of it fails on the
foreign key with Internal.

Left out: labels and selectors (in `Listing`), timestamps and conditions (in
`WorkflowStatus`, `ControlPlane`), the wire format, the reconciler.

### `Cli`

`run[t]` is the process in terminal `t`: the line typed, the place in the program
(`look`, `write`, `answer` of `apply`, `ask`, `print` of `get`) and the documents left.
`exit[t]` is its exit code. `disk[f]` is a file as the sequence of YAML documents a
decoder finds in it: `EmptyDoc`, `Garbled`, or an envelope with a body that is strict or
has an unknown field. Three history variables serve the properties: `input` (the file the
line read), `written` (what it changed in the table), `saved` (the objects printed to a
file).

| Action | In the code |
|---|---|
| `StartApply` | open the file, `decodeResources` all of it, then dial |
| `LookUp`, `Write`, `NextDocument`, `LookUpFailed` | `applyProject`, `applyWorkflow`: Get, then Create or Update with the version shown; the first error ends the command |
| `StartGet`, `Ask`, `PrintAnswer`, `PrintError` | `runGet`: kind and arguments checked, one call, table or YAML or JSON |
| `VersionCommand`, `ServerCommand` | no call; `server` checks its role |
| `Deadline` | `callContext` expires; the handler on the server may go on (`ServerStep`) |
| `ApiStep` | a program on the stubs: dials, calls, leaves |

`renderList` prints several objects one after the other without a separator, so that the
file is no YAML document any more (`Garbled`), and `apply` refuses it as a whole.

Users do not send the output of two running commands into one file at a time (the guard
with `Prints` in `StartGet`): what such a file holds is decided by the shell and the file
system, not by this code. `Words` is what a document can give as its `apiVersion` or its
`kind`: the supported ones and any others.

### `Resync`, `Listing`, `Migrate`

`Resync` exercises `WorkflowStatus` against a history variable that remembers
when the verdict really flipped, and against a table of defects written without
the code's order of tests.

`Listing` runs `store.List` page by page, in a table where rows are inserted,
deleted and relabelled in between, with page sizes that change from call to
call. Keys are pairs of numbers for the pairs of strings, whose only use is their
order. `Wanted` is the meaning of a request; `steady` and `seen` remember what was
wanted always, or ever, since the listing began.

`Migrate` splits `migrate` where another process can get in: the read of
`schema_migrations`, the SQL of a migration (which takes SQLite's write lock),
its record and commit. A process can lose the race (`Rollback`), wait too long
for the lock (`LockTimeout`) or die (`Die`).

## 3. The runs

| Run | Checks | Bounds |
|---|---|---|
| `control_plane_reuse` | `TypeOK`, `VersionDeterminesContent`, `WorkflowHadProject`, `NoLostUpdate`, `GenerationCountsEdits`, `ReconcilerKeepsListedLife` | 2 clients (symmetric), 1 Project, 1 Workflow name, 2 specs; names reused; 3 creations, so a Workflow and its successor; versions to 3 |
| `control_plane_one_life` | `NoFalseReady`, `GenerationTracksSpec`, `NoChurn`, `TransitionsAreFlips`, `ImplementsDesiredState` | as above without reuse; client updates of a Workflow below version 3, one of the Project; 1 fault |
| `control_plane_live` | `UpTypeOK`, `SignalCutsNobodyOff`, `ShutdownEnds`, `ConvergesWhileUp`, `ImplementsControlPlane` | `Lifecycle` with 1 client, names reused, 3 creations, versions to 3; 2 signals, kills, broken listeners or failing writes |
| `cli` | `RpcTypeOK`, `OwnTenantOnly`, `AnswersShowOwnTenant`, `ExitZeroMeansApplied`, `WritesFollowTheFile`, `OutputRoundTrips` | 1 terminal and 1 API program; a server of `kestrai up`, one of another tenant with a static token (right and wrong), one without a store; 1 Project, 2 Workflow names, 1 creation, versions to 2; a good file, one with a bad second document, one that `get` writes |
| `apply` | `WritesAreAPrefix`, `RefusalsAreRaces` | 2 commands, each with a file of the same Project and the same Workflow with different specs; names reused, 3 creations, updates below version 2, 1 crash or failing write; any number of deadlines and repeated runs |
| `resync` | `ReasonIsFirstDefect`, `VerdictIsTruthful`, `TimesAreFlipTimes`, `SteadyStateIsFixpoint` | all specs with goal set or not and up to 2 phases named or not, and the nil spec; 3 edits; 4 times |
| `listing` | `Ascending`, `NothingMissed`, `NothingInvented` | 2 Projects of 2 names, every initial table, scope and selector on one label with two values; page sizes 0, 1, 2; 2 changes |
| `migrate` | `AppliedOnce`, `NoGaps`, `ReadyIsMigrated`, `EventuallyReady` | 2 processes with migrations 1..2, one older with 1..1; 2 deaths |

Why these bounds are enough to mean something: a conflict needs two writers and
a reader between them, which is two clients (or a client and the reconciler) and
versions up to 3. Every reuse hazard needs one deletion and one creation after
it, which is three creations with the Project. The status functions depend on
a pipeline only through "empty" and "some phase is unnamed", which two phases
show in both positions. A command is interesting with a document
before and one after the one that fails, and with a competitor for the same
object: two commands over two documents. A page boundary needs two rows on each side of nothing:
four keys give every position of a cursor, in and across Projects. A migration
race needs two processes at the same migration; the second migration and the older
binary show the order and the gaps.

A terminal and an API program are two actors over one table, which is what a
command that is overtaken needs; two documents, the second bad, show whether the
first was written; two Workflows are the shortest list that prints as no YAML.

`MaxUid`, `MaxVersion`, `MaxProjectVersion` and `MaxFaults` bound what *clients*
and faults do. The reconciler is never bounded, so `ConvergesWhileUp` says what happens
once the clients are quiet, and not because the reconciler ran out of versions.

Deadlock is checked in every run. The listing ends in `Finished` and the
migration in `AllReady`, which stutter on purpose; the control plane never
stops, because the reconciler can always list again.

### Fairness

`FairUpSpec` (`Lifecycle`) has weak fairness of `ReconcileList` and of handling *some*
pending item while the process is up, of each handler's second store call, and of
`runUp` going on (`CloseStore`, `AbandonStore`, `Exit`). The code justifies them: `Run`
calls `reconcileAll` at once and on every tick of a one-second ticker until shutdown, and
`reconcileAll` ranges over its whole slice whatever an item returns; a handler is a
goroutine in a store call; nothing in `runUp` blocks but `GracefulStop`, which is enabled
when the calls in flight have ended. There is no fairness for clients, streams, signals,
kills or for anybody starting the process again. A client that keeps its stream open
blocks the shutdown for ever, so `ShutdownEnds` is about a drain without streams. A
`ReconcileError` also handles an item, so faults delay convergence; that they stop (the
bound) is the assumption under which "eventually" means anything.

`Migrate!Spec` has weak fairness of each process's step. Part of a step is
`Retry`: a command that exited with an error is started again. That is an
assumption about the operator, not about the code, and `EventuallyReady` holds
only with it.

### Where the code and its documentation disagree

Four runs state what a comment or the API documentation says, and TLC refutes it. Each
trace is a few steps long.

* `stale_version`. meta.proto: "the server rejects writes carrying a stale
  value". Versions restart at 1 with every creation and the UID is not compared:
  read an object at version 1, let it be deleted and created again, send the update: it is
  accepted and overwrites an object its author has never seen. The reconciler's
  write-back is such a write too: with the same reuse between `List` and the write-back it
  restores the spec of the deleted Workflow over the new one, although reconciler.go says
  "it converges status only".
* `owning_project`. workflow.go: "The owning Project must exist". The lookup and
  the insert are separate transactions. What does hold is
  `WorkflowHadProject`: the Project exists or existed.
* `transition_times`. meta.proto: "When the status field last flipped". An update
  without a status erases the conditions, and the next resync stamps the current
  time on a condition that never changed. What does hold is `TransitionsAreFlips`:
  between two published statuses the time moves exactly with a flip.
* `selector`. service.proto gives `env!=prod` as an example of a selector; the
  code reads it as equality on a label called `env!`.

## 4. The proofs

Eight modules hold proofs. They are about any finite or infinite sets of clients, names,
specs, servers, tenants, files and processes, and any bounds, under the assumptions the
specifications name and TLC evaluates in every run:

| Assumption | Says |
|---|---|
| `SentinelAssumption`, `NoStatusAssumption` | the values for "no row", "nothing read", "no handler", "no status" are not rows, reads, handlers or statuses |
| `PipelineAssumption`, `ResyncSpecs` | the pipeline of a spec is a sequence of names |
| `CommandsAssumption`, `ManifestAssumption` (`Apply`) | commands are sessions; a file has at least one document, whose spec is of the kind of its key |
| `EmbeddedArePrefixes`, `VersionsAreFinite` (`Migrate`) | a binary embeds the migrations 1 to n for its own n; there are finitely many |
| `PublicAssumption`, `ConnectionAssumption` (`Rpc`) | an interceptor's public methods are those of the system service; a connection goes to a server |
| `TenantAssumption`, `NameAssumption`, `NilAssumption`, `ProviderAssumption`, `InitialAssumption` (`Rpc`) | the empty string names nobody; nil is no message; a static token belongs to a tenant or none; the initial table is one the migrations allow |
| `CallAssumption`, `CommandAssumption`, `TerminalAssumption` (`Cli`) | calls and command lines are of the shapes the stubs and the flags allow |
| `DocumentAssumption`, `FileAssumption`, `PromptAssumption` (`Cli`) | a file is a finite sequence of documents; an empty document, text that is no YAML, a missing file and a terminal at its prompt are none of the values they are told apart from |
| `ProjectNumbers`, `NameNumbers`, `LimitNumbers`, `LabelsAreSet`, `KnownOperators`, `NoRowIsNoLabels` (`Listing`) | keys and limits are numbers; a label that is set has a value; a selector's terms are `=` or `!=` |

| Theorem | Says |
|---|---|
| `TypeCorrect` | `Spec => []TypeOK` |
| `CopiesInvariant` | `Spec => []CopiesInv`, the inductive invariant |
| `VersionsDetermineContent` | `Spec => []VersionDeterminesContent` |
| `NoUpdateIsLost` | `Spec => NoLostUpdate` |
| `HandlersCountEdits` | `Spec => GenerationCountsEdits` |
| `ReconcilerKeepsDesiredState` | `Spec => ReconcilerKeepsListedLife` |
| `WorkflowsHadProjects` | `Spec => []WorkflowHadProject` |
| `CommandsAreTyped` | `ApplySpec => []ApplyInv`, the types and where a command can have a handler in flight |
| `ApplyIsASession` | `ApplySpec => Spec` |
| `ApplyLosesNoUpdate` | `ApplySpec => NoLostUpdate` |
| `CommandsWriteAPrefix` | `ApplySpec => []WritesAreAPrefix` |
| `CommandsAreRefusedByRaces` | `ApplySpec => []RefusalsAreRaces` |
| `UpTypeCorrect` | `UpSpec => []UpTypeOK` |
| `UpIsAControlPlane` | `UpSpec => ImplementsControlPlane` |
| `UpLosesNoUpdate` | `UpSpec => NoLostUpdate` |
| `ShutdownCutsNobodyOff` | `UpSpec => SignalCutsNobodyOff` |
| `ReadyIsNeverFalse` | without reuse of names: `Spec => []NoFalseReady` |
| `GenerationIsTheEditCount` | without reuse of names: `Spec => GenerationTracksSpec` |
| `SteadyStateIsLeftAlone` | without reuse of names: `Spec => NoChurn` |
| `TransitionTimesAreFlips` | without reuse of names: `Spec => TransitionsAreFlips` |
| `ControlPlaneIsDesiredState` | without reuse of names: `Spec => ImplementsDesiredState` |
| `VerdictsAreTruthful` | `Resync`: `Spec => []VerdictIsTruthful` |
| `ReasonsAreFirstDefects` | `Resync`: `Spec => []ReasonIsFirstDefect` |
| `TimesAreThoseOfFlips` | `Resync`: `Spec => []TimesAreFlipTimes` |
| `ResyncsSettle` | `Resync`: `Spec => []SteadyStateIsFixpoint` |
| `MigrationsAreAppliedOnce` | `Migrate`: `Spec => []AppliedOnce` |
| `SchemaHasNoGaps` | `Migrate`: `Spec => []NoGaps` |
| `ReadyStoresAreMigrated` | `Migrate`: `Spec => []ReadyIsMigrated` |
| `AnswersStayInTheirTenant` | `CliSpec => []AnswersShowOwnTenant` |
| `CallsStayInTheirTenant` | `CliSpec => OwnTenantOnly` |
| `TablesAreTyped` | `CliSpec => []RpcTypeOK` |
| `WritesComeFromTheFile` | `CliSpec => []WritesFollowTheFile` |
| `PrintedObjectsRoundTrip` | `CliSpec => []OutputRoundTrips` |
| `SuccessMeansApplied` | `CliSpec => ExitZeroMeansApplied` |
| `ListingsAscend` | `Listing`: `Spec => []Ascending` |
| `ListingsInventNothing` | `Listing`: `Spec => []NothingInvented` |
| `ListingsMissNothing` | `Listing`, when clients use `=` only: `Spec => []NothingMissed` |
| `PlainListingsMissNothing` | `Listing`, whatever others use, for a listing whose own selector uses `=` only |
| `PlainSelectorAsDocumented` | `Listing`: a selector of `=` terms on a table at rest returns what service.proto says |

The argument. `VersionDeterminesContent` alone is not inductive: a copy of a
*deleted* row says nothing about the present, but a later creation must not be
able to bring its UID back; and an update commits what a handler prepared
earlier. `CopiesInv` therefore adds to `TypeOK`

* `UidsGiven`: every row's UID has been drawn (it is below `nextUid`),
* `HeldPast` and `SnapPast`: every copy in a client's hands or in the snapshot
  has a drawn UID and, if the row of its key is in the same life, a version no
  greater than the row's, and is the row when the versions are equal,
* `CallQuotesHeld`: a handler in flight quotes the key and version of what its
  client holds, and its generation is the one for the spec it carries if the
  version is still the row's.

Its step case has one lemma per way the table changes (`CreateSteps`,
`UpdateSteps`, `DeleteSteps`): a creation draws a UID no copy has; an update
moves the version past every copy in that life; a deletion leaves nothing to
compare. `CopiesAge` says that copies only age; `HeldSource`, `SnapSource` and
`CallSource` say where a copy can come from. The three action properties follow:
`WriterIsTheHandler` and `WriterIsTheReconciler` find the action behind a
change of the table, and the invariant turns its equal version into equal
content.

`WorkflowsHadProjects` has an invariant of its own, `CreatesHadProject`: the Project
a create in flight has found is there or deleted (`DeletionsAreRetired`: rows leave
by deletion only), and a Workflow enters the table by such a create only
(`WorkflowsAreCommitted`).

In `ApplyProofs`, `CommandIsASession` shows that a step of a command is a step of a
session: `ControlInv` supplies that what the command holds is the object of its
document, and `ManifestAssumption` that the spec it sends fits the kind. With it
`StepIsNext` is the refinement step, and the theorems about `Spec` carry over.
`OthersActOnOne` reduces every step to what one command sees of it: its own step,
or `OthersAct`, which leaves its program and its call alone (a crash ends the call) and
records in `excuse` any change of what it watches. `WritesAreAPrefix` needs
`WrittenInv`, which knows that a command that gave up with no handler left may or
may not have written its document, and with one left has not yet; `RefusalsAreRaces`
needs `UndisturbedInv`: while there is no excuse, an object not found is still
missing (and its Project still there), and an object found is still the row, so that the
compare-and-swap will match.

*Without reuse of names.* The theorems of the second half of `ControlPlaneProofs` assume `ReuseNames = FALSE`; all
others hold with and without reuse. `OneLifeInv` adds to `CopiesInv` that a name is never
both present and retired, that every copy is of the life its row is in or of one that is
over for ever (`CopiesOfOneLife`), what a handler in flight carries (`CallsCarryEdits`:
a spec clients send, and the status its client was shown or none), and that every row is
`Fresh`: its status was computed for its generation or an earlier one, is the verdict on
its spec if for its own, and is dated by writes that have happened. With it a copy whose
version matches *is* the row (`MatchingCopyIsRow`), which turns the two-step handlers and the
reconciler's write-back into steps on the current row: `TableSteps` says that each step
inserts, edits, publishes or removes one row, or leaves the table alone. The five theorems
are about those four cases, and in the last one they are `Announce`, `Edit`, `Publish` and
`Remove` of `DesiredState`. With reuse `CopiesOfOneLife` is false, and so are the theorems.

*Status functions.* `WorkflowStatusProofs` shows once that `computeWorkflowStatus` returns a
verdict (`ComputedIsVerdict`), which times it carries over (`ComputedTimes`), and that a
verdict is recomputed unchanged (`VerdictIsKept`). `ResyncInv` is the corresponding
invariant of one Workflow: the two conditions agree, are as old as the last flip, and are
the verdict once the status is of the current generation.

*Shutdown.* `UpInv` is `UpTypeOK` with `ClosedIsDrained`: a store closed by a signal has no
handler between two store calls. Each action of `Lifecycle` is then an action of
`ControlPlane`, a stutter of it, or its `Crash`.

*Migrations.* `MigrateInv` says that what is recorded, and what a process remembers of it,
are the versions 1 to some n; that a migration has had its effect once if it is recorded and
not at all otherwise; and that a process inside a transaction is at the first version its
memory misses. A commit then extends 1 to n by n + 1 exactly or finds the version recorded
by another process and rolls back.

*Tenants.* `Confined(c, T)` says of a step of caller `c` that it changes rows, answers and
handlers of tenants in `T` only. Each handler of `Rpc` is confined to the tenant it
resolves, each step of `Cli` to the tenants its connection is served in, and `HomeInv`
keeps the handlers in flight inside them until their second store call.

*Commands.* `CliInv` adds to `HomeInv`

* `TableInv`, the types with what makes them inductive: a row holds a spec of the kind of
  its key and belongs to a tenant of `tenantsTable` (an insert of any other is refused by
  the foreign key), a handler in flight carries a spec of the kind of the key it will
  write, and an answer has a code of the handlers;
* `ProcessOK`: what a process knows where it uses it. A handler is in flight only while
  `apply` waits for it; after a lookup that succeeded exactly one object is shown, of the
  kind of the document; `get` prints objects of the kind it asked for;
* `FilesInv`: a file that holds printed objects holds `encodeResource` of the one, or a
  garbled document for several;
* `ProgressOK`: what is left to do is the end of what the file asks for, and what is
  written is its beginning, up to `Stored(t)`: the documents that are finished, and the
  current one once its call was answered with OK.

`WritesFollowTheFile` alone is not inductive, because a file does not say whether the
current document has been written already; the place in the program and the answer do. The
hard case is the second store call of a handler: `SecondCallsMake` shows that if it changes
the table it writes the key and spec it was given and is answered with OK, and that it
leaves the table alone otherwise. `DocumentsOfFile` and `ResourcesOfFile` show that exactly
the documents of a file that are not empty are decoded, in the order they have in it, `EncodedDecodes` that what `encodeResource` writes
decodes. The file and the program stay what they were when a deadline ends the command: its
handler may still write, which is then no step of the command, so `written` is about
commands that run.

*Listings.* `ListingInv` relates the pages to the cursor: everything returned is at or
before it (`CursorInv`), everything wanted all along and not returned yet is after it
(`AheadInv`), and the history variables are what they say. `OrderByEnumerates` is the lemma
about `ORDER BY`: a finite set of keys becomes a strictly ascending sequence of all its
members. `ListingsAscend` and `ListingsInventNothing` hold for every selector;
`NothingMissed` is false once a selector says `!=`, for the reason `selector` shows, and is
therefore a theorem about selectors of equalities.

With these, every invariant and action property of the passing runs is a theorem.
Only model-checked are the liveness properties (`ShutdownEnds`, `ConvergesWhileUp`,
`EventuallyReady`), which rest on fairness and ENABLED, out of the prover's reach; and the
four refuted statements, which a trace refutes.

## 5. What is not modelled

* The wire format of the generated code: `Messages` has the messages and their nil-safe
  getters, `Rpc` the stubs and the dispatch; marshalling, descriptors and reflection have
  no behaviour of their own.
* The wording and layout of tables, JSON and errors; the parsing of flags and of the
  configuration file, which decide which connection a command line stands for
  (`CommandLines`) and nothing later.
* YAML itself: `disk` has a file as the documents a decoder finds in it.
* Finalizers and `deletion_timestamp`: described by the API, never read by the code, so
  that there is no behaviour to state a property of.
* Data corruption (a blob that does not unmarshal), a full disk, TLS.
* SDK and web: stubs without state.

## 6. Plan

Done, in this order: `WorkflowStatus`, `Store`, `ControlPlane`, `DesiredState`,
`ControlPlaneProofs`, `Resync`, `Listing`, `Migrate`, `Apply`, `ApplyProofs`, `Lifecycle`,
`LifecycleProofs`, `Messages`, `Auth`, `Rpc`, `Cli`, `MigrateProofs`, `CliProofs`,
`WorkflowStatusProofs`, `ResyncProofs`, `ListingProofs`, and the theorems without reuse of
names in `ControlPlaneProofs`.

To do, most important first:

1. A liveness run with two Workflows of which one keeps failing ("one bad object
   cannot stall the loop").
2. Listing with empty label values and negative limits.
3. A theorem that the calls of `Rpc` under one tenant are the sessions of `ControlPlane`,
   which are now connected by sharing `Store` only.
4. A finalizer-aware deletion as an abstract specification, once the code reads finalizers.
