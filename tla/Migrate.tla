------------------------------- MODULE Migrate -------------------------------
(***************************************************************************)
(* store.Open on one SQLite file by several processes: internal/store/     *)
(* migrate.go.  A process reads which migrations are recorded, then runs   *)
(* each missing one, with its record, in a transaction of its own; it may  *)
(* die anywhere, and another process (a second "kestrai up", or an older   *)
(* or newer binary) may be doing the same.                                 *)
(*                                                                         *)
(* A migration is its version number; running its SQL marks the schema.    *)
(* SQLite gives one process at a time the write lock, from the first write *)
(* of its transaction to the commit or rollback (external: SQLite).        *)
(***************************************************************************)
EXTENDS Naturals, FiniteSets

CONSTANTS
    Processes,      \* processes opening the file
    Embedded,       \* Embedded[p]: the versions of the migrations in p's binary
    NoProcess,      \* nobody holds the write lock
    MaxCrashes      \* bound: deaths of a process

Versions == UNION {Embedded[p] : p \in Processes}

(* Migrations are append-only: a binary embeds a first part of them all.   *)
ASSUME EmbeddedArePrefixes ==
    \A p \in Processes : Embedded[p] = 1 .. Cardinality(Embedded[p])

ASSUME VersionsAreFinite == IsFiniteSet(Versions)

VARIABLES
    recorded,       \* the versions committed in schema_migrations
    effects,        \* effects[v]: how often the SQL of v has been committed
    pc,             \* where in Open each process is
    known,          \* known[p]: the versions p read as applied
    next,           \* next[p]: the migration whose transaction p is in
    lock,           \* the process with an open write transaction
    crashes

vars == <<recorded, effects, pc, known, next, lock, crashes>>

Init ==
    /\ recorded = {}
    /\ effects = [v \in Versions |-> 0]
    /\ pc = [p \in Processes |-> "down"]
    /\ known = [p \in Processes |-> {}]
    /\ next = [p \in Processes |-> 0]
    /\ lock = NoProcess
    /\ crashes = 0

Goto(p, label) == pc' = [pc EXCEPT ![p] = label]

(* Mutant: what is recorded is not looked at. *)
ReadApplied_Blind(p) ==
    /\ pc[p] = "down"
    /\ known' = [known EXCEPT ![p] = {}]
    /\ Goto(p, "loop")
    /\ UNCHANGED <<recorded, effects, next, lock, crashes>>

(* CREATE TABLE IF NOT EXISTS schema_migrations and appliedVersions: one   *)
(* read, outside the transactions of the loop that uses it.                *)
ReadApplied(p) ==
    /\ pc[p] = "down"
    /\ known' = [known EXCEPT ![p] = recorded]
    /\ Goto(p, "loop")
    /\ UNCHANGED <<recorded, effects, next, lock, crashes>>

Missing(p) == Embedded[p] \ known[p]

(* Mutant: the directory is walked from its end. *)
NextMissing_Newest(p) == CHOOSE v \in Missing(p) : \A u \in Missing(p) : u <= v

(* loadMigrations sorts by version. *)
NextMissing(p) == CHOOSE v \in Missing(p) : \A u \in Missing(p) : v <= u

(* Mutant: the SQL is committed before its record is written. *)
RunSQL_OwnTransaction(p) ==
    /\ pc[p] = "loop"
    /\ Missing(p) # {}
    /\ lock = NoProcess
    /\ effects' = [effects EXCEPT ![NextMissing(p)] = @ + 1]
    /\ next' = [next EXCEPT ![p] = NextMissing(p)]
    /\ Goto(p, "record")
    /\ UNCHANGED <<recorded, known, lock, crashes>>

(* BeginTx and the migration's SQL, which takes the write lock. *)
RunSQL(p) ==
    /\ pc[p] = "loop"
    /\ Missing(p) # {}
    /\ lock = NoProcess
    /\ lock' = p
    /\ next' = [next EXCEPT ![p] = NextMissing(p)]
    /\ Goto(p, "record")
    /\ UNCHANGED <<recorded, effects, known, crashes>>

(* The INSERT into schema_migrations and the commit, which publishes the   *)
(* SQL's effect and the record together.                                   *)
Commit(p) ==
    /\ pc[p] = "record"
    /\ next[p] \notin recorded
    /\ recorded' = recorded \union {next[p]}
    /\ effects' = [effects EXCEPT ![next[p]] = @ + 1]
    /\ known' = [known EXCEPT ![p] = @ \union {next[p]}]
    /\ lock' = NoProcess
    /\ Goto(p, "loop")
    /\ UNCHANGED <<next, crashes>>

(* Another process recorded it since this one looked: the SQL fails on     *)
(* what is there, or the INSERT on the primary key.  The transaction is    *)
(* rolled back and Open returns the error.                                 *)
Rollback(p) ==
    /\ pc[p] = "record"
    /\ next[p] \in recorded
    /\ lock' = NoProcess
    /\ Goto(p, "failed")
    /\ UNCHANGED <<recorded, effects, known, next, crashes>>

(* Mutant: a busy database is taken for a migration already applied. *)
LockTimeout_Ignored(p) ==
    /\ pc[p] = "loop"
    /\ Missing(p) # {}
    /\ lock # NoProcess
    /\ known' = [known EXCEPT ![p] = @ \union {NextMissing(p)}]
    /\ UNCHANGED <<recorded, effects, pc, next, lock, crashes>>

(* busy_timeout passes while another process holds the lock. *)
LockTimeout(p) ==
    /\ pc[p] = "loop"
    /\ Missing(p) # {}
    /\ lock # NoProcess
    /\ Goto(p, "failed")
    /\ UNCHANGED <<recorded, effects, known, next, lock, crashes>>

(* Nothing is missing: Open returns the store. *)
OpenDone(p) ==
    /\ pc[p] = "loop"
    /\ Missing(p) = {}
    /\ Goto(p, "ready")
    /\ UNCHANGED <<recorded, effects, known, next, lock, crashes>>

(* The command exited with Open's error and is started again. *)
Retry(p) ==
    /\ pc[p] = "failed"
    /\ Goto(p, "down")
    /\ UNCHANGED <<recorded, effects, known, next, lock, crashes>>

(* The process dies; SQLite drops its uncommitted transaction. *)
Die(p) ==
    /\ crashes < MaxCrashes
    /\ pc[p] # "down"
    /\ crashes' = crashes + 1
    /\ lock' = IF lock = p THEN NoProcess ELSE lock
    /\ Goto(p, "down")
    /\ UNCHANGED <<recorded, effects, known, next>>

Step(p) ==
    \/ ReadApplied(p) \/ RunSQL(p) \/ Commit(p) \/ Rollback(p)
    \/ LockTimeout(p) \/ OpenDone(p) \/ Retry(p)

(* Every process serves. *)
AllReady == (\A p \in Processes : pc[p] = "ready") /\ UNCHANGED vars

Next == (\E p \in Processes : Step(p) \/ Die(p)) \/ AllReady

(* A process that can go on goes on, and one that failed is started again. *)
Spec == Init /\ [][Next]_vars /\ \A p \in Processes : WF_vars(Step(p))

-----------------------------------------------------------------------------
(* Properties. *)

(* No migration takes effect twice, whoever raced or died: what "re-running *)
(* it is a no-op" needs beyond a single process.                           *)
AppliedOnce == \A v \in Versions : effects[v] <= 1

(* The schema is always the result of the first n migrations in order,     *)
(* although binaries of different age migrate it.                          *)
NoGaps == \E n \in 0 .. Cardinality(Versions) : {v \in Versions : effects[v] > 0} = 1 .. n

(* A process that got its store finds every migration it knows applied. *)
ReadyIsMigrated ==
    \A p \in Processes : pc[p] = "ready" => \A v \in Embedded[p] : effects[v] > 0

(* Losing a race or dying does not keep a process from ever opening the    *)
(* store, as long as it is started again.                                  *)
EventuallyReady == \A p \in Processes : <>(pc[p] = "ready")
=============================================================================
