---------------------------- MODULE ControlPlane -----------------------------
(***************************************************************************)
(* "kestrai up": the gRPC handlers of internal/server and the status       *)
(* reconciler of internal/reconciler, over one Store.                      *)
(*                                                                         *)
(* The handlers run concurrently, one goroutine per RPC, and lock nothing: *)
(* between two store calls of a handler any other call may be served.      *)
(* CreateWorkflow and the two Update handlers make two store calls, so     *)
(* they are two steps: the first fills call[s], the second commits or is   *)
(* refused.  The other handlers make one store call and are one step.      *)
(*                                                                         *)
(* A session is a client that reads an object, edits it and sends it back: *)
(* held[s] is the last object it was shown, with the resource_version it   *)
(* will quote.  A handler left running by a client that gave up is the     *)
(* call of another session.  The reconciler works through snap, the rows   *)
(* its last List returned, one item at a time.                             *)
(***************************************************************************)
EXTENDS Store, WorkflowStatus

CONSTANTS
    Sessions,       \* API clients
    Projects,       \* names of Projects
    Names,          \* names of Workflows within a Project
    ProjectSpecs,   \* the ProjectSpecs clients send
    WorkflowSpecs,  \* the WorkflowSpecs clients send
    NoRead,         \* a session that was shown nothing yet
    NoCall,         \* a session with no handler in flight
    ReuseNames,     \* may clients create a name again after its deletion?
    MaxUid,         \* bound: number of Creates
    MaxVersion,     \* bound: clients update Workflows below this version only
    MaxProjectVersion,  \* the same bound for Projects
    MaxFaults       \* bound: crashes and failing store writes

ProjectKey(p) == [kind |-> "Project", project |-> "", name |-> p]
WorkflowKey(p, n) == [kind |-> "Workflow", project |-> p, name |-> n]

ProjectKeys == {ProjectKey(p) : p \in Projects}
WorkflowKeys == {WorkflowKey(p, n) : p \in Projects, n \in Names}
Keys == ProjectKeys \union WorkflowKeys

VARIABLES
    held,       \* held[s]: the key and row session s was last shown, or NoRead
    call,       \* call[s]: the handler in flight for s between its store calls
    snap,       \* snap[w]: the row the reconciler listed for w and has not handled
    faults      \* number of faults so far

serverVars == <<call, snap>>
vars == <<rows, nextUid, retired, held, call, snap, faults>>

Specs == ProjectSpecs \union WorkflowSpecs \union {NoSpec}
Statuses == Status \union {NoStatus}

Row == [uid : Nat, rv : Nat \ {0}, gen : Nat \ {0}, spec : Specs, status : Statuses]
Held == [key : Keys, row : Row]
Call == [op : {"create", "update"}, key : Keys, rv : Nat, gen : Nat \ {0},
         spec : Specs, status : Statuses]

ASSUME SentinelAssumption == NoRow \notin Row /\ NoRead \notin Held /\ NoCall \notin Call
ASSUME PipelineAssumption ==
    \A spec \in WorkflowSpecs : spec # NoSpec => spec.pipeline \in Seq(STRING)
ASSUME ReuseAssumption == ReuseNames \in BOOLEAN
ASSUME BoundsAssumption == MaxUid \in Nat /\ MaxVersion \in Nat
                            /\ MaxProjectVersion \in Nat /\ MaxFaults \in Nat

Nothing == [w \in WorkflowKeys |-> NoRow]

Init ==
    /\ rows = [k \in Keys |-> NoRow]
    /\ nextUid = 1
    /\ retired = {}
    /\ held = [s \in Sessions |-> NoRead]
    /\ call = [s \in Sessions |-> NoCall]
    /\ snap = Nothing
    /\ faults = 0

-----------------------------------------------------------------------------
(* Handlers with one store call. *)

Idle(s) == call[s] = NoCall

(* The answer of a successful write reaches the client, or is lost: the    *)
(* client then knows no more than before, though the write happened.       *)
Reply(s, k) ==
    \/ held' = [held EXCEPT ![s] = [key |-> k, row |-> rows'[k]]]
    \/ UNCHANGED held

(* The client is shown an object; a NotFound answer changes nothing. *)
Get(s, k) ==
    /\ Idle(s)
    /\ Present(k)
    /\ held' = [held EXCEPT ![s] = [key |-> k, row |-> rows[k]]]
    /\ UNCHANGED <<storeVars, serverVars, faults>>

GetProject(s, p) == Get(s, ProjectKey(p))
GetWorkflow(s, w) == Get(s, w)

MayCreate(k) == nextUid <= MaxUid /\ (ReuseNames \/ k \notin retired)

CreateProject(s, p, spec) ==
    /\ Idle(s)
    /\ MayCreate(ProjectKey(p))
    /\ Create(ProjectKey(p), 1, spec, NoStatus)
    /\ Reply(s, ProjectKey(p))
    /\ UNCHANGED <<serverVars, faults>>

(* A deletion: whoever asks, whatever depends on the object. *)
DeleteResource(k) ==
    /\ Delete(k)
    /\ UNCHANGED <<held, serverVars, faults>>

DeleteProject(p) == DeleteResource(ProjectKey(p))
DeleteWorkflow(w) == DeleteResource(w)

-----------------------------------------------------------------------------
(* Handlers with two store calls: the first half. *)

(* Mutant: the owning Project is not looked up. *)
CreateWorkflow_AnyProject(s, w, spec) ==
    /\ Idle(s)
    /\ MayCreate(w)
    /\ call' = [call EXCEPT ![s] = [op |-> "create", key |-> w, rv |-> 0, gen |-> 1,
                                    spec |-> spec, status |-> NoStatus]]
    /\ UNCHANGED <<storeVars, held, snap, faults>>

(* CreateWorkflow looks the owning Project up, then stamps generation 1    *)
(* and drops any status the client sent.                                   *)
CreateWorkflow(s, w, spec) ==
    /\ Idle(s)
    /\ MayCreate(w)
    /\ Present(ProjectKey(w.project))
    /\ call' = [call EXCEPT ![s] = [op |-> "create", key |-> w, rv |-> 0, gen |-> 1,
                                    spec |-> spec, status |-> NoStatus]]
    /\ UNCHANGED <<storeVars, held, snap, faults>>

(* Mutant: every update bumps the generation. *)
NextGeneration_EveryWrite(current, spec) == current.gen + 1

(* Mutant: a spec change does not bump the generation. *)
NextGeneration_Never(current, spec) == current.gen

(* The generation an update is stamped with: one more than the current     *)
(* row's when the spec it carries differs.                                 *)
NextGeneration(current, spec) ==
    IF spec = current.spec THEN current.gen ELSE current.gen + 1

(* UpdateProject and UpdateWorkflow read the current row for its           *)
(* generation and spec.  The resource_version compared later is the one    *)
(* the client sent, and the status written is the one the client sent:     *)
(* the one it was shown, or none when it sends a manifest without status.  *)
MayUpdate(k, rv) ==
    rv < IF k \in ProjectKeys THEN MaxProjectVersion ELSE MaxVersion

UpdateResource(s, spec, status) ==
    /\ Idle(s)
    /\ held[s] # NoRead
    /\ LET k == held[s].key
       IN  /\ Present(k)
           /\ MayUpdate(k, held[s].row.rv)
           /\ call' = [call EXCEPT ![s] =
                         [op |-> "update", key |-> k, rv |-> held[s].row.rv,
                          gen |-> NextGeneration(rows[k], spec),
                          spec |-> spec, status |-> status]]
    /\ UNCHANGED <<storeVars, held, snap, faults>>

UpdateProject(s, spec) ==
    /\ held[s] # NoRead
    /\ held[s].key \in ProjectKeys
    /\ UpdateResource(s, spec, NoStatus)

UpdateWorkflow(s, spec) ==
    /\ held[s] # NoRead
    /\ held[s].key \in WorkflowKeys
    /\ \E status \in {NoStatus, held[s].row.status} : UpdateResource(s, spec, status)

-----------------------------------------------------------------------------
(* Handlers with two store calls: the second half. *)

InFlight(s, op) == ~Idle(s) /\ call[s].op = op

Finish(s) == call' = [call EXCEPT ![s] = NoCall]

CommitCreate(s) ==
    /\ InFlight(s, "create")
    /\ MayCreate(call[s].key)
    /\ Create(call[s].key, call[s].gen, call[s].spec, call[s].status)
    /\ Reply(s, call[s].key)
    /\ Finish(s)
    /\ UNCHANGED <<snap, faults>>

CommitUpdate(s) ==
    /\ InFlight(s, "update")
    /\ Update(call[s].key, call[s].rv, call[s].gen, call[s].spec, call[s].status)
    /\ Reply(s, call[s].key)
    /\ Finish(s)
    /\ UNCHANGED <<snap, faults>>

(* ErrAlreadyExists, ErrNotFound and ErrConflict. *)
Refuse(s) ==
    /\ \/ InFlight(s, "create") /\ Present(call[s].key)
       \/ InFlight(s, "update") /\ ~VersionMatches(call[s].key, call[s].rv)
    /\ Finish(s)
    /\ UNCHANGED <<storeVars, held, snap, faults>>

(* The caller's deadline or its disconnect cancels the handler's context   *)
(* before the second store call.                                           *)
Cancel(s) ==
    /\ ~Idle(s)
    /\ Finish(s)
    /\ UNCHANGED <<storeVars, held, snap, faults>>

-----------------------------------------------------------------------------
(* The reconciler. *)

(* reconcileAll starts: List returns a copy of every Workflow row. *)
ReconcileList ==
    /\ snap = Nothing
    /\ snap' = [w \in WorkflowKeys |-> rows[w]]
    /\ UNCHANGED <<storeVars, held, call, faults>>

(* Mutant: a Workflow that has a status is taken for converged. *)
DesiredStatus_OnceOnly(rec) ==
    IF rec.status # NoStatus THEN rec.status
    ELSE computeWorkflowStatus(rec.spec, rec.status, rec.gen, rec.rv + 1)

(* The status reconcileWorkflow wants for a listed row.  Within a row's    *)
(* life its versions order its writes in time, so the version a write      *)
(* produces stands for the time it is made at.                             *)
DesiredStatus(rec) == computeWorkflowStatus(rec.spec, rec.status, rec.gen, rec.rv + 1)

Pending(w) == snap[w] # NoRow

Handled(w) == snap' = [snap EXCEPT ![w] = NoRow]

ReconcileSkip(w) ==
    /\ Pending(w)
    /\ snap[w].status = DesiredStatus(snap[w])
    /\ Handled(w)
    /\ UNCHANGED <<storeVars, held, call, faults>>

(* Mutant: instead of giving up on a conflict, the status computed from    *)
(* the listed spec is stamped with the current generation and written.     *)
ReconcileWrite_Rebase(w) ==
    /\ Pending(w)
    /\ snap[w].status # DesiredStatus(snap[w])
    /\ Present(w)
    /\ Update(w, rows[w].rv, rows[w].gen, rows[w].spec,
              DesiredStatus([snap[w] EXCEPT !.gen = rows[w].gen]))
    /\ Handled(w)
    /\ UNCHANGED <<held, call, faults>>

(* The whole listed record goes back with the new status in it: spec,      *)
(* generation and version are those of the copy.                           *)
ReconcileWrite(w) ==
    /\ Pending(w)
    /\ snap[w].status # DesiredStatus(snap[w])
    /\ Update(w, snap[w].rv, snap[w].gen, snap[w].spec, DesiredStatus(snap[w]))
    /\ Handled(w)
    /\ UNCHANGED <<held, call, faults>>

(* ErrConflict and ErrNotFound: left to the next pass. *)
ReconcileRaced(w) ==
    /\ Pending(w)
    /\ snap[w].status # DesiredStatus(snap[w])
    /\ ~VersionMatches(w, snap[w].rv)
    /\ Handled(w)
    /\ UNCHANGED <<storeVars, held, call, faults>>

ReconcileItem(w) == ReconcileSkip(w) \/ ReconcileWrite(w) \/ ReconcileRaced(w)

-----------------------------------------------------------------------------
(* Faults. *)

(* A store write of the reconciler fails: logged and swallowed. *)
ReconcileError(w) ==
    /\ faults < MaxFaults
    /\ Pending(w)
    /\ snap[w].status # DesiredStatus(snap[w])
    /\ Handled(w)
    /\ faults' = faults + 1
    /\ UNCHANGED <<storeVars, held, call>>

(* The process dies and is started again: the table survives, the handlers *)
(* and the reconciler's snapshot do not, clients keep what they were shown. *)
Crash ==
    /\ faults < MaxFaults
    /\ call' = [s \in Sessions |-> NoCall]
    /\ snap' = Nothing
    /\ faults' = faults + 1
    /\ UNCHANGED <<storeVars, held>>

-----------------------------------------------------------------------------
ProjectStep(s) ==
    \/ \E p \in Projects : GetProject(s, p)
    \/ \E p \in Projects, spec \in ProjectSpecs : CreateProject(s, p, spec)
    \/ \E spec \in ProjectSpecs : UpdateProject(s, spec)

WorkflowStep(s) ==
    \/ \E w \in WorkflowKeys : GetWorkflow(s, w)
    \/ \E w \in WorkflowKeys, spec \in WorkflowSpecs : CreateWorkflow(s, w, spec)
    \/ \E spec \in WorkflowSpecs : UpdateWorkflow(s, spec)

SessionStep(s) ==
    \/ ProjectStep(s)
    \/ WorkflowStep(s)
    \/ CommitCreate(s)
    \/ CommitUpdate(s)
    \/ Refuse(s)
    \/ Cancel(s)

DeleteStep ==
    \/ \E p \in Projects : DeleteProject(p)
    \/ \E w \in WorkflowKeys : DeleteWorkflow(w)

ReconcilerStep ==
    \/ ReconcileList
    \/ \E w \in WorkflowKeys : ReconcileItem(w) \/ ReconcileError(w)

Next ==
    \/ \E s \in Sessions : SessionStep(s)
    \/ DeleteStep
    \/ ReconcilerStep
    \/ Crash

Spec == Init /\ [][Next]_vars

-----------------------------------------------------------------------------
(* Properties. *)

(* The variables hold what the code's types and constructors allow. *)
TypeOK ==
    /\ rows \in [Keys -> Row \union {NoRow}]
    /\ nextUid \in Nat \ {0}
    /\ retired \subseteq Keys
    /\ held \in [Sessions -> Held \union {NoRead}]
    /\ call \in [Sessions -> Call \union {NoCall}]
    /\ snap \in [WorkflowKeys -> Row \union {NoRow}]
    /\ faults \in Nat

(* The copies of rows that live outside the table: what clients were shown *)
(* and what the reconciler listed.                                         *)
Copies(k) ==
    {held[s].row : s \in {t \in Sessions : held[t] # NoRead /\ held[t].key = k}}
      \union {snap[w] : w \in {v \in WorkflowKeys : v = k /\ Pending(v)}}

(* Optimistic concurrency rests on this: within one life of a row, a       *)
(* resource_version names one content for ever, so that a copy with the    *)
(* row's version IS the row (store.Update compares the version only).      *)
VersionDeterminesContent ==
    \A k \in Keys : \A c \in Copies(k) :
        Present(k) /\ c.uid = rows[k].uid =>
            /\ c.rv <= rows[k].rv
            /\ c.rv = rows[k].rv => c = rows[k]

SameLife(k) == Present(k) /\ rows'[k] # NoRow /\ rows'[k].uid = rows[k].uid

(* A handler's Update, if the row is still the life of the object the      *)
(* client was shown, replaces exactly what the client was shown: no write  *)
(* of another client or of the reconciler is lost under it.                *)
WritesOver(s, k) ==
    /\ InFlight(s, "update")
    /\ call[s].key = k
    /\ call'[s] = NoCall
    /\ SameLife(k)
    /\ rows'[k] # rows[k]

NoLostUpdate ==
    [][\A s \in Sessions, k \in Keys :
         WritesOver(s, k) /\ held[s].row.uid = rows[k].uid => held[s].row = rows[k]]_vars

(* The generation counts the spec changes of an object, although a handler *)
(* computes it from a row it read before its write (meta.proto:            *)
(* "Bumps on every spec change.  Status writes do not bump it").           *)
GenerationStep(k) ==
    rows'[k].gen = rows[k].gen + (IF rows'[k].spec = rows[k].spec THEN 0 ELSE 1)

GenerationCountsEdits ==
    [][\A s \in Sessions, k \in Keys :
         WritesOver(s, k) /\ held[s].row.uid = rows[k].uid => GenerationStep(k)]_vars

(* The reconciler writes back the whole record it listed; as long as the   *)
(* row is in the life it listed, that leaves the spec and the generation   *)
(* alone ("it converges status only").                                     *)
ReconcilerWrites(w) ==
    /\ Pending(w)
    /\ snap'[w] = NoRow
    /\ SameLife(w)
    /\ rows'[w] # rows[w]

StatusOnly(w) == rows'[w].spec = rows[w].spec /\ rows'[w].gen = rows[w].gen

ReconcilerKeepsListedLife ==
    [][\A w \in WorkflowKeys :
         ReconcilerWrites(w) /\ snap[w].uid = rows[w].uid => StatusOnly(w)]_vars

(* A Workflow has or had an owning Project: the check of CreateWorkflow    *)
(* and its insert are separate steps, so this is what is left of it.       *)
WorkflowHadProject ==
    \A w \in WorkflowKeys :
        Present(w) => Present(ProjectKey(w.project)) \/ ProjectKey(w.project) \in retired

-----------------------------------------------------------------------------
(* Properties that need clients not to reuse names (ReuseNames = FALSE). *)

(* A published status whose observedGeneration is the row's generation     *)
(* tells the truth about the row's spec, and none is ahead of it: what     *)
(* "kestrai get" shows as Ready is never the verdict on another spec.      *)
NoFalseReady ==
    \A w \in WorkflowKeys :
        Present(w) /\ rows[w].status # NoStatus =>
            /\ rows[w].status.observedGeneration <= rows[w].gen
            /\ rows[w].status.observedGeneration = rows[w].gen =>
                 Truthful(rows[w].status, rows[w].spec, rows[w].gen)

(* Every change of a stored Workflow's generation is a change of its spec, *)
(* whoever wrote, and no spec changes without one.                         *)
GenerationTracksSpec ==
    [][\A w \in WorkflowKeys : SameLife(w) => GenerationStep(w)]_vars

(* The reconciler never rewrites a row whose status is already truthful:   *)
(* "a steady state produces no store churn".                               *)
NoChurn ==
    [][\A w \in WorkflowKeys :
         ReconcilerWrites(w) => ~Truthful(rows[w].status, rows[w].spec, rows[w].gen)]_vars

(* A transition time moves only with its condition or after the status was *)
(* withdrawn: "transition times reflect real flips".                       *)
TransitionsAreFlips ==
    [][\A w \in WorkflowKeys : \A type \in {"Validated", "Ready"} :
         SameLife(w) /\ rows[w].status # NoStatus /\ rows'[w].status # NoStatus =>
           LET old == rows[w].status[type]
               new == rows'[w].status[type]
           IN  (new.at = old.at) <=> (new.status = old.status)]_vars

(* The abstract specification, with the versions, the sessions and the     *)
(* snapshots forgotten.                                                    *)
objOf ==
    [w \in WorkflowKeys |->
        IF Present(w) THEN
            [phase |-> "live", gen |-> rows[w].gen, spec |-> rows[w].spec,
             verdict |-> IF rows[w].status = NoStatus THEN [published |-> FALSE]
                         ELSE [published |-> TRUE,
                               gen |-> rows[w].status.observedGeneration,
                               ready |-> rows[w].status.Ready.status]]
        ELSE [phase |-> IF w \in retired THEN "gone" ELSE "absent"]]

Desired == INSTANCE DesiredState WITH obj <- objOf

(* Through the versions, the snapshots and the lost answers, every         *)
(* Workflow behaves as if each operation were atomic.                      *)
ImplementsDesiredState == Desired!DSSpec

-----------------------------------------------------------------------------
(* What the documentation says of the program and the code does not do.    *)

(* meta.proto: "The server rejects writes carrying a stale value": no      *)
(* update commits over a row its client was not shown.                     *)
StaleVersionRejected ==
    [][\A s \in Sessions, k \in Keys : WritesOver(s, k) => held[s].row = rows[k]]_vars

(* workflow.go: "The owning Project must exist": a Workflow is inserted    *)
(* only while its Project is there.                                        *)
OwningProjectExists ==
    [][\A w \in WorkflowKeys :
         ~Present(w) /\ rows'[w] # NoRow => Present(ProjectKey(w.project))]_vars

(* meta.proto: last_transition_time is "When the status field last         *)
(* flipped": two truthful statuses of one generation, hence of one spec,   *)
(* agree on it.                                                            *)
Converged(w) == Truthful(rows[w].status, rows[w].spec, rows[w].gen)

TransitionTimesReflectFlips ==
    \A w \in WorkflowKeys : \A c \in Copies(w) :
        /\ Present(w) /\ c.uid = rows[w].uid /\ c.gen = rows[w].gen
        /\ Truthful(c.status, c.spec, c.gen)
        /\ Converged(w)
        => \A type \in {"Validated", "Ready"} : c.status[type].at = rows[w].status[type].at
=============================================================================
