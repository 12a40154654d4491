------------------------- MODULE ControlPlaneProofs --------------------------
(***************************************************************************)
(* Theorems about ControlPlane for any clients, names, specs and bounds,   *)
(* with and without reuse of names.                                        *)
(***************************************************************************)
EXTENDS ControlPlane, WorkflowStatusProofs, TLAPS

-----------------------------------------------------------------------------
(* Type correctness. *)

(* Rows built by a handler or by the reconciler from typed parts are rows. *)
LEMMA NewRowType ==
    ASSUME NEW uid \in Nat, NEW rv \in Nat \ {0}, NEW gen \in Nat \ {0},
           NEW spec \in Specs, NEW status \in Statuses
    PROVE  NewRow(uid, rv, gen, spec, status) \in Row
BY DEF NewRow, Row

(* The keys of the three variables indexed by Workflows are keys. *)
LEMMA WorkflowKeysAreKeys == WorkflowKeys \subseteq Keys
BY DEF Keys

LEMMA ProjectKeysAreKeys == \A p \in Projects : ProjectKey(p) \in Keys
BY DEF Keys, ProjectKeys

(* No key is of both kinds. *)
LEMMA KindsAreDisjoint == ProjectKeys \intersect WorkflowKeys = {}
<1> SUFFICES ASSUME NEW k \in ProjectKeys, k \in WorkflowKeys
             PROVE  FALSE
  OBVIOUS
<1>1. PICK p \in Projects : k = ProjectKey(p)
  BY DEF ProjectKeys
<1>2. PICK q \in Projects, n \in Names : k = WorkflowKey(q, n)
  BY DEF WorkflowKeys
<1>3. k.kind = "Project"
  BY <1>1 DEF ProjectKey
<1>4. k.kind = "Workflow"
  BY <1>2 DEF WorkflowKey
<1> QED
  BY <1>3, <1>4

(* The Project of a Workflow has a key. *)
LEMMA OwnersHaveKeys == \A w \in WorkflowKeys : ProjectKey(w.project) \in ProjectKeys
<1> SUFFICES ASSUME NEW w \in WorkflowKeys
             PROVE  ProjectKey(w.project) \in ProjectKeys
  OBVIOUS
<1>1. PICK p \in Projects, n \in Names : w = WorkflowKey(p, n)
  BY DEF WorkflowKeys
<1>2. w.project = p
  BY <1>1 DEF WorkflowKey
<1> QED
  BY <1>2 DEF ProjectKeys

(* The three store calls keep the table well typed and store a row where  *)
(* they write one.                                                        *)
LEMMA StoreTypes ==
    ASSUME TypeOK, NEW k \in Keys, NEW gen \in Nat \ {0}, NEW spec \in Specs,
           NEW status \in Statuses, NEW rv
    PROVE  /\ Create(k, gen, spec, status) =>
                /\ rows' \in [Keys -> Row \union {NoRow}]
                /\ rows'[k] \in Row
                /\ nextUid' \in Nat \ {0}
                /\ retired' \subseteq Keys
           /\ Update(k, rv, gen, spec, status) =>
                /\ rows' \in [Keys -> Row \union {NoRow}]
                /\ rows'[k] \in Row
                /\ nextUid' \in Nat \ {0}
                /\ retired' \subseteq Keys
<1>1. ASSUME Create(k, gen, spec, status)
      PROVE  /\ rows' \in [Keys -> Row \union {NoRow}]
             /\ rows'[k] \in Row
             /\ nextUid' \in Nat \ {0}
             /\ retired' \subseteq Keys
  <2>1. NewRow(nextUid, initialVersion, gen, spec, status) \in Row
    BY NewRowType DEF TypeOK, initialVersion
  <2> QED
    BY <1>1, <2>1 DEF Create, TypeOK
<1>2. ASSUME Update(k, rv, gen, spec, status)
      PROVE  /\ rows' \in [Keys -> Row \union {NoRow}]
             /\ rows'[k] \in Row
             /\ nextUid' \in Nat \ {0}
             /\ retired' \subseteq Keys
  <2>1. rows[k] \in Row
    BY <1>2 DEF Update, VersionMatches, Present, TypeOK
  <2>2. rows[k].uid \in Nat /\ rows[k].rv + 1 \in Nat \ {0}
    BY <2>1 DEF Row
  <2>3. NewRow(rows[k].uid, rows[k].rv + 1, gen, spec, status) \in Row
    BY <2>2, NewRowType
  <2> QED
    BY <1>2, <2>3 DEF Update, TypeOK
<1> QED
  BY <1>1, <1>2

(* The reply of a write, delivered or lost, keeps held well typed. *)
LEMMA ReplyType ==
    ASSUME TypeOK, NEW s \in Sessions, NEW k \in Keys, rows'[k] \in Row, Reply(s, k)
    PROVE  held' \in [Sessions -> Held \union {NoRead}]
BY DEF Reply, Held, TypeOK

(* Steps that leave the table, what clients hold or the calls alone. *)
LEMMA FinishType ==
    ASSUME TypeOK, NEW s \in Sessions, Finish(s)
    PROVE  call' \in [Sessions -> Call \union {NoCall}]
BY DEF Finish, TypeOK

LEMMA HandledType ==
    ASSUME TypeOK, NEW w \in WorkflowKeys, Handled(w)
    PROVE  snap' \in [WorkflowKeys -> Row \union {NoRow}]
BY DEF Handled, TypeOK

LEMMA DesiredStatusType ==
    ASSUME NEW rec \in Row
    PROVE  DesiredStatus(rec) \in Status
<1>1. rec.status \in Statuses /\ rec.gen \in Nat /\ rec.rv + 1 \in Nat
  BY DEF Row
<1> QED
  BY <1>1, ComputedStatusType DEF DesiredStatus, Statuses

(* Everything that is typed in a state is typed after a step. *)
LEMMA TypeStep ==
    ASSUME TypeOK, [Next]_vars
    PROVE  TypeOK'
<1> USE WorkflowKeysAreKeys
<1> USE DEF storeVars, serverVars
<1>1. ASSUME NEW s \in Sessions, NEW k \in Keys, Get(s, k)
      PROVE  TypeOK'
  BY <1>1 DEF Get, Present, TypeOK, Held
<1>2. ASSUME NEW s \in Sessions, NEW p \in Projects, NEW spec \in ProjectSpecs,
             CreateProject(s, p, spec)
      PROVE  TypeOK'
  <2>1. ProjectKey(p) \in Keys /\ spec \in Specs /\ NoStatus \in Statuses
    BY DEF Keys, ProjectKeys, Specs, Statuses
  <2>2. Create(ProjectKey(p), 1, spec, NoStatus) /\ Reply(s, ProjectKey(p))
    BY <1>2 DEF CreateProject
  <2>3. /\ rows' \in [Keys -> Row \union {NoRow}]
        /\ rows'[ProjectKey(p)] \in Row
        /\ nextUid' \in Nat \ {0}
        /\ retired' \subseteq Keys
    BY <2>1, <2>2, StoreTypes
  <2>4. held' \in [Sessions -> Held \union {NoRead}]
    BY <2>1, <2>2, <2>3, ReplyType
  <2> QED
    BY <1>2, <2>3, <2>4 DEF CreateProject, TypeOK
<1>3. ASSUME NEW s \in Sessions, NEW spec, NEW status \in Statuses, spec \in Specs,
             UpdateResource(s, spec, status)
      PROVE  TypeOK'
  <2>1. held[s] \in Held
    BY <1>3 DEF UpdateResource, TypeOK
  <2>2. held[s].key \in Keys /\ held[s].row.rv \in Nat /\ rows[held[s].key] \in Row
    BY <1>3, <2>1 DEF UpdateResource, Present, Held, Row, TypeOK
  <2>3. NextGeneration(rows[held[s].key], spec) \in Nat \ {0}
    BY <2>2 DEF NextGeneration, Row
  <2>4. [op |-> "update", key |-> held[s].key, rv |-> held[s].row.rv,
         gen |-> NextGeneration(rows[held[s].key], spec),
         spec |-> spec, status |-> status] \in Call
    BY <1>3, <2>2, <2>3 DEF Call
  <2> QED
    BY <1>3, <2>4 DEF UpdateResource, TypeOK
<1>4. ASSUME NEW s \in Sessions, NEW spec \in ProjectSpecs, UpdateProject(s, spec)
      PROVE  TypeOK'
  BY <1>3, <1>4 DEF UpdateProject, Specs, Statuses
<1>5. ASSUME NEW s \in Sessions, NEW spec \in WorkflowSpecs, UpdateWorkflow(s, spec)
      PROVE  TypeOK'
  <2>1. held[s].row.status \in Statuses
    BY <1>5 DEF UpdateWorkflow, TypeOK, Held, Row
  <2>2. PICK status \in {NoStatus, held[s].row.status} : UpdateResource(s, spec, status)
    BY <1>5 DEF UpdateWorkflow
  <2>3. status \in Statuses /\ spec \in Specs
    BY <2>1 DEF Specs, Statuses
  <2> QED
    BY <1>3, <2>2, <2>3
<1>6. ASSUME NEW s \in Sessions, NEW w \in WorkflowKeys, NEW spec \in WorkflowSpecs,
             CreateWorkflow(s, w, spec)
      PROVE  TypeOK'
  <2>1. [op |-> "create", key |-> w, rv |-> 0, gen |-> 1,
         spec |-> spec, status |-> NoStatus] \in Call
    BY DEF Call, Specs, Statuses
  <2> QED
    BY <1>6, <2>1 DEF CreateWorkflow, TypeOK
<1>7. ASSUME NEW s \in Sessions, CommitCreate(s)
      PROVE  TypeOK'
  <2>1. call[s] \in Call
    BY <1>7 DEF CommitCreate, InFlight, Idle, TypeOK
  <2>2. /\ call[s].key \in Keys /\ call[s].gen \in Nat \ {0}
        /\ call[s].spec \in Specs /\ call[s].status \in Statuses
    BY <2>1 DEF Call
  <2>3. /\ rows' \in [Keys -> Row \union {NoRow}]
        /\ rows'[call[s].key] \in Row
        /\ nextUid' \in Nat \ {0}
        /\ retired' \subseteq Keys
    BY <1>7, <2>2, StoreTypes DEF CommitCreate
  <2>4. held' \in [Sessions -> Held \union {NoRead}]
    BY <1>7, <2>2, <2>3, ReplyType DEF CommitCreate
  <2>5. call' \in [Sessions -> Call \union {NoCall}]
    BY <1>7, FinishType DEF CommitCreate
  <2> QED
    BY <1>7, <2>3, <2>4, <2>5 DEF CommitCreate, TypeOK
<1>8. ASSUME NEW s \in Sessions, CommitUpdate(s)
      PROVE  TypeOK'
  <2>1. call[s] \in Call
    BY <1>8 DEF CommitUpdate, InFlight, Idle, TypeOK
  <2>2. /\ call[s].key \in Keys /\ call[s].gen \in Nat \ {0}
        /\ call[s].spec \in Specs /\ call[s].status \in Statuses
    BY <2>1 DEF Call
  <2>3. /\ rows' \in [Keys -> Row \union {NoRow}]
        /\ rows'[call[s].key] \in Row
        /\ nextUid' \in Nat \ {0}
        /\ retired' \subseteq Keys
    BY <1>8, <2>2, StoreTypes DEF CommitUpdate
  <2>4. held' \in [Sessions -> Held \union {NoRead}]
    BY <1>8, <2>2, <2>3, ReplyType DEF CommitUpdate
  <2>5. call' \in [Sessions -> Call \union {NoCall}]
    BY <1>8, FinishType DEF CommitUpdate
  <2> QED
    BY <1>8, <2>3, <2>4, <2>5 DEF CommitUpdate, TypeOK
<1>9. ASSUME NEW s \in Sessions, Refuse(s) \/ Cancel(s)
      PROVE  TypeOK'
  <2>1. call' \in [Sessions -> Call \union {NoCall}]
    BY <1>9, FinishType DEF Refuse, Cancel
  <2> QED
    BY <1>9, <2>1 DEF Refuse, Cancel, TypeOK
<1>10. ASSUME NEW k \in Keys, DeleteResource(k)
       PROVE  TypeOK'
  BY <1>10 DEF DeleteResource, Delete, TypeOK
<1>11. ASSUME ReconcileList
       PROVE  TypeOK'
  BY <1>11 DEF ReconcileList, TypeOK
<1>12. ASSUME NEW w \in WorkflowKeys, ReconcileWrite(w)
       PROVE  TypeOK'
  <2>1. snap[w] \in Row
    BY <1>12 DEF ReconcileWrite, Pending, TypeOK
  <2>2. /\ snap[w].gen \in Nat \ {0} /\ snap[w].spec \in Specs
        /\ DesiredStatus(snap[w]) \in Statuses
    BY <2>1, DesiredStatusType DEF Row, Statuses
  <2>3. /\ rows' \in [Keys -> Row \union {NoRow}]
        /\ nextUid' \in Nat \ {0}
        /\ retired' \subseteq Keys
    BY <1>12, <2>2, StoreTypes DEF ReconcileWrite
  <2>4. snap' \in [WorkflowKeys -> Row \union {NoRow}]
    BY <1>12, HandledType DEF ReconcileWrite
  <2> QED
    BY <1>12, <2>3, <2>4 DEF ReconcileWrite, TypeOK
<1>13. ASSUME NEW w \in WorkflowKeys,
              ReconcileSkip(w) \/ ReconcileRaced(w) \/ ReconcileError(w)
       PROVE  TypeOK'
  <2>1. snap' \in [WorkflowKeys -> Row \union {NoRow}]
    BY <1>13, HandledType DEF ReconcileSkip, ReconcileRaced, ReconcileError
  <2> QED
    BY <1>13, <2>1 DEF ReconcileSkip, ReconcileRaced, ReconcileError, TypeOK
<1>14. ASSUME Crash
       PROVE  TypeOK'
  BY <1>14 DEF Crash, Nothing, TypeOK
<1>15. ASSUME UNCHANGED vars
       PROVE  TypeOK'
  BY <1>15 DEF vars, TypeOK
<1> QED
  BY <1>1, <1>2, <1>4, <1>5, <1>6, <1>7, <1>8, <1>9, <1>10, <1>11, <1>12, <1>13, <1>14, <1>15,
     ProjectKeysAreKeys
  DEF Next, SessionStep, ProjectStep, WorkflowStep, GetProject, GetWorkflow, DeleteStep,
      DeleteProject, DeleteWorkflow, ReconcilerStep, ReconcileItem

(* The variables keep their types in every behaviour. *)
THEOREM TypeCorrect == Spec => []TypeOK
<1>1. Init => TypeOK
  BY DEF Init, TypeOK, Nothing
<1>2. TypeOK /\ [Next]_vars => TypeOK'
  BY TypeStep
<1> QED
  BY <1>1, <1>2, PTL DEF Spec

-----------------------------------------------------------------------------
(* Optimistic concurrency.  The inductive invariant: every copy of a row   *)
(* outside the table is a past or the present version of the row it was    *)
(* taken from, whose UID is one of those already given out; a handler in   *)
(* flight quotes the version its client was shown and, as long as that is  *)
(* still the version stored, carries the right generation.                 *)

PastOrPresent(c, k) ==
    Present(k) /\ c.uid = rows[k].uid =>
        /\ c.rv <= rows[k].rv
        /\ c.rv = rows[k].rv => c = rows[k]

UidsGiven == \A k \in Keys : Present(k) => rows[k].uid < nextUid

HeldPast ==
    \A s \in Sessions : held[s] # NoRead =>
        held[s].row.uid < nextUid /\ PastOrPresent(held[s].row, held[s].key)

SnapPast ==
    \A w \in WorkflowKeys : Pending(w) =>
        snap[w].uid < nextUid /\ PastOrPresent(snap[w], w)

StillShown(s) ==
    /\ Present(held[s].key)
    /\ rows[held[s].key].uid = held[s].row.uid
    /\ rows[held[s].key].rv = held[s].row.rv

CallQuotesHeld ==
    \A s \in Sessions : InFlight(s, "update") =>
        /\ held[s] # NoRead
        /\ call[s].key = held[s].key
        /\ call[s].rv = held[s].row.rv
        /\ StillShown(s) => call[s].gen = NextGeneration(rows[held[s].key], call[s].spec)

CopiesInv == TypeOK /\ UidsGiven /\ HeldPast /\ SnapPast /\ CallQuotesHeld

-----------------------------------------------------------------------------
(* What one step does to one row: nothing, remove it, insert it with a     *)
(* fresh UID, or replace it under the same UID and the next version.       *)
KeyStep(k) ==
    \/ rows'[k] = rows[k]
    \/ rows'[k] = NoRow
    \/ /\ rows[k] = NoRow
       /\ rows'[k].uid = nextUid
       /\ nextUid' = nextUid + 1
    \/ /\ Present(k)
       /\ rows'[k].uid = rows[k].uid
       /\ rows'[k].rv = rows[k].rv + 1

(* The store calls are such steps for every row. *)
LEMMA CreateSteps ==
    ASSUME TypeOK, NEW j \in Keys, NEW gen, NEW spec, NEW status,
           Create(j, gen, spec, status), NEW k \in Keys
    PROVE  KeyStep(k) /\ nextUid' >= nextUid
<1>1. CASE j = k
  BY <1>1 DEF Create, Present, KeyStep, NewRow, TypeOK
<1>2. CASE j # k
  BY <1>2 DEF Create, KeyStep, TypeOK
<1> QED
  BY <1>1, <1>2

LEMMA UpdateSteps ==
    ASSUME TypeOK, NEW j \in Keys, NEW rv, NEW gen, NEW spec, NEW status,
           Update(j, rv, gen, spec, status), NEW k \in Keys
    PROVE  KeyStep(k) /\ nextUid' >= nextUid
<1>1. CASE j = k
  BY <1>1 DEF Update, VersionMatches, Present, KeyStep, NewRow, TypeOK
<1>2. CASE j # k
  BY <1>2 DEF Update, KeyStep, TypeOK
<1> QED
  BY <1>1, <1>2

LEMMA DeleteSteps ==
    ASSUME TypeOK, NEW j \in Keys, Delete(j), NEW k \in Keys
    PROVE  KeyStep(k) /\ nextUid' >= nextUid
BY DEF Delete, KeyStep, TypeOK

LEMMA NextSteps ==
    ASSUME TypeOK, [Next]_vars, NEW k \in Keys
    PROVE  KeyStep(k) /\ nextUid' >= nextUid
<1>1. ASSUME UNCHANGED storeVars
      PROVE  KeyStep(k) /\ nextUid' >= nextUid
  BY <1>1 DEF storeVars, KeyStep, TypeOK
<1>2. ASSUME NEW s \in Sessions, NEW p \in Projects, NEW spec, CreateProject(s, p, spec)
      PROVE  KeyStep(k) /\ nextUid' >= nextUid
  BY <1>2, CreateSteps DEF CreateProject, Keys, ProjectKeys
<1>3. ASSUME NEW s \in Sessions, CommitCreate(s)
      PROVE  KeyStep(k) /\ nextUid' >= nextUid
  <2>1. call[s].key \in Keys
    BY <1>3 DEF CommitCreate, InFlight, Idle, TypeOK, Call
  <2> QED
    BY <1>3, <2>1, CreateSteps DEF CommitCreate
<1>4. ASSUME NEW s \in Sessions, CommitUpdate(s)
      PROVE  KeyStep(k) /\ nextUid' >= nextUid
  <2>1. call[s].key \in Keys
    BY <1>4 DEF CommitUpdate, InFlight, Idle, TypeOK, Call
  <2> QED
    BY <1>4, <2>1, UpdateSteps DEF CommitUpdate
<1>5. ASSUME NEW w \in WorkflowKeys, ReconcileWrite(w)
      PROVE  KeyStep(k) /\ nextUid' >= nextUid
  BY <1>5, UpdateSteps, WorkflowKeysAreKeys DEF ReconcileWrite
<1>6. ASSUME NEW j \in Keys, DeleteResource(j)
      PROVE  KeyStep(k) /\ nextUid' >= nextUid
  BY <1>6, DeleteSteps DEF DeleteResource
<1> QED
  BY <1>1, <1>2, <1>3, <1>4, <1>5, <1>6, WorkflowKeysAreKeys, ProjectKeysAreKeys
  DEF Next, SessionStep, ProjectStep, WorkflowStep, GetProject, GetWorkflow, DeleteStep,
      DeleteProject, DeleteWorkflow, ReconcilerStep, ReconcileItem, Get, UpdateProject,
      UpdateWorkflow, UpdateResource, CreateWorkflow, Refuse, Cancel, ReconcileList,
      ReconcileSkip, ReconcileRaced, ReconcileError, Crash, vars, storeVars

(* A copy stays a past or present version of its row, whatever happens to  *)
(* the row.  c is compared with the row of the next state.                 *)
PastOrPresentNext(c, k) ==
    rows'[k] # NoRow /\ c.uid = rows'[k].uid =>
        /\ c.rv <= rows'[k].rv
        /\ c.rv = rows'[k].rv => c = rows'[k]

LEMMA CopiesAge ==
    ASSUME TypeOK, TypeOK', UidsGiven, NEW k \in Keys, KeyStep(k), nextUid' >= nextUid
    PROVE  /\ rows'[k] # NoRow => rows'[k].uid < nextUid'
           /\ \A c \in Row : c.uid < nextUid /\ PastOrPresent(c, k) =>
                c.uid < nextUid' /\ PastOrPresentNext(c, k)
<1>1. /\ nextUid \in Nat /\ nextUid' \in Nat
      /\ rows[k] # NoRow => rows[k].uid \in Nat /\ rows[k].rv \in Nat
      /\ rows'[k] # NoRow => rows'[k].uid \in Nat /\ rows'[k].rv \in Nat
  BY DEF TypeOK, Row
<1>2. rows'[k] # NoRow => rows'[k].uid < nextUid'
  BY <1>1 DEF KeyStep, UidsGiven, Present
<1>3. ASSUME NEW c \in Row, c.uid < nextUid, PastOrPresent(c, k)
      PROVE  c.uid < nextUid' /\ PastOrPresentNext(c, k)
  <2>1. c.uid \in Nat /\ c.rv \in Nat
    BY DEF Row
  <2> QED
    BY <1>1, <1>3, <2>1 DEF KeyStep, PastOrPresent, PastOrPresentNext, Present
<1> QED
  BY <1>2, <1>3

-----------------------------------------------------------------------------
(* Where the copies and the calls of the next state come from. *)

LEMMA HeldSource ==
    ASSUME TypeOK, [Next]_vars, NEW s \in Sessions
    PROVE  \/ held'[s] = held[s]
           \/ \E k \in Keys : held'[s] = [key |-> k, row |-> rows'[k]] /\ rows'[k] \in Row
<1> DEFINE Source ==
      \/ held'[s] = held[s]
      \/ \E k \in Keys : held'[s] = [key |-> k, row |-> rows'[k]] /\ rows'[k] \in Row
<1>1. ASSUME UNCHANGED held
      PROVE  Source
  BY <1>1
<1>2. ASSUME NEW t \in Sessions, NEW k \in Keys, Get(t, k)
      PROVE  Source
  BY <1>2 DEF Get, Present, storeVars, TypeOK
<1>3. ASSUME NEW t \in Sessions, NEW k \in Keys, Reply(t, k), rows'[k] \in Row
      PROVE  Source
  BY <1>3 DEF Reply, TypeOK
<1>4. ASSUME NEW t \in Sessions, NEW p \in Projects, NEW spec \in ProjectSpecs,
             CreateProject(t, p, spec)
      PROVE  Source
  <2>1. ProjectKey(p) \in Keys /\ spec \in Specs /\ NoStatus \in Statuses
    BY DEF Keys, ProjectKeys, Specs, Statuses
  <2>2. rows'[ProjectKey(p)] \in Row
    BY <1>4, <2>1, StoreTypes DEF CreateProject
  <2> QED
    BY <1>3, <1>4, <2>1, <2>2 DEF CreateProject
<1>5. ASSUME NEW t \in Sessions, CommitCreate(t) \/ CommitUpdate(t)
      PROVE  Source
  <2>1. call[t] \in Call
    BY <1>5 DEF CommitCreate, CommitUpdate, InFlight, Idle, TypeOK
  <2>2. /\ call[t].key \in Keys /\ call[t].gen \in Nat \ {0}
        /\ call[t].spec \in Specs /\ call[t].status \in Statuses
    BY <2>1 DEF Call
  <2>3. rows'[call[t].key] \in Row
    BY <1>5, <2>2, StoreTypes DEF CommitCreate, CommitUpdate
  <2> QED
    BY <1>3, <1>5, <2>2, <2>3 DEF CommitCreate, CommitUpdate
<1> HIDE DEF Source
<1>6. Source
  BY <1>1, <1>2, <1>4, <1>5, WorkflowKeysAreKeys, ProjectKeysAreKeys
  DEF Next, SessionStep, ProjectStep, WorkflowStep, GetProject, GetWorkflow, DeleteStep,
      DeleteProject, DeleteWorkflow, ReconcilerStep, ReconcileItem, UpdateProject,
      UpdateWorkflow, UpdateResource, CreateWorkflow, Refuse, Cancel, DeleteResource,
      ReconcileList, ReconcileWrite, ReconcileSkip, ReconcileRaced, ReconcileError, Crash, vars
<1> QED
  BY <1>6 DEF Source

LEMMA SnapSource ==
    ASSUME TypeOK, [Next]_vars, NEW w \in WorkflowKeys
    PROVE  snap'[w] = snap[w] \/ snap'[w] = NoRow \/ snap'[w] = rows'[w]
BY DEF Next, SessionStep, ProjectStep, WorkflowStep, GetProject, GetWorkflow, DeleteStep,
      DeleteProject, DeleteWorkflow, ReconcilerStep, ReconcileItem, Get, CreateProject,
       UpdateProject, UpdateWorkflow, UpdateResource, CreateWorkflow, CommitCreate,
       CommitUpdate, Refuse, Cancel, DeleteResource, ReconcileList, ReconcileWrite,
       ReconcileSkip, ReconcileRaced, ReconcileError, Handled, Crash, Nothing, vars,
       storeVars, serverVars, TypeOK

(* A handler either stays in flight with its client still holding what it  *)
(* held, or has just started from what its client holds.                   *)
LEMMA CallSource ==
    ASSUME TypeOK, [Next]_vars, NEW s \in Sessions, InFlight(s, "update")'
    PROVE  \/ held'[s] = held[s] /\ call'[s] = call[s]
           \/ /\ UNCHANGED <<rows, held>>
              /\ held[s] # NoRead
              /\ call'[s].key = held[s].key
              /\ call'[s].rv = held[s].row.rv
              /\ call'[s].gen = NextGeneration(rows[held[s].key], call'[s].spec)
<1> DEFINE Source ==
      \/ held'[s] = held[s] /\ call'[s] = call[s]
      \/ /\ UNCHANGED <<rows, held>>
         /\ held[s] # NoRead
         /\ call'[s].key = held[s].key
         /\ call'[s].rv = held[s].row.rv
         /\ call'[s].gen = NextGeneration(rows[held[s].key], call'[s].spec)
<1>1. call'[s] # NoCall /\ call'[s].op = "update"
  BY DEF InFlight, Idle
<1>2. ASSUME NEW t \in Sessions, NEW k \in Keys, Get(t, k)
      PROVE  Source
  BY <1>1, <1>2 DEF Get, Idle, serverVars, TypeOK
<1>3. ASSUME NEW t \in Sessions, NEW p \in Projects, NEW spec, CreateProject(t, p, spec)
      PROVE  Source
  BY <1>1, <1>3 DEF CreateProject, Reply, Idle, serverVars, TypeOK
<1>4. ASSUME NEW t \in Sessions, NEW spec, NEW status, UpdateResource(t, spec, status)
      PROVE  Source
  <2>1. CASE t = s
    BY <1>1, <1>4, <2>1 DEF UpdateResource, storeVars, TypeOK
  <2>2. CASE t # s
    BY <1>4, <2>2 DEF UpdateResource, TypeOK
  <2> QED
    BY <2>1, <2>2
<1>5. ASSUME NEW t \in Sessions, NEW w, NEW spec, CreateWorkflow(t, w, spec)
      PROVE  Source
  BY <1>1, <1>5 DEF CreateWorkflow, TypeOK
<1>6. ASSUME NEW t \in Sessions, CommitCreate(t) \/ CommitUpdate(t) \/ Refuse(t) \/ Cancel(t)
      PROVE  Source
  BY <1>1, <1>6 DEF CommitCreate, CommitUpdate, Refuse, Cancel, Reply, Finish, TypeOK
<1>7. ASSUME Crash
      PROVE  Source
  BY <1>1, <1>7 DEF Crash, TypeOK
<1> HIDE DEF Source
<1>8. ASSUME UNCHANGED <<held, call>>
      PROVE  Source
  BY <1>8 DEF Source
<1>9. Source
  BY <1>2, <1>3, <1>4, <1>5, <1>6, <1>7, <1>8, WorkflowKeysAreKeys, ProjectKeysAreKeys
  DEF Next, SessionStep, ProjectStep, WorkflowStep, GetProject, GetWorkflow, DeleteStep,
      DeleteProject, DeleteWorkflow, ReconcilerStep, ReconcileItem, UpdateProject,
      UpdateWorkflow, DeleteResource, ReconcileList, ReconcileWrite, ReconcileSkip,
      ReconcileRaced, ReconcileError, vars, serverVars
<1> QED
  BY <1>9 DEF Source

-----------------------------------------------------------------------------
(* The invariant is inductive. *)

LEMMA CopiesInit == Init => CopiesInv
<1> SUFFICES ASSUME Init
             PROVE  CopiesInv
  OBVIOUS
<1>1. TypeOK
  BY DEF Init, TypeOK, Nothing
<1>2. UidsGiven /\ HeldPast /\ SnapPast /\ CallQuotesHeld
  BY DEF Init, Nothing, UidsGiven, HeldPast, SnapPast, CallQuotesHeld, Present, Pending,
         InFlight, Idle
<1> QED
  BY <1>1, <1>2 DEF CopiesInv

LEMMA CopiesStep ==
    ASSUME CopiesInv, [Next]_vars
    PROVE  CopiesInv'
<1>1. TypeOK /\ TypeOK' /\ UidsGiven /\ HeldPast /\ SnapPast /\ CallQuotesHeld
  BY TypeStep DEF CopiesInv
<1>2. \A k \in Keys : KeyStep(k) /\ nextUid' >= nextUid
  BY <1>1, NextSteps
<1>3. ASSUME NEW k \in Keys
      PROVE  /\ rows'[k] # NoRow => rows'[k].uid < nextUid'
             /\ \A c \in Row : c.uid < nextUid /\ PastOrPresent(c, k) =>
                  c.uid < nextUid' /\ PastOrPresentNext(c, k)
  BY <1>1, <1>2, CopiesAge
<1>4. ASSUME NEW k \in Keys, rows'[k] \in Row
      PROVE  rows'[k].uid < nextUid' /\ PastOrPresentNext(rows'[k], k)
  <2>1. rows'[k] # NoRow /\ rows'[k].rv \in Nat
    BY <1>4, SentinelAssumption DEF Row
  <2> QED
    BY <1>3, <2>1 DEF PastOrPresentNext
<1>5. UidsGiven'
  BY <1>3 DEF UidsGiven, Present
<1>6. HeldPast'
  <2> SUFFICES ASSUME NEW s \in Sessions, held'[s] # NoRead
               PROVE  /\ held'[s].row.uid < nextUid'
                      /\ PastOrPresentNext(held'[s].row, held'[s].key)
    BY DEF HeldPast, PastOrPresent, PastOrPresentNext, Present
  <2>1. CASE held'[s] = held[s]
    <3>1. /\ held[s].row \in Row /\ held[s].key \in Keys
          /\ held[s].row.uid < nextUid
          /\ PastOrPresent(held[s].row, held[s].key)
      BY <1>1, <2>1 DEF HeldPast, TypeOK, Held
    <3> QED
      BY <1>3, <2>1, <3>1
  <2>2. CASE \E k \in Keys : held'[s] = [key |-> k, row |-> rows'[k]] /\ rows'[k] \in Row
    BY <1>4, <2>2
  <2> QED
    BY <1>1, <2>1, <2>2, HeldSource
<1>7. SnapPast'
  <2> SUFFICES ASSUME NEW w \in WorkflowKeys, snap'[w] # NoRow
               PROVE  snap'[w].uid < nextUid' /\ PastOrPresentNext(snap'[w], w)
    BY DEF SnapPast, Pending, PastOrPresent, PastOrPresentNext, Present
  <2>1. w \in Keys
    BY WorkflowKeysAreKeys
  <2>2. CASE snap'[w] = snap[w]
    <3>1. snap[w] \in Row /\ snap[w].uid < nextUid /\ PastOrPresent(snap[w], w)
      BY <1>1, <2>2 DEF SnapPast, Pending, TypeOK
    <3> QED
      BY <1>3, <2>1, <2>2, <3>1
  <2>3. CASE snap'[w] = rows'[w]
    <3>1. rows'[w] \in Row
      BY <1>1, <2>1, <2>3 DEF TypeOK
    <3> QED
      BY <1>4, <2>1, <2>3, <3>1
  <2> QED
    BY <1>1, <2>2, <2>3, SnapSource
<1>8. CallQuotesHeld'
  <2> SUFFICES ASSUME NEW s \in Sessions, InFlight(s, "update")'
               PROVE  /\ held'[s] # NoRead
                      /\ call'[s].key = held'[s].key
                      /\ call'[s].rv = held'[s].row.rv
                      /\ StillShown(s)' =>
                           call'[s].gen = NextGeneration(rows'[held'[s].key], call'[s].spec)
    BY DEF CallQuotesHeld, NextGeneration
  <2>1. CASE held'[s] = held[s] /\ call'[s] = call[s]
    <3>1. InFlight(s, "update")
      BY <2>1 DEF InFlight, Idle
    <3>2. /\ held[s] # NoRead
          /\ call[s].key = held[s].key
          /\ call[s].rv = held[s].row.rv
          /\ StillShown(s) => call[s].gen = NextGeneration(rows[held[s].key], call[s].spec)
      BY <1>1, <3>1 DEF CallQuotesHeld
    <3> DEFINE k == held[s].key
               c == held[s].row
    <3>3. /\ k \in Keys /\ c \in Row /\ c.uid \in Nat /\ c.rv \in Nat
          /\ c.uid < nextUid /\ PastOrPresent(c, k)
      BY <1>1, <3>2 DEF HeldPast, TypeOK, Held, Row
    <3>4. /\ rows[k] # NoRow => rows[k].uid \in Nat /\ rows[k].rv \in Nat
          /\ nextUid \in Nat
      BY <1>1, <3>3 DEF TypeOK, Row
    <3>5. ASSUME rows'[k] # NoRow, rows'[k].uid = c.uid, rows'[k].rv = c.rv
          PROVE  rows'[k] = rows[k]
      BY <1>2, <3>3, <3>4, <3>5 DEF KeyStep, PastOrPresent, Present
    <3>6. StillShown(s)' => StillShown(s) /\ rows'[k] = rows[k]
      BY <2>1, <3>5 DEF StillShown, Present
    <3> QED
      BY <2>1, <3>2, <3>6
  <2>2. CASE /\ UNCHANGED <<rows, held>>
             /\ held[s] # NoRead
             /\ call'[s].key = held[s].key
             /\ call'[s].rv = held[s].row.rv
             /\ call'[s].gen = NextGeneration(rows[held[s].key], call'[s].spec)
    BY <2>2
  <2> QED
    BY <1>1, <2>1, <2>2, CallSource
<1> QED
  BY <1>1, <1>5, <1>6, <1>7, <1>8 DEF CopiesInv

(* The inductive invariant holds in every behaviour. *)
THEOREM CopiesInvariant == Spec => []CopiesInv
<1>1. Init => CopiesInv
  BY CopiesInit
<1>2. CopiesInv /\ [Next]_vars => CopiesInv'
  BY CopiesStep
<1> QED
  BY <1>1, <1>2, PTL DEF Spec

-----------------------------------------------------------------------------
(* What follows from it. *)

(* A copy with the version of its row is its row: the versions of          *)
(* store.Update decide what they are meant to decide.                      *)
THEOREM VersionsDetermineContent == Spec => []VersionDeterminesContent
<1>1. CopiesInv => VersionDeterminesContent
  BY DEF CopiesInv, HeldPast, SnapPast, PastOrPresent, VersionDeterminesContent, Copies
<1> QED
  BY <1>1, CopiesInvariant, PTL

(* Only the commit of its own handler ends a session's update with the row *)
(* changed.                                                                *)
LEMMA WriterIsTheHandler ==
    ASSUME TypeOK, [Next]_vars, NEW s \in Sessions, NEW k \in Keys, WritesOver(s, k)
    PROVE  CommitUpdate(s)
<1>1. /\ InFlight(s, "update") /\ call[s] # NoCall /\ call[s].op = "update"
      /\ call'[s] = NoCall /\ rows' # rows
  BY DEF WritesOver, InFlight, Idle
<1>2. ASSUME NEW t \in Sessions, SessionStep(t)
      PROVE  CommitUpdate(s)
  <2>1. ASSUME NEW spec, NEW status, UpdateResource(t, spec, status)
        PROVE  FALSE
    BY <1>1, <2>1 DEF UpdateResource, storeVars
  <2>2. ASSUME NEW p \in Projects, NEW spec, CreateProject(t, p, spec)
        PROVE  FALSE
    BY <1>1, <2>2 DEF CreateProject, serverVars
  <2>3. ASSUME CommitUpdate(t) \/ CommitCreate(t)
        PROVE  CommitUpdate(s)
    BY <1>1, <2>3 DEF CommitUpdate, CommitCreate, InFlight, Finish, TypeOK
  <2> QED
    BY <1>1, <1>2, <2>1, <2>2, <2>3
    DEF SessionStep, ProjectStep, WorkflowStep, GetProject, GetWorkflow, Get, UpdateProject, UpdateWorkflow,
        CreateWorkflow, Refuse, Cancel, storeVars
<1> QED
  BY <1>1, <1>2
  DEF Next, DeleteStep, DeleteProject, DeleteWorkflow, ReconcilerStep, ReconcileItem,
      DeleteResource, ReconcileList, ReconcileWrite, ReconcileSkip,
      ReconcileRaced, ReconcileError, Crash, vars, storeVars, serverVars

(* A commit on the life its client was shown finds what the client was     *)
(* shown, and its generation counts the edit.                              *)
LEMMA CommitOnShownLife ==
    ASSUME CopiesInv, [Next]_vars, NEW s \in Sessions, NEW k \in Keys, WritesOver(s, k),
           held[s].row.uid = rows[k].uid
    PROVE  held[s].row = rows[k] /\ GenerationStep(k)
<1>1. TypeOK /\ HeldPast /\ CallQuotesHeld
  BY DEF CopiesInv
<1>2. /\ CommitUpdate(s) /\ InFlight(s, "update") /\ call[s].key = k
      /\ Present(k)
  BY <1>1, WriterIsTheHandler DEF WritesOver, SameLife
<1>3. /\ held[s] # NoRead /\ held[s].key = k /\ call[s].rv = held[s].row.rv
      /\ StillShown(s) => call[s].gen = NextGeneration(rows[k], call[s].spec)
  BY <1>1, <1>2 DEF CallQuotesHeld
<1>4. /\ rows[k].rv = held[s].row.rv
      /\ rows' = [rows EXCEPT ![k] = NewRow(rows[k].uid, rows[k].rv + 1, call[s].gen,
                                           call[s].spec, call[s].status)]
  BY <1>2, <1>3 DEF CommitUpdate, Update, VersionMatches
<1>5. held[s].row = rows[k]
  BY <1>1, <1>2, <1>3, <1>4 DEF HeldPast, PastOrPresent
<1>6. call[s].gen = NextGeneration(rows[k], call[s].spec)
  BY <1>2, <1>3, <1>4 DEF StillShown
<1>7. rows'[k].gen = call[s].gen /\ rows'[k].spec = call[s].spec
  BY <1>1, <1>4 DEF NewRow, TypeOK
<1>8. rows[k].gen \in Nat
  BY <1>1, <1>2 DEF TypeOK, Present, Row
<1>9. GenerationStep(k)
  BY <1>6, <1>7, <1>8 DEF GenerationStep, NextGeneration
<1> QED
  BY <1>5, <1>9

(* No handler's write is lost under another handler's update. *)
THEOREM NoUpdateIsLost == Spec => NoLostUpdate
<1>1. CopiesInv /\ [Next]_vars =>
        [\A s \in Sessions, k \in Keys :
           WritesOver(s, k) /\ held[s].row.uid = rows[k].uid => held[s].row = rows[k]]_vars
  BY CommitOnShownLife
<1> QED
  BY <1>1, CopiesInvariant, PTL DEF Spec, NoLostUpdate

(* The generation a handler stamps counts the change its own commit makes. *)
THEOREM HandlersCountEdits == Spec => GenerationCountsEdits
<1>1. CopiesInv /\ [Next]_vars =>
        [\A s \in Sessions, k \in Keys :
           WritesOver(s, k) /\ held[s].row.uid = rows[k].uid => GenerationStep(k)]_vars
  BY CommitOnShownLife
<1> QED
  BY <1>1, CopiesInvariant, PTL DEF Spec, GenerationCountsEdits

(* Only the reconciler's own write ends an item with the row changed. *)
LEMMA WriterIsTheReconciler ==
    ASSUME TypeOK, [Next]_vars, NEW w \in WorkflowKeys, ReconcilerWrites(w)
    PROVE  ReconcileWrite(w)
<1>1. snap[w] # NoRow /\ snap'[w] = NoRow /\ rows' # rows
  BY DEF ReconcilerWrites, Pending
<1>2. ASSUME NEW v \in WorkflowKeys, ReconcileWrite(v)
      PROVE  ReconcileWrite(w)
  BY <1>1, <1>2 DEF ReconcileWrite, Handled, TypeOK
<1>3. ASSUME UNCHANGED snap
      PROVE  FALSE
  BY <1>1, <1>3
<1>4. ASSUME UNCHANGED rows
      PROVE  FALSE
  BY <1>1, <1>4
<1> QED
  BY <1>2, <1>3, <1>4
  DEF Next, SessionStep, ProjectStep, WorkflowStep, GetProject, GetWorkflow, DeleteStep,
      DeleteProject, DeleteWorkflow, ReconcilerStep, ReconcileItem, Get, CreateProject,
      UpdateProject, UpdateWorkflow, UpdateResource, CreateWorkflow, CommitCreate,
      CommitUpdate, Refuse, Cancel, DeleteResource, ReconcileList, ReconcileSkip,
      ReconcileRaced, ReconcileError, Crash, vars, storeVars, serverVars

(* The reconciler's write of a listed record leaves the desired state of   *)
(* the life it listed as it is.                                            *)
THEOREM ReconcilerKeepsDesiredState == Spec => ReconcilerKeepsListedLife
<1>1. ASSUME CopiesInv, [Next]_vars, NEW w \in WorkflowKeys, ReconcilerWrites(w),
             snap[w].uid = rows[w].uid
      PROVE  StatusOnly(w)
  <2>1. TypeOK /\ SnapPast /\ w \in Keys
    BY <1>1, WorkflowKeysAreKeys DEF CopiesInv
  <2>2. ReconcileWrite(w) /\ Pending(w) /\ Present(w)
    BY <1>1, <2>1, WriterIsTheReconciler DEF ReconcilerWrites, SameLife
  <2>3. /\ rows[w].rv = snap[w].rv
        /\ rows' = [rows EXCEPT ![w] = NewRow(rows[w].uid, rows[w].rv + 1, snap[w].gen,
                                             snap[w].spec, DesiredStatus(snap[w]))]
    BY <2>2 DEF ReconcileWrite, Update, VersionMatches
  <2>4. snap[w] = rows[w]
    BY <1>1, <2>1, <2>2, <2>3 DEF SnapPast, PastOrPresent
  <2>5. rows'[w].spec = snap[w].spec /\ rows'[w].gen = snap[w].gen
    BY <2>1, <2>3 DEF NewRow, TypeOK
  <2> QED
    BY <2>4, <2>5 DEF StatusOnly
<1>2. CopiesInv /\ [Next]_vars =>
        [\A w \in WorkflowKeys :
           ReconcilerWrites(w) /\ snap[w].uid = rows[w].uid => StatusOnly(w)]_vars
  BY <1>1
<1> QED
  BY <1>2, CopiesInvariant, PTL DEF Spec, ReconcilerKeepsListedLife

-----------------------------------------------------------------------------
(* The owning Project.  What CreateWorkflow found stays true in one form:  *)
(* the Project is still there or has been deleted since.                   *)

HadProject(w) == Present(ProjectKey(w.project)) \/ ProjectKey(w.project) \in retired

CreatesHadProject ==
    \A s \in Sessions : InFlight(s, "create") =>
        call[s].key \in WorkflowKeys /\ HadProject(call[s].key)

(* Rows leave the table by deletion, which is remembered. *)
LEMMA DeletionsAreRetired ==
    ASSUME TypeOK, [Next]_vars, NEW k \in Keys
    PROVE  /\ Present(k) => rows'[k] # NoRow \/ k \in retired'
           /\ k \in retired => k \in retired'
<1> DEFINE Remembered == /\ Present(k) => rows'[k] # NoRow \/ k \in retired'
                         /\ k \in retired => k \in retired'
<1>1. ASSUME UNCHANGED storeVars
      PROVE  Remembered
  BY <1>1 DEF storeVars, Present
<1>2. ASSUME NEW j \in Keys, NEW gen, NEW spec, NEW status, Create(j, gen, spec, status)
      PROVE  Remembered
  BY <1>2 DEF Create, Present, TypeOK
<1>3. ASSUME NEW j \in Keys, NEW gen \in Nat \ {0}, NEW spec \in Specs,
             NEW status \in Statuses, NEW rv, Update(j, rv, gen, spec, status)
      PROVE  Remembered
  <2>1. rows'[j] # NoRow
    BY <1>3, StoreTypes, SentinelAssumption
  <2> QED
    BY <1>3, <2>1 DEF Update, Present, TypeOK
<1>4. ASSUME NEW j \in Keys, DeleteResource(j)
      PROVE  Remembered
  <2>1. retired' = retired \union {j} /\ rows' = [rows EXCEPT ![j] = NoRow]
    BY <1>4 DEF DeleteResource, Delete
  <2>2. k # j => rows'[k] = rows[k]
    BY <2>1 DEF TypeOK
  <2>3. k = j => k \in retired'
    BY <2>1
  <2>4. k \in retired => k \in retired'
    BY <2>1
  <2> QED
    BY <2>2, <2>3, <2>4 DEF Present
<1>5. ASSUME NEW s \in Sessions, CommitCreate(s) \/ CommitUpdate(s)
      PROVE  Remembered
  <2>1. call[s] \in Call
    BY <1>5 DEF CommitCreate, CommitUpdate, InFlight, Idle, TypeOK
  <2> QED
    BY <1>2, <1>3, <1>5, <2>1 DEF CommitCreate, CommitUpdate, Call
<1>6. ASSUME NEW w \in WorkflowKeys, ReconcileWrite(w)
      PROVE  Remembered
  <2>1. snap[w] \in Row
    BY <1>6 DEF ReconcileWrite, Pending, TypeOK
  <2>2. snap[w].gen \in Nat \ {0} /\ snap[w].spec \in Specs /\ DesiredStatus(snap[w]) \in Statuses
    BY <2>1, DesiredStatusType DEF Row, Statuses
  <2> QED
    BY <1>3, <1>6, <2>2, WorkflowKeysAreKeys DEF ReconcileWrite
<1>7. ASSUME NEW s \in Sessions, NEW p \in Projects, NEW spec, CreateProject(s, p, spec)
      PROVE  Remembered
  BY <1>2, <1>7, ProjectKeysAreKeys DEF CreateProject
<1> HIDE DEF Remembered
<1>8. Remembered
  BY <1>1, <1>4, <1>5, <1>6, <1>7, WorkflowKeysAreKeys, ProjectKeysAreKeys
  DEF Next, SessionStep, ProjectStep, WorkflowStep, GetProject, GetWorkflow, DeleteStep,
      DeleteProject, DeleteWorkflow, ReconcilerStep, ReconcileItem, Get, UpdateProject,
      UpdateWorkflow, UpdateResource, CreateWorkflow, Refuse, Cancel, ReconcileList,
      ReconcileSkip, ReconcileRaced, ReconcileError, Crash, vars, storeVars
<1> QED
  BY <1>8 DEF Remembered

(* Workflows enter the table by the second half of CreateWorkflow. *)
LEMMA WorkflowsAreCommitted ==
    ASSUME TypeOK, [Next]_vars, NEW w \in WorkflowKeys, ~Present(w), rows'[w] # NoRow
    PROVE  \E s \in Sessions : InFlight(s, "create") /\ call[s].key = w
<1> DEFINE Committed == \E s \in Sessions : InFlight(s, "create") /\ call[s].key = w
<1>1. rows[w] = NoRow /\ w \in Keys
  BY WorkflowKeysAreKeys DEF Present
<1>2. ASSUME UNCHANGED rows
      PROVE  FALSE
  BY <1>1, <1>2
<1>3. ASSUME NEW s \in Sessions, CommitCreate(s)
      PROVE  Committed
  <2>1. call[s].key = w
    BY <1>1, <1>3 DEF CommitCreate, Create, TypeOK
  <2> QED
    BY <1>3, <2>1 DEF CommitCreate
<1>4. ASSUME NEW j, NEW gen, NEW spec, NEW status, NEW rv, Update(j, rv, gen, spec, status)
      PROVE  FALSE
  BY <1>1, <1>4 DEF Update, VersionMatches, Present, TypeOK
<1>5. ASSUME NEW s \in Sessions, NEW p \in Projects, NEW spec, CreateProject(s, p, spec)
      PROVE  FALSE
  <2>1. ProjectKey(p) # w
    BY KindsAreDisjoint DEF ProjectKeys
  <2> QED
    BY <1>1, <1>5, <2>1 DEF CreateProject, Create, TypeOK
<1>6. ASSUME NEW j, DeleteResource(j)
      PROVE  FALSE
  BY <1>1, <1>6 DEF DeleteResource, Delete, TypeOK
<1> HIDE DEF Committed
<1>7. Committed
  BY <1>2, <1>3, <1>4, <1>5, <1>6
  DEF Next, SessionStep, ProjectStep, WorkflowStep, GetProject, GetWorkflow, DeleteStep,
      DeleteProject, DeleteWorkflow, ReconcilerStep, ReconcileItem, Get, UpdateProject,
      UpdateWorkflow, UpdateResource, CreateWorkflow, CommitUpdate, Refuse, Cancel,
      ReconcileList, ReconcileWrite, ReconcileSkip, ReconcileRaced, ReconcileError, Crash,
      vars, storeVars
<1> QED
  BY <1>7 DEF Committed

(* A create in flight was in flight before, or has just found its Project. *)
LEMMA CreateSource ==
    ASSUME TypeOK, [Next]_vars, NEW s \in Sessions, call'[s] # NoCall, call'[s].op = "create"
    PROVE  \/ call'[s] = call[s]
           \/ call'[s].key \in WorkflowKeys /\ Present(ProjectKey(call'[s].key.project))
<1> DEFINE Source ==
      \/ call'[s] = call[s]
      \/ call'[s].key \in WorkflowKeys /\ Present(ProjectKey(call'[s].key.project))
<1>1. ASSUME UNCHANGED call
      PROVE  Source
  BY <1>1
<1>2. ASSUME NEW t \in Sessions, NEW spec, NEW status, UpdateResource(t, spec, status)
      PROVE  Source
  <2>1. CASE t = s
    BY <1>2, <2>1 DEF UpdateResource, TypeOK
  <2>2. CASE t # s
    BY <1>2, <2>2 DEF UpdateResource, TypeOK
  <2> QED
    BY <2>1, <2>2
<1>3. ASSUME NEW t \in Sessions, NEW w \in WorkflowKeys, NEW spec, CreateWorkflow(t, w, spec)
      PROVE  Source
  <2>1. CASE t = s
    BY <1>3, <2>1 DEF CreateWorkflow, TypeOK
  <2>2. CASE t # s
    BY <1>3, <2>2 DEF CreateWorkflow, TypeOK
  <2> QED
    BY <2>1, <2>2
<1>4. ASSUME NEW t \in Sessions, Finish(t)
      PROVE  Source
  BY <1>4 DEF Finish, TypeOK
<1>5. ASSUME Crash
      PROVE  Source
  BY <1>5 DEF Crash
<1> HIDE DEF Source
<1>6. Source
  BY <1>1, <1>2, <1>3, <1>4, <1>5
  DEF Next, SessionStep, ProjectStep, WorkflowStep, GetProject, GetWorkflow, DeleteStep,
      DeleteProject, DeleteWorkflow, ReconcilerStep, ReconcileItem, Get, CreateProject,
      UpdateProject, UpdateWorkflow, CommitCreate, CommitUpdate, Refuse, Cancel,
      DeleteResource, ReconcileList, ReconcileWrite, ReconcileSkip, ReconcileRaced,
      ReconcileError, vars, serverVars
<1> QED
  BY <1>6 DEF Source

(* A Workflow in the table has, or had, the Project its creation found.    *)
THEOREM WorkflowsHadProjects == Spec => []WorkflowHadProject
<1> DEFINE Inv == TypeOK /\ WorkflowHadProject /\ CreatesHadProject
<1>1. Init => Inv
  <2> SUFFICES ASSUME Init
               PROVE  Inv
    OBVIOUS
  <2>1. TypeOK
    BY DEF Init, TypeOK, Nothing
  <2> QED
    BY <2>1, WorkflowKeysAreKeys
    DEF Init, WorkflowHadProject, CreatesHadProject, Present, InFlight, Idle
<1>2. ASSUME Inv, [Next]_vars
      PROVE  Inv'
  <2>1. TypeOK /\ TypeOK'
    BY <1>2, TypeStep
  <2>2. ASSUME NEW w \in WorkflowKeys, HadProject(w)
        PROVE  rows'[ProjectKey(w.project)] # NoRow \/ ProjectKey(w.project) \in retired'
    BY <1>2, <2>1, <2>2, DeletionsAreRetired, OwnersHaveKeys DEF HadProject, Keys
  <2>3. ASSUME NEW w \in WorkflowKeys, rows'[w] # NoRow
        PROVE  HadProject(w)
    <3>1. CASE Present(w)
      BY <1>2, <3>1 DEF WorkflowHadProject, HadProject
    <3>2. CASE ~Present(w)
      BY <1>2, <2>1, <2>3, <3>2, WorkflowsAreCommitted DEF CreatesHadProject
    <3> QED
      BY <3>1, <3>2
  <2>4. WorkflowHadProject'
    BY <2>2, <2>3 DEF WorkflowHadProject, Present
  <2>5. ASSUME NEW s \in Sessions, call'[s] # NoCall, call'[s].op = "create"
        PROVE  call'[s].key \in WorkflowKeys /\ HadProject(call'[s].key)
    <3>1. CASE call'[s] = call[s]
      BY <1>2, <2>5, <3>1 DEF CreatesHadProject, InFlight, Idle
    <3>2. CASE call'[s].key \in WorkflowKeys /\ Present(ProjectKey(call'[s].key.project))
      BY <3>2 DEF HadProject
    <3> QED
      BY <1>2, <2>1, <2>5, <3>1, <3>2, CreateSource
  <2>6. CreatesHadProject'
    BY <2>2, <2>5 DEF CreatesHadProject, HadProject, InFlight, Idle, Present
  <2> QED
    BY <2>1, <2>4, <2>6
<1>3. Inv => WorkflowHadProject
  OBVIOUS
<1> QED
  BY <1>1, <1>2, <1>3, PTL DEF Spec

-----------------------------------------------------------------------------
(* From here on: when no client creates a deleted name again (ReuseNames = *)
(* FALSE), what the table publishes is true of what it stores, and the     *)
(* control plane implements DesiredState.                                  *)

-----------------------------------------------------------------------------
(* Published statuses. *)

(* A row's status was computed for its generation or an earlier one, and   *)
(* its times are those of writes that have happened.                       *)
Fresh(row) ==
    row.status # NoStatus =>
        /\ row.status.observedGeneration <= row.gen
        /\ \A type \in {"Validated", "Ready"} : row.status[type].at <= row.rv
        /\ row.status.observedGeneration = row.gen => IsVerdict(row.status, row.spec, row.gen)

LEMMA DesiredIsVerdict ==
    ASSUME NEW row \in Row, row.spec \in WorkflowSpecs
    PROVE  IsVerdict(DesiredStatus(row), row.spec, row.gen)
<1>1. row.status \in Status \union {NoStatus} /\ row.gen \in Nat /\ row.rv + 1 \in Nat
  BY DEF Row, Statuses
<1> QED
  BY <1>1, ComputedIsVerdict, PipelineAssumption DEF DesiredStatus

LEMMA DesiredTimes ==
    ASSUME NEW row \in Row, NEW type \in {"Validated", "Ready"}
    PROVE  DesiredStatus(row)[type].at =
             IF row.status # NoStatus /\ row.status[type].status = DesiredStatus(row)[type].status
             THEN row.status[type].at ELSE row.rv + 1
BY ComputedTimes DEF DesiredStatus

LEMMA EditStaysFresh ==
    ASSUME NEW row \in Row, Fresh(row), NEW spec, NEW status \in {NoStatus, row.status}
    PROVE  Fresh(NewRow(row.uid, row.rv + 1, NextGeneration(row, spec), spec, status))
<1>1. row.gen \in Nat /\ row.rv \in Nat /\ row.status \in Status \union {NoStatus}
  BY DEF Row, Statuses
<1>2. CASE status = NoStatus
  BY <1>2 DEF Fresh, NewRow
<1>3. CASE status # NoStatus
  <2>1. /\ status = row.status
        /\ status.observedGeneration \in Nat /\ status.Validated.at \in Nat /\ status.Ready.at \in Nat
    BY <1>1, <1>3 DEF Status, Condition
  <2>2. CASE spec = row.spec
    BY <1>1, <1>3, <2>1, <2>2 DEF Fresh, NewRow, NextGeneration
  <2>3. CASE spec # row.spec
    BY <1>1, <1>3, <2>1, <2>3 DEF Fresh, NewRow, NextGeneration
  <2> QED
    BY <2>2, <2>3
<1> QED
  BY <1>2, <1>3

LEMMA PublishStaysFresh ==
    ASSUME NEW row \in Row, Fresh(row), row.spec \in WorkflowSpecs
    PROVE  Fresh(NewRow(row.uid, row.rv + 1, row.gen, row.spec, DesiredStatus(row)))
<1>1. row.gen \in Nat /\ row.rv \in Nat /\ row.status \in Status \union {NoStatus}
  BY DEF Row, Statuses
<1>2. IsVerdict(DesiredStatus(row), row.spec, row.gen)
  BY DesiredIsVerdict
<1>3. DesiredStatus(row).observedGeneration = row.gen
  BY <1>2 DEF IsVerdict, Truthful
<1>4. ASSUME NEW type \in {"Validated", "Ready"}
      PROVE  DesiredStatus(row)[type].at <= row.rv + 1
  <2>1. row.status # NoStatus => row.status[type].at \in Nat /\ row.status[type].at <= row.rv
    BY <1>1 DEF Fresh, Status, Condition
  <2> QED
    BY <1>1, <2>1, DesiredTimes
<1> QED
  BY <1>1, <1>2, <1>3, <1>4 DEF Fresh, NewRow

(* A truthful status is the desired one: nothing is left to write. *)
LEMMA SteadyStatus ==
    ASSUME NEW row \in Row, Fresh(row), row.spec \in WorkflowSpecs,
           Truthful(row.status, row.spec, row.gen)
    PROVE  DesiredStatus(row) = row.status
<1>1. row.status \in Status /\ row.gen \in Nat /\ row.rv + 1 \in Nat
  BY DEF Row, Statuses, Truthful
<1>2. IsVerdict(row.status, row.spec, row.gen)
  BY DEF Fresh, Truthful
<1> QED
  BY <1>1, <1>2, VerdictIsKept, PipelineAssumption DEF DesiredStatus

-----------------------------------------------------------------------------
(* The invariant. *)

NamesUsedOnce == \A k \in Keys : Present(k) => k \notin retired

(* A copy is of the life its row is in, or of one that is over for ever. *)
SameOrOver(row, k) == k \in retired \/ (Present(k) /\ rows[k].uid = row.uid)

CopiesOfOneLife ==
    /\ \A s \in Sessions : held[s] # NoRead => SameOrOver(held[s].row, held[s].key)
    /\ \A w \in WorkflowKeys : Pending(w) => SameOrOver(snap[w], w)

(* What a handler that is about to write a Workflow carries. *)
Carries(c, shown) ==
    c.key \in WorkflowKeys =>
        /\ c.spec \in WorkflowSpecs
        /\ c.op = "create" => c.gen = 1 /\ c.status = NoStatus
        /\ c.op = "update" => c.status \in {NoStatus, shown.row.status}

CallsCarryEdits == \A s \in Sessions : ~Idle(s) => Carries(call[s], held[s])

WorkflowsAreFresh ==
    \A w \in WorkflowKeys : Present(w) => rows[w].spec \in WorkflowSpecs /\ Fresh(rows[w])

OneLifeInv ==
    /\ CopiesInv
    /\ NamesUsedOnce
    /\ CopiesOfOneLife
    /\ CallsCarryEdits
    /\ WorkflowsAreFresh

-----------------------------------------------------------------------------
(* What a step does to the table, said of the current rows alone. *)

Inserted(k) ==
    /\ ~Present(k) /\ k \notin retired
    /\ \E spec, gen, status :
          /\ k \in WorkflowKeys => spec \in WorkflowSpecs /\ gen = 1 /\ status = NoStatus
          /\ rows' = [rows EXCEPT ![k] = NewRow(nextUid, initialVersion, gen, spec, status)]
    /\ rows'[k] # NoRow
    /\ retired' = retired

Edited(k) ==
    /\ Present(k)
    /\ \E spec, status :
          /\ k \in WorkflowKeys => spec \in WorkflowSpecs /\ status \in {NoStatus, rows[k].status}
          /\ rows' = [rows EXCEPT ![k] = NewRow(rows[k].uid, rows[k].rv + 1,
                                                NextGeneration(rows[k], spec), spec, status)]
    /\ rows'[k] # NoRow
    /\ retired' = retired

Published(k) ==
    /\ k \in WorkflowKeys
    /\ Present(k)
    /\ rows[k].status # DesiredStatus(rows[k])
    /\ rows' = [rows EXCEPT ![k] = NewRow(rows[k].uid, rows[k].rv + 1, rows[k].gen,
                                          rows[k].spec, DesiredStatus(rows[k]))]
    /\ rows'[k] # NoRow
    /\ retired' = retired

Removed(k) ==
    /\ Present(k)
    /\ rows' = [rows EXCEPT ![k] = NoRow]
    /\ retired' = retired \union {k}

TableStep ==
    \/ UNCHANGED <<rows, retired>>
    \/ \E k \in Keys : Inserted(k) \/ Edited(k) \/ Published(k) \/ Removed(k)

(* A copy whose version matches is the row: there is no other life. *)
LEMMA MatchingCopyIsRow ==
    ASSUME NamesUsedOnce, NEW k \in Keys, NEW c, PastOrPresent(c, k), SameOrOver(c, k),
           VersionMatches(k, c.rv)
    PROVE  c = rows[k]
BY DEF NamesUsedOnce, PastOrPresent, SameOrOver, VersionMatches

LEMMA CommitCreateInserts ==
    ASSUME ReuseNames = FALSE, OneLifeInv, NEW s \in Sessions, CommitCreate(s)
    PROVE  \E k \in Keys : Inserted(k)
<1>1. call[s] \in Call /\ call[s].op = "create" /\ ~Idle(s)
  BY DEF CommitCreate, InFlight, Idle, OneLifeInv, CopiesInv, TypeOK
<1>2. call[s].key \in Keys /\ Carries(call[s], held[s])
  BY <1>1 DEF Call, OneLifeInv, CallsCarryEdits
<1>3. rows'[call[s].key] # NoRow
  BY <1>1, StoreTypes, SentinelAssumption DEF CommitCreate, Call, OneLifeInv, CopiesInv
<1>4. Inserted(call[s].key)
  BY <1>1, <1>2, <1>3 DEF CommitCreate, MayCreate, Create, Carries, Inserted
<1> QED
  BY <1>2, <1>4

LEMMA CommitUpdateEdits ==
    ASSUME OneLifeInv, NEW s \in Sessions, CommitUpdate(s)
    PROVE  \E k \in Keys : Edited(k)
<1> DEFINE k == call[s].key
<1>1. /\ call[s] \in Call /\ call[s].op = "update" /\ ~Idle(s) /\ InFlight(s, "update")
      /\ TypeOK /\ HeldPast /\ CallQuotesHeld /\ NamesUsedOnce
  BY DEF CommitUpdate, InFlight, Idle, OneLifeInv, CopiesInv, TypeOK
<1>2. k \in Keys /\ Carries(call[s], held[s])
  BY <1>1 DEF Call, OneLifeInv, CallsCarryEdits
<1>3. /\ held[s] # NoRead /\ k = held[s].key /\ call[s].rv = held[s].row.rv
      /\ StillShown(s) => call[s].gen = NextGeneration(rows[held[s].key], call[s].spec)
  BY <1>1 DEF CallQuotesHeld
<1>4. VersionMatches(k, held[s].row.rv)
  BY <1>3 DEF CommitUpdate, Update
<1>5. held[s].row = rows[k]
  <2>1. PastOrPresent(held[s].row, k) /\ SameOrOver(held[s].row, k)
    BY <1>1, <1>3 DEF HeldPast, OneLifeInv, CopiesOfOneLife
  <2> QED
    BY <1>1, <1>2, <1>4, <2>1, MatchingCopyIsRow
<1>6. call[s].gen = NextGeneration(rows[k], call[s].spec)
  BY <1>3, <1>4, <1>5 DEF StillShown, VersionMatches
<1>7. rows'[k] # NoRow
  BY <1>1, StoreTypes, SentinelAssumption DEF CommitUpdate, Call
<1>8. Edited(k)
  BY <1>1, <1>2, <1>4, <1>5, <1>6, <1>7 DEF CommitUpdate, Update, VersionMatches, Carries, Edited
<1> QED
  BY <1>2, <1>8

LEMMA ReconcileWritePublishes ==
    ASSUME OneLifeInv, NEW w \in WorkflowKeys, ReconcileWrite(w)
    PROVE  Published(w) /\ snap[w] = rows[w]
<1>1. SnapPast /\ NamesUsedOnce /\ w \in Keys /\ Pending(w)
  BY WorkflowKeysAreKeys DEF OneLifeInv, CopiesInv, ReconcileWrite
<1>2. VersionMatches(w, snap[w].rv)
  BY DEF ReconcileWrite, Update
<1>3. snap[w] = rows[w]
  <2>1. PastOrPresent(snap[w], w) /\ SameOrOver(snap[w], w)
    BY <1>1 DEF SnapPast, OneLifeInv, CopiesOfOneLife
  <2> QED
    BY <1>1, <1>2, <2>1, MatchingCopyIsRow
<1>4. snap[w] \in Row /\ TypeOK
  BY <1>1 DEF OneLifeInv, CopiesInv, TypeOK, Pending
<1>5. rows'[w] # NoRow
  <2>1. snap[w].gen \in Nat \ {0} /\ snap[w].spec \in Specs /\ DesiredStatus(snap[w]) \in Statuses
    BY <1>4, DesiredStatusType DEF Row, Statuses
  <2> QED
    BY <1>1, <1>4, <2>1, StoreTypes, SentinelAssumption DEF ReconcileWrite
<1> QED
  BY <1>2, <1>3, <1>5 DEF ReconcileWrite, Update, VersionMatches, Published

LEMMA TableSteps ==
    ASSUME ReuseNames = FALSE, OneLifeInv, [Next]_vars
    PROVE  TableStep
<1>1. CASE UNCHANGED <<rows, retired>>
  BY <1>1 DEF TableStep
<1>2. ASSUME NEW s \in Sessions, NEW p \in Projects, NEW spec \in ProjectSpecs,
             CreateProject(s, p, spec)
      PROVE  TableStep
  <2>1. ProjectKey(p) \in Keys /\ ProjectKey(p) \notin WorkflowKeys
    BY ProjectKeysAreKeys, KindsAreDisjoint DEF ProjectKeys
  <2>2. rows'[ProjectKey(p)] # NoRow
    BY <1>2, <2>1, StoreTypes, SentinelAssumption
    DEF CreateProject, Specs, Statuses, OneLifeInv, CopiesInv
  <2>3. Inserted(ProjectKey(p))
    BY <1>2, <2>1, <2>2 DEF CreateProject, MayCreate, Create, Inserted
  <2> QED
    BY <2>1, <2>3 DEF TableStep
<1>3. ASSUME NEW s \in Sessions, CommitCreate(s) \/ CommitUpdate(s)
      PROVE  TableStep
  BY <1>3, CommitCreateInserts, CommitUpdateEdits DEF TableStep
<1>4. ASSUME NEW w \in WorkflowKeys, ReconcileWrite(w)
      PROVE  TableStep
  BY <1>4, ReconcileWritePublishes, WorkflowKeysAreKeys DEF TableStep
<1>5. ASSUME NEW k \in Keys, DeleteResource(k)
      PROVE  TableStep
  BY <1>5 DEF DeleteResource, Delete, Removed, TableStep
<1> QED
  BY <1>1, <1>2, <1>3, <1>4, <1>5, WorkflowKeysAreKeys, ProjectKeysAreKeys
  DEF Next, SessionStep, ProjectStep, WorkflowStep, GetProject, GetWorkflow, DeleteStep,
      DeleteProject, DeleteWorkflow, ReconcilerStep, ReconcileItem, Get, UpdateProject,
      UpdateWorkflow, UpdateResource, CreateWorkflow, Refuse, Cancel, ReconcileList,
      ReconcileSkip, ReconcileRaced, ReconcileError, Crash, vars, storeVars

-----------------------------------------------------------------------------
(* The invariant is inductive. *)

(* Any table of the invariant's kind keeps to it, key by key. *)
LEMMA NamesStayUsed ==
    ASSUME OneLifeInv, TableStep, NEW k \in Keys
    PROVE  /\ rows'[k] # NoRow => k \notin retired'
           /\ \A row : SameOrOver(row, k) =>
                 k \in retired' \/ (rows'[k] # NoRow /\ rows'[k].uid = row.uid)
<1> DEFINE Kept == /\ rows'[k] # NoRow => k \notin retired'
                   /\ \A row : SameOrOver(row, k) =>
                         k \in retired' \/ (rows'[k] # NoRow /\ rows'[k].uid = row.uid)
<1>2. DOMAIN rows = Keys /\ (Present(k) => k \notin retired)
  BY DEF OneLifeInv, CopiesInv, TypeOK, NamesUsedOnce
<1>3. CASE UNCHANGED <<rows, retired>>
  BY <1>2, <1>3 DEF SameOrOver, Present
<1>4. ASSUME NEW j \in Keys, Inserted(j)
      PROVE  Kept
  BY <1>2, <1>4 DEF Inserted, SameOrOver, Present
<1>5. ASSUME NEW j \in Keys, Edited(j) \/ Published(j)
      PROVE  Kept
  <2>1. rows'[j] # NoRow /\ rows'[j].uid = rows[j].uid /\ Present(j)
    BY <1>2, <1>5 DEF Edited, Published, NewRow
  <2>2. \A i \in Keys \ {j} : rows'[i] = rows[i]
    BY <1>2, <1>5 DEF Edited, Published
  <2>3. retired' = retired
    BY <1>5 DEF Edited, Published
  <2> QED
    BY <1>2, <1>5, <2>1, <2>2, <2>3 DEF SameOrOver, Present
<1>6. ASSUME NEW j \in Keys, Removed(j)
      PROVE  Kept
  BY <1>2, <1>6 DEF Removed, SameOrOver, Present
<1> QED
  BY <1>3, <1>4, <1>5, <1>6 DEF TableStep

(* A handler in flight was in flight before, or has just read its input. *)
LEMMA EditSource ==
    ASSUME TypeOK, [Next]_vars, NEW s \in Sessions, call'[s] # NoCall
    PROVE  held'[s] = held[s] /\ (call'[s] = call[s] \/ Carries(call'[s], held[s]))
<1> DEFINE Source == held'[s] = held[s] /\ (call'[s] = call[s] \/ Carries(call'[s], held[s]))
<1>1. ASSUME NEW t \in Sessions, NEW k \in Keys, Get(t, k)
      PROVE  Source
  BY <1>1 DEF Get, Idle, serverVars, TypeOK
<1>2. ASSUME NEW t \in Sessions, NEW p \in Projects, NEW spec, CreateProject(t, p, spec)
      PROVE  Source
  BY <1>2 DEF CreateProject, Reply, Idle, serverVars, TypeOK
<1>3. ASSUME NEW t \in Sessions, NEW spec, NEW status, UpdateResource(t, spec, status),
             held[t].key \in WorkflowKeys =>
                 spec \in WorkflowSpecs /\ status \in {NoStatus, held[t].row.status}
      PROVE  Source
  <2>1. /\ held' = held
        /\ call' = [call EXCEPT ![t] =
                      [op |-> "update", key |-> held[t].key, rv |-> held[t].row.rv,
                       gen |-> NextGeneration(rows[held[t].key], spec),
                       spec |-> spec, status |-> status]]
    BY <1>3 DEF UpdateResource
  <2>2. CASE t = s
    <3>1. call'[s].key = held[s].key /\ call'[s].spec = spec /\ call'[s].op = "update"
          /\ call'[s].status = status
      BY <2>1, <2>2 DEF TypeOK
    <3> QED
      BY <1>3, <2>1, <2>2, <3>1 DEF Carries
  <2>3. CASE t # s
    BY <2>1, <2>3 DEF TypeOK
  <2> QED
    BY <2>2, <2>3
<1>4. ASSUME NEW t \in Sessions, NEW w \in WorkflowKeys, NEW spec \in WorkflowSpecs,
             CreateWorkflow(t, w, spec)
      PROVE  Source
  <2>1. CASE t = s
    BY <1>4, <2>1 DEF CreateWorkflow, Carries, TypeOK
  <2>2. CASE t # s
    BY <1>4, <2>2 DEF CreateWorkflow, TypeOK
  <2> QED
    BY <2>1, <2>2
<1>5. ASSUME NEW t \in Sessions, NEW spec, UpdateProject(t, spec)
      PROVE  Source
  BY <1>3, <1>5, KindsAreDisjoint DEF UpdateProject
<1>6. ASSUME NEW t \in Sessions, NEW spec \in WorkflowSpecs, UpdateWorkflow(t, spec)
      PROVE  Source
  BY <1>3, <1>6 DEF UpdateWorkflow
<1>7. ASSUME NEW t \in Sessions, CommitCreate(t) \/ CommitUpdate(t) \/ Refuse(t) \/ Cancel(t)
      PROVE  Source
  BY <1>7 DEF CommitCreate, CommitUpdate, Refuse, Cancel, Reply, Finish, TypeOK
<1>8. ASSUME Crash
      PROVE  Source
  BY <1>8 DEF Crash, TypeOK
<1>9. ASSUME UNCHANGED <<held, call>>
      PROVE  Source
  BY <1>9
<1> HIDE DEF Source
<1>10. ASSUME NEW t \in Sessions, SessionStep(t)
       PROVE  Source
  BY <1>1, <1>2, <1>4, <1>5, <1>6, <1>7, <1>10, WorkflowKeysAreKeys, ProjectKeysAreKeys
  DEF SessionStep, ProjectStep, WorkflowStep, GetProject, GetWorkflow
<1>11. ASSUME DeleteStep \/ ReconcilerStep
       PROVE  Source
  BY <1>9, <1>11
  DEF DeleteStep, DeleteProject, DeleteWorkflow, DeleteResource, ReconcilerStep, ReconcileItem,
      ReconcileList, ReconcileWrite, ReconcileSkip, ReconcileRaced, ReconcileError, serverVars
<1>12. ASSUME UNCHANGED vars
       PROVE  Source
  BY <1>9, <1>12 DEF vars
<1>13. ASSUME Next
       PROVE  Source
  BY <1>8, <1>10, <1>11, <1>13 DEF Next
<1>14. Source
  BY <1>12, <1>13
<1> QED
  BY <1>14 DEF Source

(* What happens to one Workflow in a step. *)
RowStep(w) ==
    \/ rows'[w] = rows[w]
    \/ /\ ~Present(w)
       /\ rows'[w].spec \in WorkflowSpecs
       /\ rows'[w].status = NoStatus
    \/ /\ Present(w)
       /\ \E spec \in WorkflowSpecs, status \in {NoStatus, rows[w].status} :
             rows'[w] = NewRow(rows[w].uid, rows[w].rv + 1, NextGeneration(rows[w], spec),
                               spec, status)
    \/ /\ Present(w)
       /\ rows[w].status # DesiredStatus(rows[w])
       /\ rows'[w] = NewRow(rows[w].uid, rows[w].rv + 1, rows[w].gen, rows[w].spec,
                            DesiredStatus(rows[w]))
    \/ rows'[w] = NoRow

LEMMA RowSteps ==
    ASSUME TypeOK, TableStep, NEW w \in WorkflowKeys
    PROVE  RowStep(w)
<1>1. w \in Keys /\ DOMAIN rows = Keys
  BY WorkflowKeysAreKeys DEF TypeOK
<1>2. CASE UNCHANGED <<rows, retired>>
  BY <1>2 DEF RowStep
<1>3. ASSUME NEW k \in Keys, k # w, Inserted(k) \/ Edited(k) \/ Published(k) \/ Removed(k)
      PROVE  RowStep(w)
  BY <1>1, <1>3 DEF Inserted, Edited, Published, Removed, RowStep
<1>4. CASE Inserted(w)
  BY <1>1, <1>4 DEF Inserted, NewRow, RowStep
<1>5. CASE Edited(w)
  <2>1. PICK spec, status :
           /\ w \in WorkflowKeys => spec \in WorkflowSpecs /\ status \in {NoStatus, rows[w].status}
           /\ rows' = [rows EXCEPT ![w] = NewRow(rows[w].uid, rows[w].rv + 1,
                                                 NextGeneration(rows[w], spec), spec, status)]
    BY <1>5 DEF Edited
  <2> QED
    BY <1>1, <1>5, <2>1 DEF Edited, RowStep
<1>6. CASE Published(w)
  BY <1>1, <1>6 DEF Published, RowStep
<1>7. CASE Removed(w)
  BY <1>1, <1>7 DEF Removed, RowStep
<1> QED
  BY <1>1, <1>2, <1>3, <1>4, <1>5, <1>6, <1>7 DEF TableStep

LEMMA FreshStep ==
    ASSUME OneLifeInv, NEW w \in WorkflowKeys, RowStep(w), rows'[w] # NoRow
    PROVE  rows'[w].spec \in WorkflowSpecs /\ Fresh(rows'[w])
<1> DEFINE row == rows[w]
<1>1. Present(w) => row \in Row /\ row.spec \in WorkflowSpecs /\ Fresh(row)
  BY WorkflowKeysAreKeys DEF OneLifeInv, CopiesInv, TypeOK, Present, WorkflowsAreFresh
<1>2. CASE rows'[w] = rows[w]
  BY <1>1, <1>2 DEF Present
<1>3. CASE rows'[w].spec \in WorkflowSpecs /\ rows'[w].status = NoStatus
  BY <1>3 DEF Fresh
<1>4. ASSUME Present(w), NEW spec \in WorkflowSpecs, NEW status \in {NoStatus, row.status},
             rows'[w] = NewRow(row.uid, row.rv + 1, NextGeneration(row, spec), spec, status)
      PROVE  rows'[w].spec \in WorkflowSpecs /\ Fresh(rows'[w])
  <2>1. Fresh(NewRow(row.uid, row.rv + 1, NextGeneration(row, spec), spec, status))
    BY <1>1, <1>4, EditStaysFresh
  <2> QED
    BY <1>4, <2>1 DEF NewRow
<1>5. ASSUME Present(w),
             rows'[w] = NewRow(row.uid, row.rv + 1, row.gen, row.spec, DesiredStatus(row))
      PROVE  rows'[w].spec \in WorkflowSpecs /\ Fresh(rows'[w])
  <2>1. Fresh(NewRow(row.uid, row.rv + 1, row.gen, row.spec, DesiredStatus(row)))
    BY <1>1, <1>5, PublishStaysFresh
  <2> QED
    BY <1>1, <1>5, <2>1 DEF NewRow
<1> QED
  BY <1>2, <1>3, <1>4, <1>5 DEF RowStep

LEMMA OneLifeInit == Init => OneLifeInv
<1> SUFFICES ASSUME Init PROVE OneLifeInv
  OBVIOUS
<1>1. CopiesInv
  BY CopiesInit
<1> QED
  BY <1>1, WorkflowKeysAreKeys
  DEF Init, Nothing, OneLifeInv, NamesUsedOnce, CopiesOfOneLife, CallsCarryEdits,
      WorkflowsAreFresh, Present, Pending, Idle

LEMMA OneLifeStep ==
    ASSUME ReuseNames = FALSE, OneLifeInv, [Next]_vars
    PROVE  OneLifeInv'
<1>1. CopiesInv' /\ TypeOK /\ TypeOK' /\ TableStep
  BY CopiesStep, TypeStep, TableSteps DEF OneLifeInv, CopiesInv
<1>2. \A k \in Keys :
        /\ rows'[k] # NoRow => k \notin retired'
        /\ \A row : SameOrOver(row, k) =>
              k \in retired' \/ (rows'[k] # NoRow /\ rows'[k].uid = row.uid)
  BY <1>1, NamesStayUsed
<1>3. NamesUsedOnce'
  BY <1>2 DEF NamesUsedOnce, Present
<1>4. ASSUME NEW s \in Sessions, held'[s] # NoRead
      PROVE  \/ held'[s].key \in retired'
             \/ rows'[held'[s].key] # NoRow /\ rows'[held'[s].key].uid = held'[s].row.uid
  <2>1. CASE held'[s] = held[s]
    <3>1. held[s].key \in Keys /\ SameOrOver(held[s].row, held[s].key)
      BY <1>1, <1>4, <2>1 DEF TypeOK, Held, OneLifeInv, CopiesOfOneLife
    <3> QED
      BY <1>2, <2>1, <3>1
  <2>2. CASE \E k \in Keys : held'[s] = [key |-> k, row |-> rows'[k]] /\ rows'[k] \in Row
    BY <2>2, SentinelAssumption
  <2> QED
    BY <1>1, <2>1, <2>2, HeldSource
<1>5. ASSUME NEW w \in WorkflowKeys, snap'[w] # NoRow
      PROVE  w \in retired' \/ (rows'[w] # NoRow /\ rows'[w].uid = snap'[w].uid)
  <2>1. CASE snap'[w] = snap[w]
    <3>1. SameOrOver(snap[w], w)
      BY <1>5, <2>1 DEF OneLifeInv, CopiesOfOneLife, Pending
    <3> QED
      BY <1>2, <2>1, <3>1, WorkflowKeysAreKeys
  <2>2. CASE snap'[w] = rows'[w]
    BY <1>5, <2>2
  <2> QED
    BY <1>1, <1>5, <2>1, <2>2, SnapSource
<1>6. CopiesOfOneLife'
  BY <1>4, <1>5 DEF CopiesOfOneLife, SameOrOver, Present, Pending
<1>7. ASSUME NEW s \in Sessions, call'[s] # NoCall
      PROVE  Carries(call'[s], held'[s])
  <2>1. held'[s] = held[s] /\ (call'[s] = call[s] \/ Carries(call'[s], held[s]))
    BY <1>1, <1>7, EditSource
  <2>2. CASE call'[s] = call[s]
    BY <1>7, <2>1, <2>2 DEF OneLifeInv, CallsCarryEdits, Idle
  <2> QED
    BY <2>1, <2>2
<1>8. CallsCarryEdits'
  BY <1>7 DEF CallsCarryEdits, Idle, Carries
<1>9. ASSUME NEW w \in WorkflowKeys, rows'[w] # NoRow
      PROVE  rows'[w].spec \in WorkflowSpecs /\ Fresh(rows'[w])
  BY <1>1, <1>9, RowSteps, FreshStep
<1>10. WorkflowsAreFresh'
  BY <1>9 DEF WorkflowsAreFresh, Present, Fresh
<1> QED
  BY <1>1, <1>3, <1>6, <1>8, <1>10 DEF OneLifeInv

LEMMA OneLifeInvariant == ASSUME ReuseNames = FALSE PROVE Spec => []OneLifeInv
<1>1. OneLifeInv /\ [Next]_vars => OneLifeInv'
  BY OneLifeStep
<1> QED
  BY <1>1, OneLifeInit, PTL DEF Spec

-----------------------------------------------------------------------------
(* The theorems. *)

(* A status published for the row's generation tells the truth about the   *)
(* row's spec, whoever wrote the row last: update handlers carry the old   *)
(* status over a changed spec, but only under a higher generation.         *)
THEOREM ReadyIsNeverFalse == ASSUME ReuseNames = FALSE PROVE Spec => []NoFalseReady
<1>1. OneLifeInv => NoFalseReady
  BY DEF OneLifeInv, WorkflowsAreFresh, Fresh, IsVerdict, NoFalseReady
<1> QED
  BY <1>1, OneLifeInvariant, PTL

(* Handlers stamp a generation computed from a row read before their       *)
(* write, the reconciler the one it listed; still the generation of a      *)
(* Workflow moves with its spec and with nothing else.                     *)
LEMMA StepsCountEdits ==
    ASSUME ReuseNames = FALSE, OneLifeInv, [Next]_vars, NEW w \in WorkflowKeys, SameLife(w)
    PROVE  GenerationStep(w)
<1>1. TypeOK /\ Present(w) /\ rows'[w] # NoRow
  BY DEF OneLifeInv, CopiesInv, SameLife
<1>2. rows[w].gen \in Nat
  BY <1>1, WorkflowKeysAreKeys DEF TypeOK, Present, Row
<1>3. RowStep(w)
  BY <1>1, TableSteps, RowSteps
<1>4. CASE rows'[w] = rows[w]
  BY <1>2, <1>4 DEF GenerationStep
<1>5. ASSUME NEW spec \in WorkflowSpecs, NEW status,
             rows'[w] = NewRow(rows[w].uid, rows[w].rv + 1, NextGeneration(rows[w], spec),
                               spec, status)
      PROVE  GenerationStep(w)
  BY <1>2, <1>5 DEF GenerationStep, NewRow, NextGeneration
<1>6. CASE rows'[w] = NewRow(rows[w].uid, rows[w].rv + 1, rows[w].gen, rows[w].spec,
                             DesiredStatus(rows[w]))
  BY <1>2, <1>6 DEF GenerationStep, NewRow
<1> QED
  BY <1>1, <1>3, <1>4, <1>5, <1>6 DEF RowStep

THEOREM GenerationIsTheEditCount ==
    ASSUME ReuseNames = FALSE PROVE Spec => GenerationTracksSpec
<1>1. OneLifeInv /\ [Next]_vars => [\A w \in WorkflowKeys : SameLife(w) => GenerationStep(w)]_vars
  BY StepsCountEdits
<1> QED
  BY <1>1, OneLifeInvariant, PTL DEF Spec, GenerationTracksSpec

(* The reconciler decides to write from a listed copy and writes later;    *)
(* what it overwrites is nevertheless never already right.                 *)
LEMMA WritesAreNeeded ==
    ASSUME OneLifeInv, [Next]_vars, NEW w \in WorkflowKeys, ReconcilerWrites(w)
    PROVE  ~Truthful(rows[w].status, rows[w].spec, rows[w].gen)
<1>1. TypeOK /\ Present(w) /\ w \in Keys
  BY WorkflowKeysAreKeys DEF OneLifeInv, CopiesInv, ReconcilerWrites, SameLife
<1>2. ReconcileWrite(w)
  BY <1>1, WriterIsTheReconciler
<1>3. rows[w].status # DesiredStatus(rows[w])
  BY <1>2, ReconcileWritePublishes DEF Published
<1>4. rows[w] \in Row /\ rows[w].spec \in WorkflowSpecs /\ Fresh(rows[w])
  BY <1>1 DEF TypeOK, Present, OneLifeInv, WorkflowsAreFresh
<1> QED
  BY <1>3, <1>4, SteadyStatus

THEOREM SteadyStateIsLeftAlone == ASSUME ReuseNames = FALSE PROVE Spec => NoChurn
<1>1. OneLifeInv /\ [Next]_vars =>
        [\A w \in WorkflowKeys :
           ReconcilerWrites(w) => ~Truthful(rows[w].status, rows[w].spec, rows[w].gen)]_vars
  BY WritesAreNeeded
<1> QED
  BY <1>1, OneLifeInvariant, PTL DEF Spec, NoChurn

(* The time of a condition moves in a step that flips it, and only then:   *)
(* a write that keeps the state keeps the time it carried over.            *)
LEMMA TimesMoveWithFlips ==
    ASSUME ReuseNames = FALSE, OneLifeInv, [Next]_vars, NEW w \in WorkflowKeys,
           NEW type \in {"Validated", "Ready"},
           SameLife(w), rows[w].status # NoStatus, rows'[w].status # NoStatus
    PROVE  (rows'[w].status[type].at = rows[w].status[type].at)
             <=> (rows'[w].status[type].status = rows[w].status[type].status)
<1> DEFINE Moves == (rows'[w].status[type].at = rows[w].status[type].at)
                      <=> (rows'[w].status[type].status = rows[w].status[type].status)
<1>1. TypeOK /\ Present(w) /\ rows'[w] # NoRow
  BY DEF OneLifeInv, CopiesInv, SameLife
<1>2. rows[w] \in Row /\ Fresh(rows[w])
  BY <1>1, WorkflowKeysAreKeys DEF TypeOK, Present, OneLifeInv, WorkflowsAreFresh
<1>3. RowStep(w)
  BY <1>1, TableSteps, RowSteps
<1>4. CASE rows'[w] = rows[w]
  BY <1>4
<1>5. ASSUME NEW spec, NEW status \in {NoStatus, rows[w].status},
             rows'[w] = NewRow(rows[w].uid, rows[w].rv + 1, NextGeneration(rows[w], spec),
                               spec, status)
      PROVE  Moves
  BY <1>5 DEF NewRow
<1>6. CASE rows'[w] = NewRow(rows[w].uid, rows[w].rv + 1, rows[w].gen, rows[w].spec,
                             DesiredStatus(rows[w]))
  <2>1. rows'[w].status = DesiredStatus(rows[w])
    BY <1>6 DEF NewRow
  <2>2. DesiredStatus(rows[w])[type].at =
          IF rows[w].status[type].status = DesiredStatus(rows[w])[type].status
          THEN rows[w].status[type].at ELSE rows[w].rv + 1
    BY <1>2, DesiredTimes
  <2>3. /\ rows[w].rv \in Nat
        /\ rows[w].status[type].at \in Nat
        /\ rows[w].status[type].at <= rows[w].rv
    BY <1>2 DEF Fresh, Row, Statuses, Status, Condition
  <2> QED
    BY <2>1, <2>2, <2>3
<1> QED
  BY <1>1, <1>3, <1>4, <1>5, <1>6 DEF RowStep

THEOREM TransitionTimesAreFlips == ASSUME ReuseNames = FALSE PROVE Spec => TransitionsAreFlips
<1>1. OneLifeInv /\ [Next]_vars =>
        [\A w \in WorkflowKeys : \A type \in {"Validated", "Ready"} :
           SameLife(w) /\ rows[w].status # NoStatus /\ rows'[w].status # NoStatus =>
             LET old == rows[w].status[type]
                 new == rows'[w].status[type]
             IN  (new.at = old.at) <=> (new.status = old.status)]_vars
  BY TimesMoveWithFlips
<1> QED
  BY <1>1, OneLifeInvariant, PTL DEF Spec, TransitionsAreFlips

-----------------------------------------------------------------------------
(* The refinement. *)

(* The object of DesiredState that a row stands for. *)
VerdictOf(status) ==
    IF status = NoStatus THEN Desired!Unpublished
    ELSE Desired!VerdictOn(status.observedGeneration, status.Ready.status)

ObjectOf(row) == Desired!Live(row.gen, row.spec, VerdictOf(row.status))

(* What becomes of an object of DesiredState whose row a step replaced. *)
LEMMA ObjectSteps ==
    ASSUME TypeOK, TypeOK', NEW k \in Keys, \A j \in Keys \ {k} : rows'[j] = rows[j],
           retired' = retired \/ retired' = retired \union {k}
    PROVE  /\ k \notin WorkflowKeys => objOf' = objOf
           /\ k \in WorkflowKeys => objOf' = [objOf EXCEPT ![k] = objOf'[k]]
<1>1. WorkflowKeys \subseteq Keys
  BY WorkflowKeysAreKeys
<1>2. /\ DOMAIN objOf = WorkflowKeys /\ DOMAIN (objOf') = WorkflowKeys
      /\ \A w \in WorkflowKeys \ {k} : objOf'[w] = objOf[w]
  BY <1>1 DEF objOf, Present
<1>3. objOf = [w \in WorkflowKeys |-> objOf[w]] /\ objOf' = [w \in WorkflowKeys |-> objOf'[w]]
  BY DEF objOf
<1> HIDE DEF objOf
<1> QED
  BY <1>2, <1>3

LEMMA TableStepIsDesired ==
    ASSUME OneLifeInv, TypeOK', TableStep
    PROVE  [Desired!DSNext]_objOf
<1>1. /\ TypeOK /\ NamesUsedOnce /\ WorkflowsAreFresh
      /\ WorkflowKeys \subseteq Keys /\ DOMAIN rows = Keys
  BY WorkflowKeysAreKeys DEF OneLifeInv, CopiesInv, TypeOK
<1>2. CASE UNCHANGED <<rows, retired>>
  BY <1>2 DEF objOf, Present
<1>3. ASSUME NEW k \in Keys, Inserted(k) \/ Edited(k) \/ Published(k) \/ Removed(k)
      PROVE  /\ k \notin WorkflowKeys => objOf' = objOf
             /\ k \in WorkflowKeys => objOf' = [objOf EXCEPT ![k] = objOf'[k]]
  <2>1. \A j \in Keys \ {k} : rows'[j] = rows[j]
    BY <1>1, <1>3 DEF Inserted, Edited, Published, Removed
  <2>2. retired' = retired \/ retired' = retired \union {k}
    BY <1>3 DEF Inserted, Edited, Published, Removed
  <2> QED
    BY <1>1, <2>1, <2>2, ObjectSteps
<1>4. ASSUME NEW w \in WorkflowKeys
      PROVE  /\ Present(w) => objOf[w] = ObjectOf(rows[w])
             /\ ~Present(w) /\ w \notin retired => objOf[w] = Desired!Absent
             /\ rows'[w] # NoRow => objOf'[w] = ObjectOf(rows'[w])
             /\ rows'[w] = NoRow /\ w \in retired' => objOf'[w] = Desired!Gone
  BY DEF objOf, Present, ObjectOf, VerdictOf, Desired!Live, Desired!Unpublished, Desired!VerdictOn,
         Desired!Absent, Desired!Gone
<1>5. ASSUME NEW w \in WorkflowKeys, Inserted(w)
      PROVE  Desired!Announce(w)
  <2>1. PICK spec \in WorkflowSpecs :
           rows' = [rows EXCEPT ![w] = NewRow(nextUid, initialVersion, 1, spec, NoStatus)]
    BY <1>5 DEF Inserted
  <2>2. rows'[w].gen = 1 /\ rows'[w].spec = spec /\ rows'[w].status = NoStatus
    BY <1>1, <2>1 DEF NewRow
  <2>3. objOf'[w] = Desired!Live(1, spec, Desired!Unpublished)
    BY <1>4, <1>5, <2>2 DEF Inserted, ObjectOf, VerdictOf
  <2>4. objOf[w] = Desired!Absent
    BY <1>4, <1>5 DEF Inserted
  <2>5. objOf' = [objOf EXCEPT ![w] = Desired!Live(1, spec, Desired!Unpublished)]
    BY <1>1, <1>3, <1>5, <2>3
  <2> QED
    BY <2>4, <2>5 DEF Desired!Announce, Specs
<1>6. ASSUME NEW w \in WorkflowKeys, Edited(w)
      PROVE  Desired!Edit(w)
  <2>1. PICK spec \in WorkflowSpecs, status \in {NoStatus, rows[w].status} :
           rows' = [rows EXCEPT ![w] = NewRow(rows[w].uid, rows[w].rv + 1,
                                              NextGeneration(rows[w], spec), spec, status)]
    BY <1>6 DEF Edited
  <2>2. /\ rows'[w].gen = (IF spec = rows[w].spec THEN rows[w].gen ELSE rows[w].gen + 1)
        /\ rows'[w].spec = spec /\ rows'[w].status = status
    BY <1>1, <2>1 DEF NewRow, NextGeneration
  <2>3. Present(w) /\ rows'[w] # NoRow
    BY <1>6 DEF Edited
  <2>4. /\ objOf[w].phase = "live" /\ objOf[w].gen = rows[w].gen /\ objOf[w].spec = rows[w].spec
        /\ objOf'[w].verdict \in {Desired!Unpublished, objOf[w].verdict}
    <3>1. objOf[w] = ObjectOf(rows[w]) /\ objOf'[w] = ObjectOf(rows'[w])
      BY <1>4, <2>3
    <3>2. objOf'[w].verdict = VerdictOf(status) /\ objOf[w].verdict = VerdictOf(rows[w].status)
      BY <2>2, <3>1 DEF ObjectOf, Desired!Live
    <3> QED
      BY <3>1, <3>2 DEF ObjectOf, Desired!Live, VerdictOf
  <2>5. objOf'[w] = Desired!Live(IF spec = objOf[w].spec THEN objOf[w].gen ELSE objOf[w].gen + 1,
                                 spec, objOf'[w].verdict)
    <3>1. objOf'[w] = ObjectOf(rows'[w])
      BY <1>4, <2>3
    <3> QED
      BY <2>2, <2>4, <3>1 DEF ObjectOf, Desired!Live
  <2>6. objOf' = [objOf EXCEPT ![w] = objOf'[w]] /\ w \in DOMAIN objOf
    BY <1>1, <1>3, <1>6 DEF objOf
  <2> HIDE DEF objOf
  <2>7. objOf' = [objOf EXCEPT ![w] =
                    Desired!Live(IF spec = @.spec THEN @.gen ELSE @.gen + 1,
                                 spec, objOf'[w].verdict)]
    BY <2>5, <2>6
  <2> QED
    BY <2>4, <2>7 DEF Desired!Edit, Specs
<1>7. ASSUME NEW w \in WorkflowKeys, Published(w)
      PROVE  Desired!Publish(w)
  <2>1. /\ Present(w) /\ rows'[w] # NoRow
        /\ rows'[w].gen = rows[w].gen /\ rows'[w].spec = rows[w].spec
        /\ rows'[w].status = DesiredStatus(rows[w])
    BY <1>1, <1>7 DEF Published, NewRow
  <2>2. rows[w] \in Row /\ rows[w].spec \in WorkflowSpecs
    BY <1>1, <2>1 DEF TypeOK, Present, WorkflowsAreFresh
  <2>3. IsVerdict(DesiredStatus(rows[w]), rows[w].spec, rows[w].gen)
    BY <2>2, DesiredIsVerdict
  <2>4. /\ DesiredStatus(rows[w]) # NoStatus
        /\ DesiredStatus(rows[w]).observedGeneration = rows[w].gen
        /\ DesiredStatus(rows[w]).Ready.status = Runnable(rows[w].spec)
    BY <2>3 DEF IsVerdict, Truthful
  <2>5. Runnable(rows[w].spec) = Desired!Runnable(rows[w].spec)
    BY DEF Runnable, Desired!Runnable
  <2>6. /\ objOf[w].phase = "live" /\ objOf[w].gen = rows[w].gen /\ objOf[w].spec = rows[w].spec
    <3>1. objOf[w] = ObjectOf(rows[w])
      BY <1>4, <2>1
    <3> QED
      BY <3>1 DEF ObjectOf, Desired!Live
  <2>7. objOf'[w] = [objOf[w] EXCEPT !.verdict =
                       Desired!VerdictOn(objOf[w].gen, Desired!Runnable(objOf[w].spec))]
    <3>1. objOf[w] = ObjectOf(rows[w]) /\ objOf'[w] = ObjectOf(rows'[w])
      BY <1>4, <2>1
    <3>2. VerdictOf(rows'[w].status) = Desired!VerdictOn(rows[w].gen, Desired!Runnable(rows[w].spec))
      BY <2>1, <2>4, <2>5 DEF VerdictOf
    <3>3. objOf'[w] = Desired!Live(rows[w].gen, rows[w].spec, VerdictOf(rows'[w].status))
      BY <2>1, <3>1 DEF ObjectOf
    <3> QED
      BY <2>6, <3>1, <3>2, <3>3 DEF ObjectOf, Desired!Live
  <2>8. objOf' = [objOf EXCEPT ![w] = objOf'[w]] /\ w \in DOMAIN objOf
    BY <1>1, <1>3, <1>7 DEF objOf
  <2> HIDE DEF objOf
  <2>9. objOf' = [objOf EXCEPT ![w].verdict =
                    Desired!VerdictOn(objOf[w].gen, Desired!Runnable(objOf[w].spec))]
    BY <2>7, <2>8
  <2> QED
    BY <2>6, <2>9 DEF Desired!Publish
<1>8. ASSUME NEW w \in WorkflowKeys, Removed(w)
      PROVE  Desired!Remove(w)
  <2>1. Present(w) /\ rows'[w] = NoRow /\ w \in retired'
    BY <1>1, <1>8 DEF Removed
  <2>2. objOf[w].phase = "live" /\ objOf'[w] = Desired!Gone
    <3>1. objOf[w] = ObjectOf(rows[w]) /\ objOf'[w] = Desired!Gone
      BY <1>4, <2>1
    <3> QED
      BY <3>1 DEF ObjectOf, Desired!Live
  <2>3. objOf' = [objOf EXCEPT ![w] = Desired!Gone]
    BY <1>1, <1>3, <1>8, <2>2
  <2> QED
    BY <2>2, <2>3 DEF Desired!Remove
<1>9. ASSUME NEW k \in Keys, Inserted(k) \/ Edited(k) \/ Published(k) \/ Removed(k)
      PROVE  [Desired!DSNext]_objOf
  <2>1. CASE k \notin WorkflowKeys
    BY <1>3, <1>9, <2>1
  <2>2. CASE k \in WorkflowKeys
    BY <1>5, <1>6, <1>7, <1>8, <1>9, <2>2 DEF Desired!DSNext
  <2> QED
    BY <2>1, <2>2
<1> QED
  BY <1>2, <1>9 DEF TableStep

(* Through the versions, the copies clients and reconciler work from, the  *)
(* lost answers and the crashes, every Workflow goes through a history of  *)
(* atomic creations, edits, verdicts and deletions.                        *)
THEOREM ControlPlaneIsDesiredState ==
    ASSUME ReuseNames = FALSE PROVE Spec => ImplementsDesiredState
<1>1. Init => Desired!DSInit
  BY WorkflowKeysAreKeys DEF Init, Present, objOf, Desired!DSInit, Desired!Absent
<1>2. OneLifeInv /\ [Next]_vars => [Desired!DSNext]_objOf
  <2> SUFFICES ASSUME OneLifeInv, [Next]_vars
               PROVE  [Desired!DSNext]_objOf
    OBVIOUS
  <2>1. TableStep /\ TypeOK'
    BY TableSteps, TypeStep DEF OneLifeInv, CopiesInv
  <2> QED
    BY <2>1, TableStepIsDesired
<1> QED
  BY <1>1, <1>2, OneLifeInvariant, PTL DEF Spec, ImplementsDesiredState, Desired!DSSpec
=============================================================================
