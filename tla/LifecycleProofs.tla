-------------------------- MODULE LifecycleProofs ---------------------------
(***************************************************************************)
(* Theorems about Lifecycle for any clients, names, specs and bounds.      *)
(***************************************************************************)
EXTENDS Lifecycle, ControlPlaneProofs

-----------------------------------------------------------------------------
(* The invariants. *)

(* GracefulStop has answered everybody, and nothing is accepted after it. *)
ClosedIsDrained == phase = "closed" => \A s \in Sessions : Idle(s)

UpInv == UpTypeOK /\ ClosedIsDrained

(* A handler that is not there takes no step. *)
LEMMA OnlyHandlersStep ==
    ASSUME NEW s \in Sessions, HandlerStep(s)
    PROVE  ~Idle(s) /\ call' = [call EXCEPT ![s] = NoCall] /\ UNCHANGED <<snap, lifecycleVars>>
BY DEF HandlerStep, CommitCreate, CommitUpdate, Refuse, Cancel, Finish, InFlight

(* The invariants are inductive together. *)
LEMMA UpInvStep ==
    ASSUME UpInv, [UpNext]_upVars
    PROVE  UpInv'
<1> USE DEF UpInv, UpTypeOK, ClosedIsDrained, Phases, Enter, Idle, vars, lifecycleVars
<1>1. CASE Start
  BY <1>1 DEF Start
<1>2. CASE Accept
  BY <1>2 DEF Accept
<1>3. CASE Resync
  BY <1>3 DEF Resync
<1>4. ASSUME NEW s \in Sessions, HandlerStep(s)
      PROVE  UpInv'
  BY <1>4, OnlyHandlersStep
<1>5. ASSUME NEW s \in Sessions, OpenStream(s) \/ CloseStream(s)
      PROVE  UpInv'
  BY <1>5 DEF OpenStream, CloseStream
<1>6. CASE Signal
  BY <1>6 DEF Signal
<1>7. CASE LateWrite
  BY <1>7 DEF LateWrite
<1>8. CASE CloseStore
  BY <1>8 DEF CloseStore, Drained
<1>9. CASE ServeFails \/ AbandonStore
  BY <1>9 DEF ServeFails, AbandonStore
<1>10. CASE Exit \/ Die
  BY <1>10 DEF Exit, Die, Gone, Crash
<1>11. CASE UNCHANGED upVars
  BY <1>11 DEF upVars
<1> QED
  BY <1>1, <1>2, <1>3, <1>4, <1>5, <1>6, <1>7, <1>8, <1>9, <1>10, <1>11 DEF UpNext

LEMMA UpInvInit == UpInit => UpInv
BY DEF UpInit, Init, UpInv, UpTypeOK, ClosedIsDrained, Phases, Idle, Nothing

LEMMA UpInvariant == UpSpec => []UpInv
BY UpInvInit, UpInvStep, PTL DEF UpSpec

(* Whatever way a process ends, the next one starts with no call, no       *)
(* stream and nothing listed, and a late write-back is one of a Workflow.  *)
THEOREM UpTypeCorrect == UpSpec => []UpTypeOK
<1>1. UpInv => UpTypeOK
  BY DEF UpInv
<1> QED
  BY <1>1, UpInvariant, PTL

-----------------------------------------------------------------------------
(* The refinement. *)

(* Every step of the process is a step of the control plane or none of its *)
(* business: the late write-back is one the reconciler could have made,    *)
(* and every way the process can end is a Crash to it.                     *)
LEMMA UpStepIsNext ==
    ASSUME UpInv, [UpNext]_upVars
    PROVE  [Next]_vars
<1> USE DEF vars
<1>0. late \subseteq WorkflowKeys
  BY DEF UpInv, UpTypeOK
<1>1. CASE Start
  BY <1>1 DEF Start
<1>2. CASE Accept
  BY <1>2 DEF Accept, Next, SessionStep
<1>3. CASE Resync
  BY <1>3 DEF Resync, Next
<1>4. CASE \E s \in Sessions : HandlerStep(s)
  BY <1>4 DEF HandlerStep, Next, SessionStep
<1>5. CASE \E s \in Sessions : OpenStream(s) \/ CloseStream(s)
  BY <1>5 DEF OpenStream, CloseStream
<1>6. CASE Signal
  BY <1>6 DEF Signal
<1>7. CASE LateWrite
  BY <1>0, <1>7 DEF LateWrite, Next, ReconcilerStep, ReconcileItem
<1>8. CASE CloseStore
  BY <1>8 DEF CloseStore
<1>9. CASE ServeFails \/ AbandonStore
  BY <1>9 DEF ServeFails, AbandonStore
<1>10. CASE Exit \/ Die
  BY <1>10 DEF Exit, Die, Gone, Next
<1>11. CASE UNCHANGED upVars
  BY <1>11 DEF upVars
<1> QED
  BY <1>1, <1>2, <1>3, <1>4, <1>5, <1>6, <1>7, <1>8, <1>9, <1>10, <1>11 DEF UpNext

(* The process behaves as ControlPlane says through every start, shutdown  *)
(* and kill, so each theorem about Spec holds of "kestrai up".             *)
THEOREM UpIsAControlPlane == UpSpec => ImplementsControlPlane
<1>1. UpInit => Init
  BY DEF UpInit
<1>2. UpInv /\ [UpNext]_upVars => [Next]_vars
  BY UpStepIsNext
<1> QED
  BY <1>1, <1>2, UpInvariant, PTL DEF UpSpec, Spec, ImplementsControlPlane

(* No update is lost across shutdowns and restarts, the late write-back    *)
(* included.                                                               *)
THEOREM UpLosesNoUpdate == UpSpec => NoLostUpdate
BY UpIsAControlPlane, NoUpdateIsLost, PTL DEF ImplementsControlPlane

(* After a signal runUp closes the store only under handlers that are      *)
(* done, however long their clients and other signals interfere.           *)
THEOREM ShutdownCutsNobodyOff == UpSpec => SignalCutsNobodyOff
<1>1. UpInv => [\A s \in Sessions : CutOff(s) => phase # "closed"]_upVars
  BY DEF UpInv, ClosedIsDrained, CutOff
<1> QED
  BY <1>1, UpInvariant, PTL DEF SignalCutsNobodyOff
=============================================================================
