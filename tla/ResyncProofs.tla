---------------------------- MODULE ResyncProofs -----------------------------
(***************************************************************************)
(* Theorems about Resync for any specs, edits and times: every status the  *)
(* reconciler leaves behind is the verdict on the spec of its generation,  *)
(* dated by the last flip.                                                 *)
(***************************************************************************)
EXTENDS Resync, WorkflowStatusProofs, TLAPS

ResyncTypes ==
    /\ spec \in Specs
    /\ generation \in Nat
    /\ clock \in Nat
    /\ status \in Status \union {NoStatus}

(* The two conditions never disagree, and are as old as the last flip. *)
ConditionsAgree ==
    status # NoStatus =>
        /\ status.Validated.status = status.Ready.status
        /\ status.Validated.at = flipped
        /\ status.Ready.at = flipped

(* Between an edit and the next resync the status is of an older           *)
(* generation: a status is never compared with a spec it was not made for. *)
StatusIsVerdict ==
    status # NoStatus =>
        /\ status.observedGeneration <= generation
        /\ status.observedGeneration = generation => IsVerdict(status, spec, generation)

ResyncInv == ResyncTypes /\ ConditionsAgree /\ StatusIsVerdict

LEMMA ResyncStep ==
    ASSUME ResyncInv, [Next]_vars
    PROVE  ResyncInv'
<1> USE DEF ResyncInv
<1>1. ASSUME NEW new \in Specs, Edit(new)
      PROVE  ResyncInv'
  <2>1. ResyncTypes' /\ ConditionsAgree'
    BY <1>1 DEF Edit, ResyncTypes, ConditionsAgree
  <2>2. StatusIsVerdict'
    <3>1. status # NoStatus => status.observedGeneration \in Nat
      BY DEF ResyncTypes, Status
    <3> QED
      BY <1>1, <3>1 DEF Edit, ResyncTypes, StatusIsVerdict
  <2> QED
    BY <2>1, <2>2
<1>2. CASE Tick
  BY <1>2 DEF Tick, ResyncTypes, ConditionsAgree, StatusIsVerdict
<1>3. CASE Reconcile
  <2>1. desired \in Status /\ IsVerdict(desired, spec, generation)
    BY ComputedStatusType, ComputedIsVerdict, ResyncSpecs DEF ResyncTypes, desired
  <2>2. ASSUME NEW type \in {"Validated", "Ready"}
        PROVE  desired[type].at =
                 IF status # NoStatus /\ status[type].status = desired[type].status
                 THEN status[type].at ELSE clock
    BY ComputedTimes DEF desired
  <2>3. /\ desired.Validated.status = desired.Ready.status
        /\ desired.observedGeneration = generation
    BY <2>1 DEF IsVerdict, Truthful
  <2>4. /\ status' = desired /\ spec' = spec /\ generation' = generation /\ clock' = clock
        /\ flipped' = IF status # NoStatus /\ status.Ready.status = desired.Ready.status
                      THEN flipped ELSE clock
    BY <1>3 DEF Reconcile
  <2>5. ResyncTypes'
    BY <2>1, <2>4 DEF ResyncTypes
  <2>6. ConditionsAgree'
    BY <2>2, <2>3, <2>4 DEF ConditionsAgree
  <2>7. StatusIsVerdict'
    BY <2>1, <2>3, <2>4 DEF StatusIsVerdict, ResyncTypes, IsVerdict, Truthful
  <2> QED
    BY <2>5, <2>6, <2>7
<1>4. CASE UNCHANGED vars
  BY <1>4 DEF vars, ResyncTypes, ConditionsAgree, StatusIsVerdict, IsVerdict, Truthful
<1> QED
  BY <1>1, <1>2, <1>3, <1>4 DEF Next

LEMMA ResyncInvariant == Spec => []ResyncInv
<1>1. Init => ResyncInv
  BY DEF Init, ResyncInv, ResyncTypes, ConditionsAgree, StatusIsVerdict
<1>2. ResyncInv /\ [Next]_vars => ResyncInv'
  BY ResyncStep
<1> QED
  BY <1>1, <1>2, PTL DEF Spec

(* Ready says what the spec deserves, for every shape of spec and every    *)
(* order of edits and resyncs (computeWorkflowStatus).                     *)
THEOREM VerdictsAreTruthful == Spec => []VerdictIsTruthful
<1>1. ResyncInv => VerdictIsTruthful
  BY DEF ResyncInv, StatusIsVerdict, IsVerdict, VerdictIsTruthful
<1> QED
  BY <1>1, ResyncInvariant, PTL

(* The reason is the most important defect of the spec: the order in which *)
(* validateWorkflowSpec looks hides none that comes before it.             *)
LEMMA ReasonNamesFirstDefect ==
    ASSUME NEW s, s # NoSpec => s.pipeline \in Seq(STRING)
    PROVE  \/ /\ validateWorkflowSpec(s) = "SpecValid"
              /\ \A i \in DOMAIN Defects : ~Has(s, Defects[i])
           \/ \E i \in DOMAIN Defects :
                 /\ validateWorkflowSpec(s) = Defects[i]
                 /\ Has(s, Defects[i])
                 /\ \A j \in 1 .. i - 1 : ~Has(s, Defects[j])
<1>1. /\ DOMAIN Defects = 1 .. 4
      /\ Defects[1] = "MissingSpec" /\ Defects[2] = "MissingGoal"
      /\ Defects[3] = "EmptyPipeline" /\ Defects[4] = "UnnamedPhase"
  BY DEF Defects
<1>2. s # NoSpec =>
        /\ (s.pipeline = <<>>) <=> (Len(s.pipeline) = 0)
        /\ DOMAIN s.pipeline = 1 .. Len(s.pipeline)
  OBVIOUS
<1>3. /\ Has(s, Defects[1]) <=> s = NoSpec
      /\ Has(s, Defects[2]) <=> s # NoSpec /\ s.goal = ""
      /\ Has(s, Defects[3]) <=> s # NoSpec /\ s.pipeline = <<>>
      /\ Has(s, Defects[4]) <=> s # NoSpec /\ \E i \in DOMAIN s.pipeline : s.pipeline[i] = ""
  BY <1>1, <1>2 DEF Has
<1> HIDE DEF Defects
<1>4. CASE s = NoSpec
  <2>1. validateWorkflowSpec(s) = Defects[1] /\ Has(s, Defects[1])
    BY <1>1, <1>3, <1>4 DEF validateWorkflowSpec
  <2> QED
    BY <1>1, <2>1
<1>5. CASE s # NoSpec /\ s.goal = ""
  <2>1. validateWorkflowSpec(s) = Defects[2] /\ Has(s, Defects[2]) /\ ~Has(s, Defects[1])
    BY <1>1, <1>3, <1>5 DEF validateWorkflowSpec
  <2> QED
    BY <1>1, <2>1
<1>6. CASE s # NoSpec /\ s.goal # "" /\ s.pipeline = <<>>
  <2>1. /\ validateWorkflowSpec(s) = Defects[3] /\ Has(s, Defects[3])
        /\ ~Has(s, Defects[1]) /\ ~Has(s, Defects[2])
    BY <1>1, <1>3, <1>6 DEF validateWorkflowSpec
  <2>2. \A j \in 1 .. 3 - 1 : j = 1 \/ j = 2
    OBVIOUS
  <2> QED
    BY <1>1, <2>1, <2>2
<1>7. CASE /\ s # NoSpec /\ s.goal # "" /\ s.pipeline # <<>>
           /\ \E i \in DOMAIN s.pipeline : s.pipeline[i] = ""
  <2>1. /\ validateWorkflowSpec(s) = Defects[4] /\ Has(s, Defects[4])
        /\ ~Has(s, Defects[1]) /\ ~Has(s, Defects[2]) /\ ~Has(s, Defects[3])
    BY <1>1, <1>3, <1>7 DEF validateWorkflowSpec
  <2>2. \A j \in 1 .. 4 - 1 : j = 1 \/ j = 2 \/ j = 3
    OBVIOUS
  <2> QED
    BY <1>1, <2>1, <2>2
<1>8. CASE /\ s # NoSpec /\ s.goal # "" /\ s.pipeline # <<>>
           /\ ~(\E i \in DOMAIN s.pipeline : s.pipeline[i] = "")
  <2>1. /\ validateWorkflowSpec(s) = "SpecValid"
        /\ ~Has(s, Defects[1]) /\ ~Has(s, Defects[2])
        /\ ~Has(s, Defects[3]) /\ ~Has(s, Defects[4])
    BY <1>3, <1>8 DEF validateWorkflowSpec
  <2>2. \A i \in 1 .. 4 : i = 1 \/ i = 2 \/ i = 3 \/ i = 4
    OBVIOUS
  <2> QED
    BY <1>1, <2>1, <2>2
<1> QED
  BY <1>4, <1>5, <1>6, <1>7, <1>8

THEOREM ReasonsAreFirstDefects == Spec => []ReasonIsFirstDefect
<1>1. ResyncInv => ReasonIsFirstDefect
  BY ReasonNamesFirstDefect, ResyncSpecs
  DEF ResyncInv, ResyncTypes, StatusIsVerdict, IsVerdict, ReasonIsFirstDefect
<1> QED
  BY <1>1, ResyncInvariant, PTL

(* Both conditions carry the time of the last flip, over any number of     *)
(* edits and resyncs in between (condition).                               *)
THEOREM TimesAreThoseOfFlips == Spec => []TimesAreFlipTimes
<1>1. ResyncInv => TimesAreFlipTimes
  BY DEF ResyncInv, ConditionsAgree, TimesAreFlipTimes
<1> QED
  BY <1>1, ResyncInvariant, PTL

(* A resync after a resync finds nothing to write, however late it comes   *)
(* (the proto.Equal of reconcileWorkflow).                                 *)
THEOREM ResyncsSettle == Spec => []SteadyStateIsFixpoint
<1>1. ResyncInv => SteadyStateIsFixpoint
  <2> SUFFICES ASSUME ResyncInv, status # NoStatus, status.observedGeneration = generation,
                      NEW later \in clock .. MaxClock
               PROVE  computeWorkflowStatus(spec, status, generation, later) = status
    BY DEF SteadyStateIsFixpoint
  <2>1. later \in Nat /\ status \in Status /\ IsVerdict(status, spec, generation)
    BY ResyncBounds DEF ResyncInv, ResyncTypes, StatusIsVerdict
  <2> QED
    BY <2>1, VerdictIsKept, ResyncSpecs DEF ResyncInv, ResyncTypes
<1> QED
  BY <1>1, ResyncInvariant, PTL
=============================================================================
