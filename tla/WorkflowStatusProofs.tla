------------------------ MODULE WorkflowStatusProofs -------------------------
(***************************************************************************)
(* What the reconciler's status functions return, for any spec, stored     *)
(* status, generation and time: the lemmas the proofs about ControlPlane   *)
(* and Resync share.                                                       *)
(***************************************************************************)
EXTENDS WorkflowStatus, TLAPS

(* What computeWorkflowStatus returns is a Status. *)
LEMMA ComputedStatusType ==
    ASSUME NEW spec, NEW prev \in Status \union {NoStatus}, NEW generation \in Nat, NEW now \in Nat
    PROVE  computeWorkflowStatus(spec, prev, generation, now) \in Status
<1>1. validateWorkflowSpec(spec) \in Reasons
  BY DEF validateWorkflowSpec, Reasons
<1>2. ASSUME NEW type \in {"Validated", "Ready"}, NEW ok \in BOOLEAN, NEW reason \in Reasons
      PROVE  condition(prev, type, ok, reason, generation, now) \in Condition
  BY DEF condition, Condition, Status
<1>3. {"WorkflowReady", "ValidationFailed"} \subseteq Reasons
  BY DEF Reasons
<1> QED
  BY <1>1, <1>2, <1>3 DEF computeWorkflowStatus, Status

(* A spec validates exactly when it is runnable. *)
LEMMA ValidMeansRunnable ==
    ASSUME NEW spec,
           spec # NoSpec => spec.pipeline \in Seq(STRING)
    PROVE  (validateWorkflowSpec(spec) = "SpecValid") = Runnable(spec)
<1>1. CASE spec = NoSpec
  BY <1>1 DEF validateWorkflowSpec, Runnable
<1>2. CASE spec # NoSpec
  <2>1. (spec.pipeline = <<>>) <=> ~(Len(spec.pipeline) > 0)
    BY <1>2
  <2>2. DOMAIN spec.pipeline = 1 .. Len(spec.pipeline)
    BY <1>2
  <2>3. (validateWorkflowSpec(spec) = "SpecValid") <=> Runnable(spec)
    BY <1>2, <2>1, <2>2 DEF validateWorkflowSpec, Runnable
  <2> QED
    BY <2>3 DEF Runnable
<1> QED
  BY <1>1, <1>2

(* status is what the reconciler computes for (spec, generation), apart    *)
(* from the transition times.                                              *)
IsVerdict(status, spec, generation) ==
    LET reason == validateWorkflowSpec(spec)
    IN  /\ Truthful(status, spec, generation)
        /\ status.Validated.reason = reason
        /\ status.Ready.reason = IF reason = "SpecValid" THEN "WorkflowReady" ELSE "ValidationFailed"

LEMMA ComputedIsVerdict ==
    ASSUME NEW spec, spec # NoSpec => spec.pipeline \in Seq(STRING),
           NEW prev \in Status \union {NoStatus}, NEW generation \in Nat, NEW now \in Nat
    PROVE  IsVerdict(computeWorkflowStatus(spec, prev, generation, now), spec, generation)
<1> DEFINE new == computeWorkflowStatus(spec, prev, generation, now)
<1>1. new # NoStatus
  BY ComputedStatusType, NoStatusAssumption
<1>2. (validateWorkflowSpec(spec) = "SpecValid") = Runnable(spec)
  BY ValidMeansRunnable
<1>3. /\ new.observedGeneration = generation
      /\ \A type \in {"Validated", "Ready"} :
            /\ new[type].status = (validateWorkflowSpec(spec) = "SpecValid")
            /\ new[type].observedGeneration = generation
  BY DEF computeWorkflowStatus, condition
<1>4. /\ new.Validated.reason = validateWorkflowSpec(spec)
      /\ new.Ready.reason =
            IF validateWorkflowSpec(spec) = "SpecValid" THEN "WorkflowReady" ELSE "ValidationFailed"
  BY DEF computeWorkflowStatus, condition
<1> QED
  BY <1>1, <1>2, <1>3, <1>4 DEF IsVerdict, Truthful

(* A condition keeps its time exactly when it keeps its state. *)
LEMMA ComputedTimes ==
    ASSUME NEW spec, NEW prev, NEW generation, NEW now, NEW type \in {"Validated", "Ready"}
    PROVE  computeWorkflowStatus(spec, prev, generation, now)[type].at =
             IF prev # NoStatus
                  /\ prev[type].status = computeWorkflowStatus(spec, prev, generation, now)[type].status
             THEN prev[type].at ELSE now
BY DEF computeWorkflowStatus, condition

(* A verdict is recomputed as it stands, at any time: nothing is left to   *)
(* write.                                                                  *)
LEMMA VerdictIsKept ==
    ASSUME NEW spec, spec # NoSpec => spec.pipeline \in Seq(STRING),
           NEW old \in Status, NEW generation \in Nat, NEW now \in Nat,
           IsVerdict(old, spec, generation)
    PROVE  computeWorkflowStatus(spec, old, generation, now) = old
<1> DEFINE new == computeWorkflowStatus(spec, old, generation, now)
<1>1. new \in Status /\ old # NoStatus
  BY ComputedStatusType, NoStatusAssumption
<1>2. IsVerdict(new, spec, generation)
  BY ComputedIsVerdict
<1>3. ASSUME NEW type \in {"Validated", "Ready"}
      PROVE  new[type].at =
               IF old # NoStatus /\ old[type].status = new[type].status THEN old[type].at ELSE now
  BY ComputedTimes
<1> HIDE DEF new
<1>4. ASSUME NEW type \in {"Validated", "Ready"}
      PROVE  /\ new[type].status = old[type].status
             /\ new[type].reason = old[type].reason
             /\ new[type].observedGeneration = old[type].observedGeneration
  BY <1>2 DEF IsVerdict, Truthful
<1>5. ASSUME NEW type \in {"Validated", "Ready"}
      PROVE  new[type] = old[type]
  <2>1. new[type] \in Condition /\ old[type] \in Condition
    BY <1>1 DEF Status
  <2> QED
    BY <1>1, <1>3, <1>4, <2>1 DEF Condition
<1>6. new.observedGeneration = old.observedGeneration
  BY <1>2 DEF IsVerdict, Truthful
<1>7. new = old
  BY <1>1, <1>5, <1>6 DEF Status
<1> QED
  BY <1>7 DEF new
=============================================================================
