--------------------------- MODULE WorkflowStatus ---------------------------
(***************************************************************************)
(* The status a Workflow should have: the pure functions of                *)
(* internal/reconciler/reconciler.go that validate a spec, build the       *)
(* conditions and decide whether a stored status is already the desired    *)
(* one.  Nothing here has state; ControlPlane composes these operators     *)
(* with the store and the API.                                             *)
(*                                                                         *)
(* A spec is NoSpec (the nil message) or a record with a goal and a        *)
(* pipeline of phase names; "" is the empty string proto3 gives an unset   *)
(* field.  The two conditions of a status are the fields Validated and     *)
(* Ready.  A condition's message is a function of the Validated reason and *)
(* the run counters are never written, so neither is represented.          *)
(***************************************************************************)
EXTENDS Naturals, Sequences

CONSTANTS
    NoSpec,     \* the nil WorkflowSpec
    NoStatus    \* the nil WorkflowStatus: the reconciler has not published yet

Reasons == {"MissingSpec", "MissingGoal", "EmptyPipeline", "UnnamedPhase",
            "SpecValid", "WorkflowReady", "ValidationFailed"}

Condition == [status : BOOLEAN, reason : Reasons, at : Nat, observedGeneration : Nat]

Status == [observedGeneration : Nat, Validated : Condition, Ready : Condition]

ASSUME NoStatusAssumption == NoStatus \notin Status

-----------------------------------------------------------------------------
(* Mutant: only the first phase's name is looked at. *)
validateWorkflowSpec_FirstPhase(spec) ==
    IF spec = NoSpec THEN "MissingSpec"
    ELSE IF spec.goal = "" THEN "MissingGoal"
    ELSE IF spec.pipeline = <<>> THEN "EmptyPipeline"
    ELSE IF spec.pipeline[1] = "" THEN "UnnamedPhase"
    ELSE "SpecValid"

(* Mutant: an empty pipeline is reported before a missing goal. *)
validateWorkflowSpec_PipelineFirst(spec) ==
    IF spec = NoSpec THEN "MissingSpec"
    ELSE IF spec.pipeline = <<>> THEN "EmptyPipeline"
    ELSE IF spec.goal = "" THEN "MissingGoal"
    ELSE IF \E i \in DOMAIN spec.pipeline : spec.pipeline[i] = "" THEN "UnnamedPhase"
    ELSE "SpecValid"

(* The first defect of a spec, in the order the code looks for them. *)
validateWorkflowSpec(spec) ==
    IF spec = NoSpec THEN "MissingSpec"
    ELSE IF spec.goal = "" THEN "MissingGoal"
    ELSE IF spec.pipeline = <<>> THEN "EmptyPipeline"
    ELSE IF \E i \in DOMAIN spec.pipeline : spec.pipeline[i] = "" THEN "UnnamedPhase"
    ELSE "SpecValid"

(* Mutant: every reconcile stamps the current time. *)
condition_AlwaysNow(prev, type, ok, reason, generation, now) ==
    [status |-> ok, reason |-> reason, at |-> now, observedGeneration |-> generation]

(* Mutant: the first transition time is never moved again. *)
condition_FirstTime(prev, type, ok, reason, generation, now) ==
    [ status |-> ok, reason |-> reason,
      at |-> IF prev # NoStatus THEN prev[type].at ELSE now,
      observedGeneration |-> generation ]

(* findCondition looks the prior condition up by type and finds nothing in *)
(* a nil status; the transition time is carried over unless the boolean    *)
(* state of the condition flips.                                           *)
condition(prev, type, ok, reason, generation, now) ==
    [ status |-> ok,
      reason |-> reason,
      at |-> IF prev # NoStatus /\ prev[type].status = ok THEN prev[type].at ELSE now,
      observedGeneration |-> generation ]

computeWorkflowStatus(spec, prev, generation, now) ==
    LET reason == validateWorkflowSpec(spec)
        valid == reason = "SpecValid"
    IN  [ observedGeneration |-> generation,
          Validated |-> condition(prev, "Validated", valid, reason, generation, now),
          Ready |-> condition(prev, "Ready", valid,
                              IF valid THEN "WorkflowReady" ELSE "ValidationFailed",
                              generation, now) ]

-----------------------------------------------------------------------------
(* What "runnable" means, said without the code's order of tests: a spec   *)
(* with a goal and a non-empty pipeline all of whose phases have a name.   *)
Runnable(spec) ==
    /\ spec # NoSpec
    /\ spec.goal # ""
    /\ Len(spec.pipeline) > 0
    /\ \A i \in 1 .. Len(spec.pipeline) : spec.pipeline[i] # ""

(* A status tells the truth about (spec, generation) when it was computed  *)
(* for that generation and both conditions say whether the spec is         *)
(* runnable.                                                               *)
Truthful(status, spec, generation) ==
    /\ status # NoStatus
    /\ status.observedGeneration = generation
    /\ \A type \in {"Validated", "Ready"} :
          /\ status[type].status = Runnable(spec)
          /\ status[type].observedGeneration = generation
=============================================================================
