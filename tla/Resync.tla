------------------------------- MODULE Resync --------------------------------
(***************************************************************************)
(* One Workflow under the reconciler alone: its spec is edited and it is   *)
(* resynced in any order, with a clock.  Where ControlPlane is about the   *)
(* races around a status, this module is about its content: every shape of *)
(* spec, every order of flips, against a history of what the conditions    *)
(* really were.                                                            *)
(***************************************************************************)
EXTENDS WorkflowStatus

CONSTANTS
    Specs,          \* the specs the Workflow may have
    MaxGeneration,  \* bound: edits
    MaxClock        \* bound: ticks of the clock

VARIABLES
    spec,           \* the stored spec
    generation,     \* its generation
    status,         \* the stored status
    clock,          \* what timestamppb.Now() returns
    flipped         \* history: when the published verdict last changed, 0 if never

vars == <<spec, generation, status, clock, flipped>>

ASSUME ResyncBounds == MaxGeneration \in Nat /\ MaxClock \in Nat
ASSUME ResyncSpecs == \A s \in Specs : s # NoSpec => s.pipeline \in Seq(STRING)

Init ==
    /\ spec \in Specs
    /\ generation = 1
    /\ status = NoStatus
    /\ clock = 1
    /\ flipped = 0

Edit(new) ==
    /\ generation < MaxGeneration
    /\ new # spec
    /\ spec' = new
    /\ generation' = generation + 1
    /\ UNCHANGED <<status, clock, flipped>>

Tick ==
    /\ clock < MaxClock
    /\ clock' = clock + 1
    /\ UNCHANGED <<spec, generation, status, flipped>>

desired == computeWorkflowStatus(spec, status, generation, clock)

(* reconcileWorkflow; an equal status is not written, which leaves the     *)
(* same status.                                                            *)
Reconcile ==
    /\ status' = desired
    /\ flipped' = IF status # NoStatus /\ status.Ready.status = desired.Ready.status
                  THEN flipped ELSE clock
    /\ UNCHANGED <<spec, generation, clock>>

Next == (\E new \in Specs : Edit(new)) \/ Tick \/ Reconcile

Spec == Init /\ [][Next]_vars

-----------------------------------------------------------------------------
(* Properties. *)

(* The defects a spec can have, most important first, each on its own. *)
Defects == <<"MissingSpec", "MissingGoal", "EmptyPipeline", "UnnamedPhase">>

Has(s, defect) ==
    CASE defect = "MissingSpec" -> s = NoSpec
      [] defect = "MissingGoal" -> s # NoSpec /\ s.goal = ""
      [] defect = "EmptyPipeline" -> s # NoSpec /\ Len(s.pipeline) = 0
      [] defect = "UnnamedPhase" -> s # NoSpec /\ \E i \in 1 .. Len(s.pipeline) : s.pipeline[i] = ""

(* The reason a status gives for its generation names a defect the spec    *)
(* has and none more important, and no defect is found where there is none *)
(* (validateWorkflowSpec against the meaning of "runnable").               *)
ReasonIsFirstDefect ==
    status # NoStatus /\ status.observedGeneration = generation =>
        \/ /\ status.Validated.reason = "SpecValid"
           /\ \A i \in DOMAIN Defects : ~Has(spec, Defects[i])
        \/ \E i \in DOMAIN Defects :
              /\ status.Validated.reason = Defects[i]
              /\ Has(spec, Defects[i])
              /\ \A j \in 1 .. i - 1 : ~Has(spec, Defects[j])

(* Ready says what the spec deserves, for every shape of spec.             *)
VerdictIsTruthful ==
    status # NoStatus /\ status.observedGeneration = generation =>
        Truthful(status, spec, generation)

(* Both conditions carry the time of the last change of the verdict, over  *)
(* any number of edits and resyncs in between.                             *)
TimesAreFlipTimes ==
    status # NoStatus =>
        /\ status.Validated.at = flipped
        /\ status.Ready.at = flipped

(* A reconciled status is left alone at any later time: the comparison of  *)
(* reconcileWorkflow finds nothing to write until the spec is edited.      *)
SteadyStateIsFixpoint ==
    status # NoStatus /\ status.observedGeneration = generation =>
        \A later \in clock .. MaxClock :
            computeWorkflowStatus(spec, status, generation, later) = status
=============================================================================
