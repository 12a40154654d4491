---------------------------- MODULE DesiredState -----------------------------
(***************************************************************************)
(* What the control plane promises about Workflows, without versions,      *)
(* sessions, snapshots or failures: every operation is one atomic step on  *)
(* the current object.  A user creates a Workflow, edits its desired state *)
(* and deletes it; the control plane publishes a verdict on the desired    *)
(* state it has seen.  ControlPlane is shown to implement it when clients  *)
(* do not create a deleted name again.                                     *)
(***************************************************************************)
EXTENDS WorkflowStatus

CONSTANTS
    WorkflowKeys,   \* the Workflows
    Specs           \* the desired states users may ask for

VARIABLE
    obj             \* obj[w]: an Object

Unpublished == [published |-> FALSE]

VerdictOn(gen, ready) == [published |-> TRUE, gen |-> gen, ready |-> ready]

(* The lives of an object: not created yet, live, deleted. *)
Absent == [phase |-> "absent"]
Gone == [phase |-> "gone"]
Live(gen, spec, verdict) ==
    [phase |-> "live", gen |-> gen, spec |-> spec, verdict |-> verdict]

DSInit == obj = [w \in WorkflowKeys |-> Absent]

(* A new object starts at generation 1 without a verdict. *)
Announce(w) ==
    /\ obj[w] = Absent
    /\ \E spec \in Specs : obj' = [obj EXCEPT ![w] = Live(1, spec, Unpublished)]

(* An edit: the generation counts the changes of the desired state, and    *)
(* the verdict is kept or withdrawn, never invented.                       *)
Edit(w) ==
    /\ obj[w].phase = "live"
    /\ \E spec \in Specs, verdict \in {Unpublished, obj[w].verdict} :
          obj' = [obj EXCEPT ![w] =
                    Live(IF spec = @.spec THEN @.gen ELSE @.gen + 1, spec, verdict)]

(* The control plane publishes the verdict on what is desired now and      *)
(* touches nothing else.                                                   *)
Publish(w) ==
    /\ obj[w].phase = "live"
    /\ obj' = [obj EXCEPT ![w].verdict = VerdictOn(obj[w].gen, Runnable(obj[w].spec))]

Remove(w) ==
    /\ obj[w].phase = "live"
    /\ obj' = [obj EXCEPT ![w] = Gone]

DSNext == \E w \in WorkflowKeys : Announce(w) \/ Edit(w) \/ Publish(w) \/ Remove(w)

DSSpec == DSInit /\ [][DSNext]_obj
=============================================================================
