------------------------------ MODULE MCApply -------------------------------
(***************************************************************************)
(* Two files with the same Project and the same Workflow, which one of     *)
(* them wants runnable and the other not.                                  *)
(***************************************************************************)
EXTENDS Apply

Good == [goal |-> "ship", pipeline |-> <<"plan">>]
Bad == [goal |-> "ship", pipeline |-> <<>>]
Apollo == [displayName |-> "Apollo"]

MCWorkflowSpecs == {Good, Bad}
MCProjectSpecs == {Apollo}

File(spec) == <<[key |-> ProjectKey("p"), spec |-> Apollo],
                [key |-> WorkflowKey("p", "w"), spec |-> spec]>>

MCSessions == {"team", "edit"}
MCManifest == [c \in MCSessions |-> File(IF c = "team" THEN Good ELSE Bad)]
=============================================================================
