---------------------------- MODULE MCLifecycle -----------------------------
(***************************************************************************)
(* Constants for checking Lifecycle: one runnable spec and one that is not *)
(* for Workflows, one spec for Projects.                                   *)
(***************************************************************************)
EXTENDS Lifecycle, TLC

Good == [goal |-> "ship", pipeline |-> <<"plan">>]
Bad == [goal |-> "ship", pipeline |-> <<>>]

MCWorkflowSpecs == {Good, Bad}
MCProjectSpecs == {[displayName |-> "Apollo"]}
=============================================================================
