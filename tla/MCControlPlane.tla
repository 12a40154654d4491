--------------------------- MODULE MCControlPlane ----------------------------
(***************************************************************************)
(* Constants for checking ControlPlane: one runnable spec and one that is  *)
(* not for Workflows, one spec for Projects.                              *)
(***************************************************************************)
EXTENDS ControlPlane, TLC

Good == [goal |-> "ship", pipeline |-> <<"plan">>]
Bad == [goal |-> "ship", pipeline |-> <<>>]

MCWorkflowSpecs == {Good, Bad}
MCProjectSpecs == {[displayName |-> "Apollo"]}

ClientSymmetry == Permutations(Sessions)
=============================================================================
