------------------------------ MODULE MCResync -------------------------------
(***************************************************************************)
(* Every spec with a goal set or not and up to two phases, named or not.   *)
(***************************************************************************)
EXTENDS Resync

Pipelines == UNION {[1 .. n -> {"", "plan"}] : n \in 0 .. 2}
MCSpecs == {NoSpec} \union {[goal |-> g, pipeline |-> p] : g \in {"", "ship"}, p \in Pipelines}
=============================================================================
