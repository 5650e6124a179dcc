--------------------------- MODULE MCPluginSwitches ---------------------------
(* Instances of PluginSwitches for TLC. *)
EXTENDS PluginSwitches, TLC

\* Calls and jobs are interchangeable; the run has no liveness property.
Symmetry == Permutations(Calls) \cup Permutations(Jobs)
=============================================================================
