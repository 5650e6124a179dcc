----------------------------- MODULE MCPluginCalls -----------------------------
(* Instances of PluginCalls for TLC. *)
EXTENDS PluginCalls
=============================================================================
