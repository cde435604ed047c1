--------------------------- MODULE MCPluginManager --------------------------
(* PluginManager on small instances. *)
EXTENDS PluginManager, TLC

Symmetry == Permutations(Callers) \cup Permutations(Plugins)
=============================================================================
