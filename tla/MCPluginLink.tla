---------------------------- MODULE MCPluginLink ----------------------------
(* PluginLink with one change of the positions.                              *)
EXTENDS PluginLink

MCMaxChange == [pos |-> 1, ord |-> 0]
=============================================================================
