-------------------------- MODULE MCPluginProcess ---------------------------
(***************************************************************************)
(* PluginProcess for TLC; the constants are numbers.                       *)
(***************************************************************************)
EXTENDS PluginProcess

=============================================================================
