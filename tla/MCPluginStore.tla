---------------------------- MODULE MCPluginStore ----------------------------
(* Two requests on one plugin, two commits and two edits of its package,   *)
(* and one death of the process.                                           *)
EXTENDS PluginStore

CONSTANTS c1, c2, off, on
=============================================================================
