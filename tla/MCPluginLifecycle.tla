-------------------------- MODULE MCPluginLifecycle --------------------------
(* A small instance of PluginLifecycle: a plugin p with up to two          *)
(* generations and a plugin q with one.                                    *)
EXTENDS PluginLifecycle, TLC

CONSTANTS p, q, p1, p2, q1, r1, r2, m1, m2

MCPluginOf == [g \in Gens |-> IF g \in {p1, p2} THEN p ELSE q]

(* Two creates of MCP sessions; r2 is of interest to p only.               *)
MCMatching == [r \in Requests |-> IF r = r1 THEN Plugins ELSE {p}]

MCTarget == [m \in Mutations |-> IF m = m1 THEN p ELSE q]
=============================================================================
