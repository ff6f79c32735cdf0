---------------------------- MODULE MCCostLedger ----------------------------
(* A small instance of CostLedger: one key with a daily budget, one client *)
(* scope, two task ids.                                                    *)
EXTENDS CostLedger, TLC

CONSTANTS k1, s1, t1, t2

MCKeyLimit1 == (k1 :> 2)
MCScopesLimit1 == (k1 :> 2)
MCDayKind1 == (k1 :> "day")
MCAmounts == {1, 2, Unpriced}
MCCosts == {-1, 1, 3}
MCClientLimits == {NoLimit, 1, 3}
=============================================================================
