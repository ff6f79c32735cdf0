---------------------------- MODULE MCGeneration ----------------------------
(* Small instances of Generation.                                          *)
EXTENDS Generation, TLC

CONSTANTS k1, s1, r1, r2, r3, i1, t1, t2, t3, t4, c1, c2, b1, b2

MCKeyLimit == k1 :> 2
MCScopesLimit == k1 :> 2
MCKind == k1 :> "total"
MCEstimate == (c1 :> 1) @@ (c2 :> 2)

(* r1 and r2 share an idempotency key and a body; r3 has none.             *)
MCIdemScope == [r \in Requests |-> IF r = r3 THEN NoIdem ELSE i1]
MCBody == [r \in Requests |-> b1]

(* r2 sends another body under r1's key.                                   *)
MCBodies == [r \in Requests |-> IF r = r2 THEN b2 ELSE b1]

MCKeyOf == [r \in Requests |-> k1]
MCBudgetScope == [r \in Requests |-> IF r = r3 THEN NoScope ELSE s1]
MCClientLimit == [r \in Requests |-> NoLimit]
MCOffer == [r \in Requests |-> {c1, c2}]

TaskSymmetry == Permutations(Tasks)
=============================================================================
