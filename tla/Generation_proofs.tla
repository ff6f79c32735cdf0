-------------------------- MODULE Generation_proofs --------------------------
(***************************************************************************)
(* Theorems about CostLedger and about Generation, which extends it.       *)
(*                                                                         *)
(* The ledger's hold for every number of keys, scopes, tasks and days and  *)
(* for every limit, estimate and cost; the creates' for any requests,      *)
(* idempotency scopes, candidates, budgets and any number of tasks, when   *)
(* providers do not reuse the ids of their tasks.                          *)
(***************************************************************************)
EXTENDS Generation, SequenceTheorems, FiniteSetTheorems, TLAPS

-----------------------------------------------------------------------------
(* The reserved amounts.                                                   *)

(* The units of finitely many holds are finite.                            *)
LEMMA UnitsFinite ==
    ASSUME NEW hs, NEW H, IsFiniteSet(H), \A h \in H : hs[h].amount \in Nat
    PROVE  IsFiniteSet(Units(hs, H)) /\ Held(hs, H) \in Nat
<1> DEFINE f == [h \in H |-> {h} \X (1 .. hs[h].amount)]
           T == {{h} \X (1 .. hs[h].amount) : h \in H}
<1>1. f \in Surjection(H, T)
    BY DEF Surjection
<1>2. IsFiniteSet(T)
    BY <1>1, FS_Surjection
<1>3. ASSUME NEW h \in H
      PROVE  IsFiniteSet({h} \X (1 .. hs[h].amount))
    <2>1. IsFiniteSet({h})
        BY FS_Singleton
    <2>2. IsFiniteSet(1 .. hs[h].amount)
        BY FS_Interval
    <2> QED
        BY <2>1, <2>2, FS_Product
<1>4. \A U \in T : IsFiniteSet(U)
    BY <1>3
<1>5. IsFiniteSet(UNION T)
    BY <1>2, <1>4, FS_UNION
<1> QED
    BY <1>5, FS_CardinalityType DEF Held, Units

(* A hold of n units has n units.                                          *)
LEMMA UnitsOfOne ==
    ASSUME NEW x, NEW n \in Nat
    PROVE  /\ IsFiniteSet({x} \X (1 .. n))
           /\ Cardinality({x} \X (1 .. n)) = n
<1>1. IsFiniteSet({x}) /\ Cardinality({x}) = 1
    BY FS_Singleton
<1>2. IsFiniteSet(1 .. n) /\ Cardinality(1 .. n) = n
    BY FS_Interval
<1>3. /\ IsFiniteSet({x} \X (1 .. n))
      /\ Cardinality({x} \X (1 .. n)) = Cardinality({x}) * Cardinality(1 .. n)
    BY <1>1, <1>2, FS_Product
<1> QED
    BY <1>1, <1>2, <1>3

(* Disjoint finite sets add up.                                            *)
LEMMA DisjointUnion ==
    ASSUME NEW S, NEW T, IsFiniteSet(S), IsFiniteSet(T), S \cap T = {}
    PROVE  Cardinality(S \cup T) = Cardinality(S) + Cardinality(T)
<1>1. Cardinality(S \cup T)
          = Cardinality(S) + Cardinality(T) - Cardinality(S \cap T)
    BY FS_Union
<1>2. Cardinality(S \cap T) = 0
    BY FS_EmptySet
<1>3. Cardinality(S) \in Nat /\ Cardinality(T) \in Nat
    BY FS_CardinalityType
<1> QED
    BY <1>1, <1>2, <1>3

(* One more hold reserves its amount more.                                 *)
LEMMA HeldOneMore ==
    ASSUME NEW hs, NEW H, NEW x, IsFiniteSet(H), x \notin H,
           \A h \in H : hs[h].amount \in Nat,
           NEW n \in Nat, hs[x].amount = n
    PROVE  Held(hs, H \cup {x}) = Held(hs, H) + n
<1>1. Units(hs, H \cup {x}) = Units(hs, H) \cup ({x} \X (1 .. n))
    BY DEF Units
<1>2. Units(hs, H) \cap ({x} \X (1 .. n)) = {}
    BY DEF Units
<1>3. IsFiniteSet(Units(hs, H))
    BY UnitsFinite
<1>4. /\ IsFiniteSet({x} \X (1 .. n))
      /\ Cardinality({x} \X (1 .. n)) = n
    BY UnitsOfOne
<1>5. Cardinality(Units(hs, H) \cup ({x} \X (1 .. n)))
          = Cardinality(Units(hs, H)) + Cardinality({x} \X (1 .. n))
    BY <1>2, <1>3, <1>4, DisjointUnion
<1> QED
    BY <1>1, <1>4, <1>5 DEF Held

(* Only the amounts of the holds matter.                                   *)
LEMMA HeldSame ==
    ASSUME NEW hs, NEW gs, NEW H, \A h \in H : gs[h].amount = hs[h].amount
    PROVE  Held(gs, H) = Held(hs, H)
<1>1. Units(gs, H) = Units(hs, H)
    BY DEF Units
<1> QED
    BY <1>1 DEF Held

(* No holds reserve nothing.                                               *)
LEMMA HeldNone ==
    ASSUME NEW hs
    PROVE  Held(hs, {}) = 0
<1>1. Units(hs, {}) = {}
    BY DEF Units
<1> QED
    BY <1>1, FS_EmptySet DEF Held

-----------------------------------------------------------------------------
(* What the operations do to a table of holds and to the amounts reserved. *)

(* A table has finitely many holds, of natural amounts.                    *)
LEMMA TableFinite ==
    ASSUME NEW hs, IsTable(hs), NEW G \in SUBSET DOMAIN hs
    PROVE  /\ IsFiniteSet(G)
           /\ \A h \in G : hs[h].amount \in Nat
           /\ Held(hs, G) \in Nat
<1>1. IsFiniteSet(1 .. MaxHolds)
    BY ClockAssumption, FS_Interval
<1>2. G \in SUBSET (1 .. MaxHolds)
    BY DEF IsTable
<1>3. IsFiniteSet(G)
    BY <1>1, <1>2, FS_Subset
<1>4. \A h \in G : hs[h].amount \in Nat
    BY DEF IsTable, HoldType
<1> QED
    BY <1>3, <1>4, UnitsFinite

(* The reserved amounts are natural numbers.                               *)
LEMMA ReservedType ==
    ASSUME NEW hs, IsTable(hs), NEW k, NEW x
    PROVE  KeyReserved(hs, k, x) \in Nat /\ ScopeReserved(hs, k, x) \in Nat
<1>1. /\ KeyHolds(hs, k, x) \in SUBSET DOMAIN hs
      /\ ScopeHolds(hs, k, x) \in SUBSET DOMAIN hs
    BY DEF KeyHolds, ScopeHolds
<1> QED
    BY <1>1, TableFinite DEF KeyReserved, ScopeReserved

(* Adding a hold to a table.                                               *)
LEMMA PutHeld ==
    ASSUME NEW hs, IsTable(hs), NEW id \in (1 .. MaxHolds) \ DOMAIN hs,
           NEW rec \in HoldType, NEW G \in SUBSET DOMAIN hs
    PROVE  /\ IsTable(Put(hs, id, rec))
           /\ Held(Put(hs, id, rec), G) = Held(hs, G)
           /\ Held(Put(hs, id, rec), G \cup {id}) = Held(hs, G) + rec.amount
<1> DEFINE gs == Put(hs, id, rec)
<1>1. IsTable(gs)
    BY DEF IsTable, Put
<1>2. \A h \in G : gs[h].amount = hs[h].amount
    BY DEF Put
<1>3. gs[id].amount = rec.amount /\ rec.amount \in Nat
    BY DEF Put, HoldType
<1>4. /\ IsFiniteSet(G)
      /\ \A h \in G : hs[h].amount \in Nat
    BY TableFinite
<1>5. \A h \in G : gs[h].amount \in Nat
    BY <1>2, <1>4
<1>6. id \notin G
    OBVIOUS
<1> HIDE DEF gs
<1>7. Held(gs, G) = Held(hs, G)
    BY <1>2, HeldSame
<1>8. Held(gs, G \cup {id}) = Held(gs, G) + rec.amount
    BY <1>3, <1>4, <1>5, <1>6, HeldOneMore
<1> QED
    BY <1>1, <1>7, <1>8 DEF gs

(* Removing a hold from a table.                                           *)
LEMMA WithoutHeld ==
    ASSUME NEW hs, IsTable(hs), NEW x, NEW G \in SUBSET DOMAIN hs
    PROVE  /\ IsTable(Without(hs, x))
           /\ Held(hs, G) = Held(Without(hs, x), G \ {x})
                              + (IF x \in G THEN hs[x].amount ELSE 0)
<1> DEFINE gs == Without(hs, x)
           F == G \ {x}
<1>1. IsTable(gs)
    BY DEF IsTable, Without, Restrict
<1>2. \A h \in F : gs[h].amount = hs[h].amount
    BY DEF Without, Restrict
<1>3. /\ IsFiniteSet(F)
      /\ \A h \in F : hs[h].amount \in Nat
      /\ Held(hs, F) \in Nat
    BY TableFinite
<1>4. Held(gs, F) = Held(hs, F)
    BY <1>2, HeldSame
<1>5. CASE x \in G
    <2>1. G = F \cup {x} /\ x \notin F
        BY <1>5
    <2>2. hs[x].amount \in Nat
        BY <1>5, TableFinite
    <2> HIDE DEF F, gs
    <2>3. Held(hs, F \cup {x}) = Held(hs, F) + hs[x].amount
        BY <1>3, <2>1, <2>2, HeldOneMore
    <2>4. Held(hs, G) = Held(gs, F) + hs[x].amount
        BY <1>4, <2>1, <2>3
    <2> QED
        BY <1>1, <1>5, <2>4 DEF F, gs
<1>6. CASE x \notin G
    <2>1. G = F
        BY <1>6
    <2> QED
        BY <1>1, <1>3, <1>4, <1>6, <2>1
<1> QED
    BY <1>5, <1>6

(* Naming the task of a hold.                                              *)
LEMMA BindHeld ==
    ASSUME NEW hs, IsTable(hs), NEW x, NEW t \in Tasks,
           NEW G \in SUBSET DOMAIN hs
    PROVE  /\ IsTable([hs EXCEPT ![x].task = t])
           /\ Held([hs EXCEPT ![x].task = t], G) = Held(hs, G)
<1> DEFINE gs == [hs EXCEPT ![x].task = t]
<1>1. IsTable(gs)
    BY DEF IsTable, HoldType
<1>2. \A h \in G : gs[h].amount = hs[h].amount
    BY DEF IsTable, HoldType
<1> HIDE DEF gs
<1>3. Held(gs, G) = Held(hs, G)
    BY <1>2, HeldSame
<1> QED
    BY <1>1, <1>3 DEF gs

(* What a new hold adds to every account.                                  *)
LEMMA PutReserved ==
    ASSUME NEW hs, IsTable(hs), NEW id \in (1 .. MaxHolds) \ DOMAIN hs,
           NEW rec \in HoldType, NEW k, NEW x
    PROVE  /\ KeyReserved(Put(hs, id, rec), k, x) = KeyReserved(hs, k, x)
                 + (IF rec.key = k /\ rec.period = x THEN rec.amount ELSE 0)
           /\ ScopeReserved(Put(hs, id, rec), k, x) = ScopeReserved(hs, k, x)
                 + (IF rec.key = k /\ rec.scope = x THEN rec.amount ELSE 0)
<1> DEFINE gs == Put(hs, id, rec)
           K == KeyHolds(hs, k, x)
           S == ScopeHolds(hs, k, x)
<1>1. /\ KeyHolds(gs, k, x)
             = IF rec.key = k /\ rec.period = x THEN K \cup {id} ELSE K
      /\ ScopeHolds(gs, k, x)
             = IF rec.key = k /\ rec.scope = x THEN S \cup {id} ELSE S
    BY DEF KeyHolds, ScopeHolds, Put
<1>2. K \in SUBSET DOMAIN hs /\ S \in SUBSET DOMAIN hs
    BY DEF KeyHolds, ScopeHolds
<1>3. /\ Held(gs, K) = Held(hs, K)
      /\ Held(gs, K \cup {id}) = Held(hs, K) + rec.amount
      /\ Held(gs, S) = Held(hs, S)
      /\ Held(gs, S \cup {id}) = Held(hs, S) + rec.amount
    BY <1>2, PutHeld
<1>4. Held(hs, K) \in Nat /\ Held(hs, S) \in Nat
    BY <1>2, TableFinite
<1> HIDE DEF gs, K, S
<1>5. /\ Held(gs, KeyHolds(gs, k, x)) = Held(hs, K)
             + (IF rec.key = k /\ rec.period = x THEN rec.amount ELSE 0)
      /\ Held(gs, ScopeHolds(gs, k, x)) = Held(hs, S)
             + (IF rec.key = k /\ rec.scope = x THEN rec.amount ELSE 0)
    BY <1>1, <1>3, <1>4
<1> QED
    BY <1>5 DEF gs, K, S, KeyReserved, ScopeReserved

(* What the end of a hold gives back to every account.                     *)
LEMMA WithoutReserved ==
    ASSUME NEW hs, IsTable(hs), NEW id, NEW k, NEW x
    PROVE  /\ KeyReserved(hs, k, x) = KeyReserved(Without(hs, id), k, x)
                 + (IF id \in KeyHolds(hs, k, x) THEN hs[id].amount ELSE 0)
           /\ ScopeReserved(hs, k, x) = ScopeReserved(Without(hs, id), k, x)
                 + (IF id \in ScopeHolds(hs, k, x) THEN hs[id].amount ELSE 0)
<1>1. /\ KeyHolds(Without(hs, id), k, x) = KeyHolds(hs, k, x) \ {id}
      /\ ScopeHolds(Without(hs, id), k, x) = ScopeHolds(hs, k, x) \ {id}
    BY DEF KeyHolds, ScopeHolds, Without, Restrict
<1>2. /\ KeyHolds(hs, k, x) \in SUBSET DOMAIN hs
      /\ ScopeHolds(hs, k, x) \in SUBSET DOMAIN hs
    BY DEF KeyHolds, ScopeHolds
<1> QED
    BY <1>1, <1>2, WithoutHeld DEF KeyReserved, ScopeReserved

(* Naming a task changes no account.                                       *)
LEMMA BindReserved ==
    ASSUME NEW hs, IsTable(hs), NEW id, NEW t \in Tasks, NEW k, NEW x
    PROVE  /\ KeyReserved([hs EXCEPT ![id].task = t], k, x)
                  = KeyReserved(hs, k, x)
           /\ ScopeReserved([hs EXCEPT ![id].task = t], k, x)
                  = ScopeReserved(hs, k, x)
<1> DEFINE gs == [hs EXCEPT ![id].task = t]
<1>1. DOMAIN gs = DOMAIN hs
    BY DEF IsTable
<1>2. \A h \in DOMAIN hs :
          /\ gs[h].key = hs[h].key
          /\ gs[h].period = hs[h].period
          /\ gs[h].scope = hs[h].scope
    BY DEF IsTable, HoldType
<1> HIDE DEF gs
<1>3. /\ KeyHolds(gs, k, x) = KeyHolds(hs, k, x)
      /\ ScopeHolds(gs, k, x) = ScopeHolds(hs, k, x)
    BY <1>1, <1>2 DEF KeyHolds, ScopeHolds
<1>4. /\ KeyHolds(hs, k, x) \in SUBSET DOMAIN hs
      /\ ScopeHolds(hs, k, x) \in SUBSET DOMAIN hs
    BY DEF KeyHolds, ScopeHolds
<1>5. /\ Held(gs, KeyHolds(hs, k, x)) = Held(hs, KeyHolds(hs, k, x))
      /\ Held(gs, ScopeHolds(hs, k, x)) = Held(hs, ScopeHolds(hs, k, x))
    BY <1>4, BindHeld DEF gs
<1> QED
    BY <1>3, <1>5 DEF gs, KeyReserved, ScopeReserved

(* The budget period of a day never lies ahead of it, and later days have  *)
(* later periods or the same.                                              *)
LEMMA PeriodFacts ==
    ASSUME NEW k \in Keys, NEW d \in Days
    PROVE  /\ Period(k, d) \in Days
           /\ \A e \in Days : d <= e => Period(k, d) <= Period(k, e)
<1>1. d \in Nat /\ DaysPerMonth \in Nat /\ DaysPerMonth > 0 /\ MaxDay \in Nat
    BY ClockAssumption DEF Days
<1>2. d \div DaysPerMonth \in Days
    BY <1>1 DEF Days
<1>3. \A e \in Days : d <= e => d \div DaysPerMonth <= e \div DaysPerMonth
    BY <1>1 DEF Days
<1>4. 0 \in Days
    BY <1>1 DEF Days
<1> QED
    BY <1>1, <1>2, <1>3, <1>4 DEF Period, PeriodId, Days

-----------------------------------------------------------------------------
(* The invariants, one action at a time.                                   *)

(* The budgets only look at the accounts, so a step that reserves no more, *)
(* and charges no more than it gives back and counts as an overrun, keeps  *)
(* them.                                                                   *)
LEMMA BudgetsKept ==
    ASSUME LedgerInv, LedgerTypeOK',
           \A k \in Keys, p \in Days :
               /\ KeyReserved(holds', k, p) \in Nat
               /\ keySpent'[k][p] + KeyReserved(holds', k, p) - keyOver'[k][p]
                      <= keySpent[k][p] + KeyReserved(holds, k, p) - keyOver[k][p],
           \A k \in Keys, s \in Scopes :
               /\ ScopeReserved(holds', k, s) \in Nat
               /\ scopeSpent'[k][s] + ScopeReserved(holds', k, s)
                        - scopeOver'[k][s]
                      <= scopeSpent[k][s] + ScopeReserved(holds, k, s)
                           - scopeOver[k][s]
    PROVE  WithinKeyBudget' /\ WithinScopeBudget'
<1>1. ASSUME NEW k \in Keys, NEW p \in Days, KeyLimit[k] # NoLimit
      PROVE  keySpent'[k][p] + KeyReserved(holds', k, p)
                 <= KeyLimit[k] + keyOver'[k][p]
    <2>1. KeyLimit[k] \in Nat
        BY <1>1, LimitsAssumption
    <2>2. /\ keySpent[k][p] \in Nat /\ keySpent'[k][p] \in Nat
          /\ keyOver[k][p] \in Nat /\ keyOver'[k][p] \in Nat
        BY DEF LedgerInv, LedgerTypeOK
    <2>3. KeyReserved(holds, k, p) \in Nat
        BY ReservedType DEF LedgerInv, LedgerTypeOK
    <2>4. keySpent[k][p] + KeyReserved(holds, k, p)
              <= KeyLimit[k] + keyOver[k][p]
        BY <1>1 DEF LedgerInv, WithinKeyBudget
    <2> QED
        BY <2>1, <2>2, <2>3, <2>4
<1>2. ASSUME NEW k \in Keys, NEW s \in Scopes, ScopesLimit[k] # NoLimit
      PROVE  scopeSpent'[k][s] + ScopeReserved(holds', k, s)
                 <= ScopesLimit[k] + scopeOver'[k][s]
    <2>1. ScopesLimit[k] \in Nat
        BY <1>2, LimitsAssumption
    <2>2. /\ scopeSpent[k][s] \in Nat /\ scopeSpent'[k][s] \in Nat
          /\ scopeOver[k][s] \in Nat /\ scopeOver'[k][s] \in Nat
        BY DEF LedgerInv, LedgerTypeOK
    <2>3. ScopeReserved(holds, k, s) \in Nat
        BY ReservedType DEF LedgerInv, LedgerTypeOK
    <2>4. scopeSpent[k][s] + ScopeReserved(holds, k, s)
              <= ScopesLimit[k] + scopeOver[k][s]
        BY <1>2 DEF LedgerInv, WithinScopeBudget
    <2> QED
        BY <2>1, <2>2, <2>3, <2>4
<1> QED
    BY <1>1, <1>2 DEF WithinKeyBudget, WithinScopeBudget

(* The ledger starts empty.                                                *)
LEMMA InitInv == LedgerInit => LedgerInv
<1> SUFFICES ASSUME LedgerInit PROVE LedgerInv
    OBVIOUS
<1>1. DOMAIN holds = {}
    BY DEF LedgerInit
<1>2. 0 \in Days /\ Days \subseteq Nat
    BY ClockAssumption DEF Days
<1>3. LedgerTypeOK
    BY <1>1, <1>2, ClockAssumption DEF LedgerInit, LedgerTypeOK, IsTable
<1>4. \A k, x : KeyHolds(holds, k, x) = {} /\ ScopeHolds(holds, k, x) = {}
    BY <1>1 DEF KeyHolds, ScopeHolds
<1>5. \A k, x : KeyReserved(holds, k, x) = 0 /\ ScopeReserved(holds, k, x) = 0
    BY <1>4, HeldNone DEF KeyReserved, ScopeReserved
<1>6. WithinKeyBudget /\ WithinScopeBudget
    <2>1. \A k \in Keys : /\ KeyLimit[k] # NoLimit => KeyLimit[k] \in Nat
                          /\ ScopesLimit[k] # NoLimit => ScopesLimit[k] \in Nat
        BY LimitsAssumption
    <2> QED
        BY <1>5, <2>1 DEF LedgerInit, WithinKeyBudget, WithinScopeBudget
<1>7. IndexSound /\ Settleable /\ NothingAhead
    BY <1>1 DEF LedgerInit, IndexSound, Settleable, NothingAhead
<1> QED
    BY <1>3, <1>6, <1>7 DEF LedgerInv

(* hold(): the two budgets are checked on the table hs, which is the       *)
(* ledger's own or one from which holds have just been released.           *)
LEMMA HoldInv ==
    ASSUME LedgerInv, NEW hs, IsTable(hs), DOMAIN hs \subseteq DOMAIN holds,
           \A h \in DOMAIN hs : hs[h] = holds[h],
           \A k, x : /\ KeyReserved(hs, k, x) <= KeyReserved(holds, k, x)
                     /\ ScopeReserved(hs, k, x) <= ScopeReserved(holds, k, x),
           NEW k \in Keys, NEW s \in Scopes \cup {NoScope},
           NEW c \in ClientLimits, NEW a \in Amounts,
           HoldFrom(hs, k, s, c, a)
    PROVE  /\ IsTable(holds')
           /\ nextId \in (1 .. MaxHolds) \ DOMAIN holds
           /\ \A h \in DOMAIN holds' : h < nextId'
           /\ NothingAhead' /\ WithinKeyBudget' /\ WithinScopeBudget'
<1> DEFINE rec == NewHold(k, s, a, day')
<1>1. day \in Days /\ day' \in Days /\ day <= day'
    BY ClockAssumption DEF HoldFrom, LedgerInv, LedgerTypeOK, Days
<1>2. Period(k, day') \in Days /\ Period(k, day) <= Period(k, day')
    BY <1>1, PeriodFacts
<1>3. Value(a) \in Nat
    BY MoneyAssumption, LimitsAssumption DEF Value, NonNegative
<1>4. rec \in HoldType /\ rec.amount = Value(a) /\ rec.key = k
      /\ rec.period = Period(k, day') /\ rec.scope = s
    BY <1>2, <1>3 DEF NewHold, HoldType
<1>5. nextId \in (1 .. MaxHolds) \ DOMAIN holds /\ nextId' = nextId + 1
      /\ nextId \in Nat
    BY ClockAssumption DEF HoldFrom, LedgerInv, LedgerTypeOK
<1>6. nextId \in (1 .. MaxHolds) \ DOMAIN hs
    BY <1>5
<1>7. holds' = Put(hs, nextId, rec)
    BY DEF HoldFrom
<1> HIDE DEF rec
<1>8. \A j, x :
        /\ KeyReserved(holds', j, x) = KeyReserved(hs, j, x)
              + (IF k = j /\ Period(k, day') = x THEN Value(a) ELSE 0)
        /\ ScopeReserved(holds', j, x) = ScopeReserved(hs, j, x)
              + (IF k = j /\ s = x THEN Value(a) ELSE 0)
    BY <1>4, <1>6, <1>7, PutReserved
<1>9. IsTable(holds')
    BY <1>4, <1>6, <1>7, PutHeld
<1>10. DOMAIN holds' = DOMAIN hs \cup {nextId}
       /\ holds'[nextId] = rec
       /\ \A h \in DOMAIN hs : holds'[h] = holds[h]
    BY <1>6, <1>7 DEF Put
<1>11. \A h \in DOMAIN holds' : h < nextId'
    <2>1. \A h \in DOMAIN hs : h \in Nat /\ h < nextId
        BY ClockAssumption DEF LedgerInv, LedgerTypeOK, IsTable
    <2> QED
        BY <1>5, <1>10, <2>1
<1>12. NothingAhead'
    <2>1. ASSUME NEW j \in Keys
          PROVE  /\ Period(j, day) \in Nat /\ Period(j, day') \in Nat
                 /\ Period(j, day) <= Period(j, day')
        BY <1>1, PeriodFacts DEF Days
    <2>2. ASSUME NEW h \in DOMAIN hs
          PROVE  holds'[h].period <= Period(holds'[h].key, day')
        <3>1. holds[h].period <= Period(holds[h].key, day)
            BY DEF LedgerInv, NothingAhead
        <3>2. holds[h].key \in Keys /\ holds[h].period \in Nat
            BY SMTT(30) DEF LedgerInv, LedgerTypeOK, IsTable, HoldType, Days
        <3> QED
            BY <1>10, <2>1, <3>1, <3>2
    <2>3. holds'[nextId].period <= Period(holds'[nextId].key, day')
        BY <1>2, <1>4, <1>10 DEF Days
    <2>4. ASSUME NEW j \in Keys, NEW p \in Days, p > Period(j, day')
          PROVE  keySpent'[j][p] = 0
        <3>1. p > Period(j, day)
            BY <2>1, <2>4 DEF Days
        <3> QED
            BY <3>1 DEF HoldFrom, spending, LedgerInv, NothingAhead
    <2> QED
        BY <1>10, <2>2, <2>3, <2>4 DEF NothingAhead
<1>13. UNCHANGED spending /\ Admits(hs, k, s, c, Value(a), day)
    BY DEF HoldFrom
<1>14. WithinKeyBudget'
    <2> SUFFICES ASSUME NEW j \in Keys, NEW p \in Days, KeyLimit[j] # NoLimit
                 PROVE  keySpent[j][p] + KeyReserved(holds', j, p)
                            <= KeyLimit[j] + keyOver[j][p]
        BY <1>13 DEF spending, WithinKeyBudget
    <2>1. KeyLimit[j] \in Nat /\ keySpent[j][p] \in Nat /\ keyOver[j][p] \in Nat
        BY LimitsAssumption DEF LedgerInv, LedgerTypeOK
    <2>2. KeyReserved(hs, j, p) \in Nat /\ KeyReserved(holds, j, p) \in Nat
          /\ KeyReserved(hs, j, p) <= KeyReserved(holds, j, p)
        BY ReservedType DEF LedgerInv, LedgerTypeOK
    <2>3. keySpent[j][p] + KeyReserved(holds, j, p)
              <= KeyLimit[j] + keyOver[j][p]
        BY DEF LedgerInv, WithinKeyBudget
    <2>4. CASE ~(k = j /\ Period(k, day') = p)
        BY <1>8, <2>1, <2>2, <2>3, <2>4
    <2>5. CASE k = j /\ Period(k, day') = p
        <3> DEFINE q == Period(k, day)
        <3>1. q \in Days
            BY <1>1, PeriodFacts
        <3>2. KeyReserved(hs, k, q) \in Nat /\ keySpent[k][q] \in Nat
            BY <3>1, ReservedType DEF LedgerInv, LedgerTypeOK
        <3>3. keySpent[k][q] + KeyReserved(hs, k, q) + Value(a) <= KeyLimit[k]
            BY <1>13, <2>5 DEF Admits, KeyAdmits
        <3>4. CASE q = p
            BY <1>3, <1>8, <2>1, <2>2, <2>5, <3>3, <3>4
        <3>5. CASE q # p
            <4>1. p > q /\ p \in Nat
                BY <1>2, <2>5, <3>1, <3>5 DEF Days
            <4>2. keySpent[k][p] = 0
                BY <4>1 DEF LedgerInv, NothingAhead
            <4>3. KeyHolds(holds, k, p) = {}
                <5> SUFFICES ASSUME NEW h \in DOMAIN holds,
                                    holds[h].key = k, holds[h].period = p
                             PROVE  FALSE
                    BY DEF KeyHolds
                <5> QED
                    BY <3>1, <4>1 DEF LedgerInv, NothingAhead, Days
            <4>4. KeyReserved(holds, k, p) = 0
                BY <4>3, HeldNone DEF KeyReserved
            <4>5. KeyReserved(hs, k, p) = 0
                BY <2>2, <2>5, <4>4
            <4> HIDE DEF q
            <4>6. Value(a) <= KeyLimit[k]
                BY <1>3, <2>1, <2>5, <3>2, <3>3
            <4> QED
                BY <1>3, <1>8, <2>1, <2>5, <4>2, <4>5, <4>6
        <3> QED
            BY <3>4, <3>5
    <2> QED
        BY <2>4, <2>5
<1>15. WithinScopeBudget'
    <2> SUFFICES ASSUME NEW j \in Keys, NEW x \in Scopes,
                        ScopesLimit[j] # NoLimit
                 PROVE  scopeSpent[j][x] + ScopeReserved(holds', j, x)
                            <= ScopesLimit[j] + scopeOver[j][x]
        BY <1>13 DEF spending, WithinScopeBudget
    <2>1. ScopesLimit[j] \in Nat /\ scopeSpent[j][x] \in Nat
          /\ scopeOver[j][x] \in Nat
        BY LimitsAssumption DEF LedgerInv, LedgerTypeOK
    <2>2. ScopeReserved(hs, j, x) \in Nat /\ ScopeReserved(holds, j, x) \in Nat
          /\ ScopeReserved(hs, j, x) <= ScopeReserved(holds, j, x)
        BY ReservedType DEF LedgerInv, LedgerTypeOK
    <2>3. scopeSpent[j][x] + ScopeReserved(holds, j, x)
              <= ScopesLimit[j] + scopeOver[j][x]
        BY DEF LedgerInv, WithinScopeBudget
    <2>4. CASE ~(k = j /\ s = x)
        BY <1>8, <2>1, <2>2, <2>3, <2>4
    <2>5. CASE k = j /\ s = x
        <3>1. ScopeCap(k, c) \in Nat /\ ScopeCap(k, c) <= ScopesLimit[k]
            BY <2>1, <2>5, LimitsAssumption DEF ScopeCap
        <3>2. s # NoScope /\ ScopeCap(k, c) # NoLimit
            BY <2>5, <3>1, NoneAssumption, LimitsAssumption
        <3>3. scopeSpent[k][s] + ScopeReserved(hs, k, s) + Value(a)
                  <= ScopeCap(k, c)
            BY <1>13, <3>2 DEF Admits, ScopeAdmits
        <3> QED
            BY <1>3, <1>8, <2>1, <2>2, <2>5, <3>1, <3>3
    <2> QED
        BY <2>4, <2>5
<1> QED
    BY <1>5, <1>9, <1>11, <1>12, <1>14, <1>15

(* A table that lost a hold, or none.                                      *)
LEMMA ReleasedTable ==
    ASSUME LedgerTypeOK, NEW x
    PROVE  /\ IsTable(Without(holds, x))
           /\ DOMAIN Without(holds, x) = DOMAIN holds \ {x}
           /\ \A h \in DOMAIN holds \ {x} : Without(holds, x)[h] = holds[h]
           /\ \A k, y :
                 /\ KeyReserved(Without(holds, x), k, y)
                        <= KeyReserved(holds, k, y)
                 /\ ScopeReserved(Without(holds, x), k, y)
                        <= ScopeReserved(holds, k, y)
<1>1. IsTable(holds)
    BY DEF LedgerTypeOK
<1>2. IsTable(Without(holds, x))
    BY <1>1, WithoutHeld
<1>3. DOMAIN Without(holds, x) = DOMAIN holds \ {x}
      /\ \A h \in DOMAIN holds \ {x} : Without(holds, x)[h] = holds[h]
    BY DEF Without, Restrict
<1>4. ASSUME NEW k, NEW y
      PROVE  /\ KeyReserved(Without(holds, x), k, y) <= KeyReserved(holds, k, y)
             /\ ScopeReserved(Without(holds, x), k, y)
                    <= ScopeReserved(holds, k, y)
    <2>1. /\ KeyReserved(holds, k, y) \in Nat
          /\ KeyReserved(Without(holds, x), k, y) \in Nat
          /\ ScopeReserved(holds, k, y) \in Nat
          /\ ScopeReserved(Without(holds, x), k, y) \in Nat
        BY <1>1, <1>2, ReservedType
    <2>2. x \in DOMAIN holds => holds[x].amount \in Nat
        BY <1>1 DEF IsTable, HoldType
    <2>3. (x \in KeyHolds(holds, k, y) => x \in DOMAIN holds)
          /\ (x \in ScopeHolds(holds, k, y) => x \in DOMAIN holds)
        BY DEF KeyHolds, ScopeHolds
    <2> QED
        BY <1>1, <2>1, <2>2, <2>3, WithoutReserved
<1> QED
    BY <1>2, <1>3, <1>4

(* The end of a hold at no cost: release() and settle(cost=None).          *)
LEMMA EndInv ==
    ASSUME LedgerInv, NEW x, holds' = Without(holds, x),
           byTask' \in [Tasks -> 0 .. MaxHolds],
           \A t \in Tasks :
               /\ byTask'[t] \in {0, byTask[t]}
               /\ byTask[t] = x => byTask'[t] = 0
               /\ UniqueTasks => byTask'[t] = byTask[t] \/ byTask[t] = x,
           UNCHANGED <<nextId, day, spending>>
    PROVE  LedgerInv'
<1>1. LedgerTypeOK /\ LedgerTypeOK'
    BY ReleasedTable DEF LedgerInv, LedgerTypeOK, spending
<1>2. /\ DOMAIN holds' = DOMAIN holds \ {x}
      /\ \A h \in DOMAIN holds' : holds'[h] = holds[h]
    BY <1>1, ReleasedTable
<1>3. IndexSound'
    BY <1>2 DEF LedgerInv, IndexSound
<1>4. Settleable'
    BY <1>1, <1>2, NoneAssumption
    DEF LedgerInv, Settleable, LedgerTypeOK, IsTable, HoldType
<1>5. NothingAhead'
    BY <1>2 DEF LedgerInv, NothingAhead, spending
<1>6. WithinKeyBudget' /\ WithinScopeBudget'
    <2>1. ASSUME NEW k \in Keys, NEW p \in Days
          PROVE  /\ KeyReserved(holds', k, p) \in Nat
                 /\ keySpent'[k][p] + KeyReserved(holds', k, p) - keyOver'[k][p]
                        <= keySpent[k][p] + KeyReserved(holds, k, p)
                             - keyOver[k][p]
        <3>1. /\ KeyReserved(holds', k, p) \in Nat
              /\ KeyReserved(holds, k, p) \in Nat
              /\ KeyReserved(holds', k, p) <= KeyReserved(holds, k, p)
            BY <1>1, ReservedType, ReleasedTable DEF LedgerTypeOK
        <3>2. keySpent[k][p] \in Nat /\ keyOver[k][p] \in Nat
            BY <1>1 DEF LedgerTypeOK
        <3>3. keySpent' = keySpent /\ keyOver' = keyOver
            BY DEF spending
        <3> QED
            BY <3>1, <3>2, <3>3
    <2>2. ASSUME NEW k \in Keys, NEW s \in Scopes
          PROVE  /\ ScopeReserved(holds', k, s) \in Nat
                 /\ scopeSpent'[k][s] + ScopeReserved(holds', k, s)
                          - scopeOver'[k][s]
                        <= scopeSpent[k][s] + ScopeReserved(holds, k, s)
                             - scopeOver[k][s]
        <3>1. /\ ScopeReserved(holds', k, s) \in Nat
              /\ ScopeReserved(holds, k, s) \in Nat
              /\ ScopeReserved(holds', k, s) <= ScopeReserved(holds, k, s)
            BY <1>1, ReservedType, ReleasedTable DEF LedgerTypeOK
        <3>2. scopeSpent[k][s] \in Nat /\ scopeOver[k][s] \in Nat
            BY <1>1 DEF LedgerTypeOK
        <3>3. scopeSpent' = scopeSpent /\ scopeOver' = scopeOver
            BY DEF spending
        <3> QED
            BY <3>1, <3>2, <3>3
    <2> QED
        BY <1>1, <2>1, <2>2, BudgetsKept
<1> QED
    BY <1>1, <1>3, <1>4, <1>5, <1>6 DEF LedgerInv

(* What release(x) makes of the index: only the entry of x, if there is    *)
(* one, is cleared.                                                        *)
LEMMA IndexReleasedFacts ==
    ASSUME LedgerInv, NEW x
    PROVE  /\ IndexReleased(x) \in [Tasks -> 0 .. MaxHolds]
           /\ \A t \in Tasks :
                 /\ IndexReleased(x)[t] \in {0, byTask[t]}
                 /\ byTask[t] = x => IndexReleased(x)[t] = 0
                 /\ UniqueTasks =>
                       IndexReleased(x)[t] = byTask[t] \/ byTask[t] = x
<1> DEFINE u == holds[x].task
           idx == IndexReleased(x)
<1>1. byTask \in [Tasks -> 0 .. MaxHolds] /\ 0 \in 0 .. MaxHolds
    BY ClockAssumption DEF LedgerInv, LedgerTypeOK
<1>2. \A t \in Tasks : byTask[t] # 0 =>
          byTask[t] \in DOMAIN holds /\ holds[byTask[t]].task = t
    BY DEF LedgerInv, IndexSound
<1>3. CASE x \in DOMAIN holds /\ u # NoTask
    <2>1. idx = [byTask EXCEPT ![u] = 0]
        BY <1>3 DEF IndexReleased
    <2>2. \A t \in Tasks : byTask[t] = x => byTask[t] = 0 \/ u = t
        BY <1>2
    <2>3. UniqueTasks => byTask[u] = x
        BY <1>3 DEF LedgerInv, Settleable
    <2> HIDE DEF u, idx
    <2>4. idx \in [Tasks -> 0 .. MaxHolds]
        BY <1>1, <2>1
    <2>5. \A t \in Tasks : idx[t] = IF t = u THEN 0 ELSE byTask[t]
        BY <1>1, <2>1
    <2>6. idx \in [Tasks -> 0 .. MaxHolds]
          /\ \A t \in Tasks :
                /\ idx[t] \in {0, byTask[t]}
                /\ byTask[t] = x => idx[t] = 0
                /\ UniqueTasks => idx[t] = byTask[t] \/ byTask[t] = x
        BY <2>2, <2>3, <2>4, <2>5
    <2> QED
        BY <2>6 DEF idx
<1>4. CASE ~(x \in DOMAIN holds /\ u # NoTask)
    <2>1. idx = byTask
        BY <1>4 DEF IndexReleased
    <2>2. \A t \in Tasks : byTask[t] = x => byTask[t] = 0
        BY <1>2, <1>4, NoneAssumption
    <2> QED
        BY <1>1, <2>1, <2>2
<1> QED
    BY <1>3, <1>4

(* release()                                                               *)
LEMMA ReleaseInv ==
    ASSUME LedgerInv, NEW h, Release(h)
    PROVE  LedgerInv'
BY IndexReleasedFacts, EndInv DEF Release, HoldsReleased

(* settle(cost=None)                                                       *)
LEMMA DropInv ==
    ASSUME LedgerInv, NEW u \in Tasks, Drop(u)
    PROVE  LedgerInv'
<1>1. byTask \in [Tasks -> 0 .. MaxHolds]
    BY DEF LedgerInv, LedgerTypeOK
<1>2. byTask' = [byTask EXCEPT ![u] = 0]
    BY DEF Drop
<1>3. /\ holds' = Without(holds, byTask[u])
      /\ UNCHANGED <<nextId, day, spending>>
    BY DEF Drop
<1>4. byTask' \in [Tasks -> 0 .. MaxHolds]
    BY <1>1, <1>2, ClockAssumption
<1>5. \A t \in Tasks : byTask[t] = byTask[u] => byTask[t] = 0 \/ t = u
    BY DEF LedgerInv, IndexSound
<1>6. \A t \in Tasks :
          /\ byTask'[t] \in {0, byTask[t]}
          /\ byTask[t] = byTask[u] => byTask'[t] = 0
          /\ UniqueTasks => byTask'[t] = byTask[t] \/ byTask[t] = byTask[u]
    BY <1>1, <1>2, <1>5
<1> QED
    BY <1>3, <1>4, <1>6, EndInv

(* settle(cost=c): a charge beyond the amount held is an overrun.          *)
LEMMA ChargeInv ==
    ASSUME LedgerInv, NEW x \in DOMAIN holds, NEW c \in Int, Charge(x, c),
           holds' = Without(holds, x), byTask' \in [Tasks -> 0 .. MaxHolds],
           \A t \in Tasks :
               /\ byTask'[t] \in {0, byTask[t]}
               /\ byTask[t] = x => byTask'[t] = 0
               /\ UniqueTasks => byTask'[t] = byTask[t] \/ byTask[t] = x,
           UNCHANGED <<nextId, day>>
    PROVE  LedgerInv'
<1> DEFINE h == holds[x]
           cost == NonNegative(c)
           over == NonNegative(cost - h.amount)
<1>1. LedgerTypeOK /\ h \in HoldType
    BY DEF LedgerInv, LedgerTypeOK, IsTable
<1>2. /\ h.key \in Keys /\ h.period \in Days
      /\ h.scope \in Scopes \cup {NoScope} /\ h.amount \in Nat
    BY <1>1 DEF HoldType
<1>3. cost \in Nat /\ over \in Nat /\ cost - over <= h.amount
    BY <1>2 DEF NonNegative
<1>4. /\ holds' = Without(holds, x)
      /\ keySpent' = [keySpent EXCEPT ![h.key][h.period] = @ + cost]
      /\ keyOver' = [keyOver EXCEPT ![h.key][h.period] = @ + over]
      /\ scopeSpent' = IF h.scope = NoScope THEN scopeSpent
                       ELSE [scopeSpent EXCEPT ![h.key][h.scope] = @ + cost]
      /\ scopeOver' = IF h.scope = NoScope THEN scopeOver
                      ELSE [scopeOver EXCEPT ![h.key][h.scope] = @ + over]
      /\ nextId' = nextId /\ day' = day
    BY DEF Charge
<1>5. \A k \in Keys, p \in Days :
          /\ k = h.key /\ p = h.period =>
                /\ x \in KeyHolds(holds, k, p)
                /\ keySpent'[k][p] = keySpent[k][p] + cost
                /\ keyOver'[k][p] = keyOver[k][p] + over
          /\ ~(k = h.key /\ p = h.period) =>
                /\ x \notin KeyHolds(holds, k, p)
                /\ keySpent'[k][p] = keySpent[k][p]
                /\ keyOver'[k][p] = keyOver[k][p]
    BY <1>1, <1>2, <1>4 DEF LedgerTypeOK, KeyHolds
<1>6. \A k \in Keys, s \in Scopes :
          /\ k = h.key /\ s = h.scope =>
                /\ x \in ScopeHolds(holds, k, s)
                /\ scopeSpent'[k][s] = scopeSpent[k][s] + cost
                /\ scopeOver'[k][s] = scopeOver[k][s] + over
          /\ ~(k = h.key /\ s = h.scope) =>
                /\ x \notin ScopeHolds(holds, k, s)
                /\ scopeSpent'[k][s] = scopeSpent[k][s]
                /\ scopeOver'[k][s] = scopeOver[k][s]
    BY <1>1, <1>2, <1>4, NoneAssumption DEF LedgerTypeOK, ScopeHolds
<1> HIDE DEF cost, over
<1>7. IsTable(holds')
    BY <1>1, <1>4, ReleasedTable
<1>8. LedgerTypeOK'
    <2>1. /\ keySpent' \in [Keys -> [Days -> Nat]]
          /\ keyOver' \in [Keys -> [Days -> Nat]]
        BY <1>1, <1>2, <1>3, <1>4 DEF LedgerTypeOK
    <2>2. /\ scopeSpent' \in [Keys -> [Scopes -> Nat]]
          /\ scopeOver' \in [Keys -> [Scopes -> Nat]]
        BY <1>1, <1>2, <1>3, <1>4 DEF LedgerTypeOK
    <2>4. \A g \in DOMAIN holds' : g < nextId'
        BY <1>1, <1>4, ReleasedTable DEF LedgerTypeOK
    <2> QED
        BY <1>1, <1>4, <1>7, <2>1, <2>2, <2>4 DEF LedgerTypeOK
<1>9. /\ DOMAIN holds' = DOMAIN holds \ {x}
      /\ \A g \in DOMAIN holds' : holds'[g] = holds[g]
    BY <1>4 DEF Without, Restrict
<1>12. IndexSound'
    BY <1>9 DEF LedgerInv, IndexSound
<1>13. Settleable'
    BY <1>1, <1>9, NoneAssumption
    DEF LedgerInv, Settleable, LedgerTypeOK, IsTable, HoldType
<1>14. NothingAhead'
    <2>1. h.period <= Period(h.key, day)
        BY DEF LedgerInv, NothingAhead
    <2>2. ASSUME NEW k \in Keys, NEW p \in Days, p > Period(k, day)
          PROVE  keySpent'[k][p] = 0
        <3>1. ~(k = h.key /\ p = h.period)
            <4>1. Period(k, day) \in Nat /\ p \in Nat
                BY <1>1, PeriodFacts DEF LedgerTypeOK, Days
            <4> QED
                BY <2>1, <2>2, <4>1
        <3> QED
            BY <1>5, <2>2, <3>1 DEF LedgerInv, NothingAhead
    <2>3. \A g \in DOMAIN holds' :
              holds'[g].period <= Period(holds'[g].key, day)
        BY <1>9 DEF LedgerInv, NothingAhead
    <2> QED
        BY <1>4, <2>2, <2>3 DEF NothingAhead
<1>15. WithinKeyBudget' /\ WithinScopeBudget'
    <2>1. ASSUME NEW k \in Keys, NEW p \in Days
          PROVE  /\ KeyReserved(holds', k, p) \in Nat
                 /\ keySpent'[k][p] + KeyReserved(holds', k, p) - keyOver'[k][p]
                        <= keySpent[k][p] + KeyReserved(holds, k, p)
                             - keyOver[k][p]
        <3>1. /\ KeyReserved(holds', k, p) \in Nat
              /\ KeyReserved(holds, k, p) \in Nat
            BY <1>1, <1>7, ReservedType DEF LedgerTypeOK
        <3>2. keySpent[k][p] \in Nat /\ keyOver[k][p] \in Nat
            BY <1>1 DEF LedgerTypeOK
        <3>3. KeyReserved(holds, k, p) = KeyReserved(holds', k, p)
                + (IF x \in KeyHolds(holds, k, p) THEN h.amount ELSE 0)
            BY <1>1, <1>4, WithoutReserved DEF LedgerTypeOK
        <3> QED
            BY <1>2, <1>3, <1>5, <3>1, <3>2, <3>3
    <2>2. ASSUME NEW k \in Keys, NEW s \in Scopes
          PROVE  /\ ScopeReserved(holds', k, s) \in Nat
                 /\ scopeSpent'[k][s] + ScopeReserved(holds', k, s)
                          - scopeOver'[k][s]
                        <= scopeSpent[k][s] + ScopeReserved(holds, k, s)
                             - scopeOver[k][s]
        <3>1. /\ ScopeReserved(holds', k, s) \in Nat
              /\ ScopeReserved(holds, k, s) \in Nat
            BY <1>1, <1>7, ReservedType DEF LedgerTypeOK
        <3>2. scopeSpent[k][s] \in Nat /\ scopeOver[k][s] \in Nat
            BY <1>1 DEF LedgerTypeOK
        <3>3. ScopeReserved(holds, k, s) = ScopeReserved(holds', k, s)
                + (IF x \in ScopeHolds(holds, k, s) THEN h.amount ELSE 0)
            BY <1>1, <1>4, WithoutReserved DEF LedgerTypeOK
        <3> QED
            BY <1>2, <1>3, <1>6, <3>1, <3>2, <3>3
    <2> QED
        BY <1>8, <2>1, <2>2, BudgetsKept
<1> QED
    BY <1>8, <1>12, <1>13, <1>14, <1>15 DEF LedgerInv

(* settle(cost=c) of a task whose hold is there.                           *)
LEMMA SettleInv ==
    ASSUME LedgerInv, NEW u \in Tasks, byTask[u] \in DOMAIN holds,
           NEW c \in Costs, Settle(u, c)
    PROVE  LedgerInv'
<1> DEFINE x == byTask[u]
<1>1. byTask \in [Tasks -> 0 .. MaxHolds] /\ c \in Int
    BY MoneyAssumption DEF LedgerInv, LedgerTypeOK
<1>2. /\ byTask' = [byTask EXCEPT ![u] = 0] /\ Charge(x, c)
      /\ holds' = Without(holds, x) /\ UNCHANGED <<nextId, day>>
    BY DEF Settle
<1>3. \A t \in Tasks : byTask[t] = x => byTask[t] = 0 \/ t = u
    BY DEF LedgerInv, IndexSound
<1>4. byTask' \in [Tasks -> 0 .. MaxHolds]
    BY <1>1, <1>2, ClockAssumption
<1>5. \A t \in Tasks :
          /\ byTask'[t] \in {0, byTask[t]}
          /\ byTask[t] = x => byTask'[t] = 0
          /\ UniqueTasks => byTask'[t] = byTask[t] \/ byTask[t] = x
    BY <1>1, <1>2, <1>3
<1> QED
    BY <1>1, <1>2, <1>4, <1>5, ChargeInv

(* A hold is released and another made in the same step, as execute_plan   *)
(* does between two attempts.                                              *)
LEMMA ReplaceInv ==
    ASSUME LedgerInv, NEW x, NEW k \in Keys, NEW s \in Scopes \cup {NoScope},
           NEW c \in ClientLimits, NEW a \in Amounts,
           HoldFrom(Without(holds, x), k, s, c, a), byTask' = IndexReleased(x)
    PROVE  /\ LedgerInv'
           /\ nextId \in (1 .. MaxHolds) \ DOMAIN holds /\ nextId' = nextId + 1
           /\ DOMAIN holds' = (DOMAIN holds \ {x}) \cup {nextId}
           /\ \A h \in DOMAIN holds \ {x} : holds'[h] = holds[h]
           /\ holds'[nextId].task = NoTask
<1> DEFINE hs == Without(holds, x)
<1>1. LedgerTypeOK
    BY DEF LedgerInv
<1>2. /\ IsTable(hs) /\ DOMAIN hs = DOMAIN holds \ {x}
      /\ \A h \in DOMAIN hs : hs[h] = holds[h]
      /\ \A j, y : /\ KeyReserved(hs, j, y) <= KeyReserved(holds, j, y)
                    /\ ScopeReserved(hs, j, y) <= ScopeReserved(holds, j, y)
    BY <1>1, ReleasedTable
<1>3. HoldFrom(hs, k, s, c, a)
    OBVIOUS
<1> HIDE DEF hs
<1>4. /\ IsTable(holds')
      /\ nextId \in (1 .. MaxHolds) \ DOMAIN holds
      /\ \A h \in DOMAIN holds' : h < nextId'
      /\ NothingAhead' /\ WithinKeyBudget' /\ WithinScopeBudget'
    BY <1>2, <1>3, HoldInv
<1>5. /\ byTask' \in [Tasks -> 0 .. MaxHolds]
      /\ \A t \in Tasks :
            /\ byTask'[t] \in {0, byTask[t]}
            /\ byTask[t] = x => byTask'[t] = 0
            /\ UniqueTasks => byTask'[t] = byTask[t] \/ byTask[t] = x
    BY IndexReleasedFacts
<1>6. LedgerTypeOK'
    BY <1>1, <1>3, <1>4, <1>5, ClockAssumption
    DEF LedgerTypeOK, HoldFrom, spending
<1>7. /\ DOMAIN holds' = DOMAIN hs \cup {nextId} /\ nextId' = nextId + 1
      /\ \A h \in DOMAIN hs : holds'[h] = holds[h]
      /\ holds'[nextId].task = NoTask
    BY <1>2, <1>3, <1>4 DEF HoldFrom, Put, NewHold
<1>8. IndexSound'
    BY <1>2, <1>5, <1>7 DEF LedgerInv, IndexSound
<1>9. Settleable'
    BY <1>1, <1>2, <1>5, <1>7, NoneAssumption
    DEF LedgerInv, Settleable, LedgerTypeOK, IsTable, HoldType
<1>10. LedgerInv'
    BY <1>4, <1>6, <1>8, <1>9 DEF LedgerInv
<1> QED
    BY <1>2, <1>4, <1>7, <1>10

(* Releasing no hold changes nothing.                                      *)
LEMMA ReleaseNone ==
    ASSUME LedgerInv
    PROVE  Without(holds, 0) = holds /\ IndexReleased(0) = byTask
<1>1. 0 \notin DOMAIN holds /\ holds \in [DOMAIN holds -> HoldType]
    BY DEF LedgerInv, LedgerTypeOK, IsTable
<1>2. DOMAIN holds \ {0} = DOMAIN holds
    BY <1>1
<1> QED
    BY <1>1, <1>2 DEF Without, Restrict, IndexReleased

(* hold()                                                                  *)
LEMMA HoldAdmittedInv ==
    ASSUME LedgerInv, NEW k \in Keys, NEW s \in Scopes \cup {NoScope},
           NEW c \in ClientLimits, NEW a \in Amounts, HoldAdmitted(k, s, c, a)
    PROVE  LedgerInv'
<1>1. /\ HoldFrom(Without(holds, 0), k, s, c, a)
      /\ byTask' = IndexReleased(0)
    BY ReleaseNone DEF HoldAdmitted
<1> QED
    BY <1>1, ReplaceInv

(* bind()                                                                  *)
LEMMA BindInv ==
    ASSUME LedgerInv, NEW h \in DOMAIN holds, NEW t \in Tasks,
           holds[h].task = NoTask,
           UniqueTasks => \A g \in DOMAIN holds : holds[g].task # t,
           Bind(h, t)
    PROVE  LedgerInv'
<1>1. LedgerTypeOK /\ IsTable(holds)
    BY DEF LedgerInv, LedgerTypeOK
<1>2. /\ holds' = [holds EXCEPT ![h].task = t]
      /\ byTask' = [byTask EXCEPT ![t] = h]
      /\ UNCHANGED <<nextId, day, spending>>
    BY DEF Bind
<1>3. h \in 1 .. MaxHolds
    BY <1>1 DEF IsTable
<1>4. IsTable(holds')
    BY <1>1, <1>2, BindHeld
<1>5. /\ DOMAIN holds' = DOMAIN holds
      /\ holds'[h].task = t
      /\ \A g \in DOMAIN holds \ {h} : holds'[g] = holds[g]
      /\ \A g \in DOMAIN holds : /\ holds'[g].key = holds[g].key
                                /\ holds'[g].period = holds[g].period
    BY <1>1, <1>2 DEF IsTable, HoldType
<1>6. byTask \in [Tasks -> 0 .. MaxHolds] /\ byTask' \in [Tasks -> 0 .. MaxHolds]
    BY <1>1, <1>2, <1>3 DEF LedgerTypeOK
<1>7. LedgerTypeOK'
    BY <1>1, <1>2, <1>4, <1>5, <1>6 DEF LedgerTypeOK, spending
<1>8. IndexSound'
    <2> SUFFICES ASSUME NEW u \in Tasks, byTask'[u] # 0
                 PROVE  /\ byTask'[u] \in DOMAIN holds'
                        /\ holds'[byTask'[u]].task = u
        BY DEF IndexSound
    <2>1. CASE u = t
        BY <1>2, <1>5, <1>6, <2>1
    <2>2. CASE u # t
        <3>1. byTask'[u] = byTask[u]
            BY <1>2, <1>6, <2>2
        <3>2. byTask[u] \in DOMAIN holds /\ holds[byTask[u]].task = u
            BY <3>1 DEF LedgerInv, IndexSound
        <3>3. byTask[u] # h
            BY <3>2, NoneAssumption
        <3> QED
            BY <1>5, <3>1, <3>2, <3>3
    <2> QED
        BY <2>1, <2>2
<1>9. Settleable'
    <2> SUFFICES ASSUME UniqueTasks, NEW g \in DOMAIN holds',
                        holds'[g].task # NoTask
                 PROVE  byTask'[holds'[g].task] = g
        BY DEF Settleable
    <2>1. CASE g = h
        BY <1>2, <1>5, <1>6, <2>1
    <2>2. CASE g # h
        <3>1. holds'[g] = holds[g] /\ g \in DOMAIN holds
            BY <1>5, <2>2
        <3>2. byTask[holds[g].task] = g /\ holds[g].task # t
            BY <3>1 DEF LedgerInv, Settleable
        <3>3. holds[g].task \in Tasks
            BY <1>1, <3>1 DEF IsTable, HoldType
        <3> QED
            BY <1>2, <1>6, <3>1, <3>2, <3>3
    <2> QED
        BY <2>1, <2>2
<1>10. NothingAhead'
    BY <1>2, <1>5 DEF LedgerInv, NothingAhead, spending
<1>11. WithinKeyBudget' /\ WithinScopeBudget'
    <2>1. \A k, x :
              /\ KeyReserved([holds EXCEPT ![h].task = t], k, x)
                    = KeyReserved(holds, k, x)
              /\ ScopeReserved([holds EXCEPT ![h].task = t], k, x)
                    = ScopeReserved(holds, k, x)
        BY <1>1, BindReserved
    <2>2. \A k, x : /\ KeyReserved(holds', k, x) = KeyReserved(holds, k, x)
                    /\ ScopeReserved(holds', k, x) = ScopeReserved(holds, k, x)
        BY <1>2, <2>1, Zenon
    <2> QED
        BY <1>2, <2>2
        DEF LedgerInv, WithinKeyBudget, WithinScopeBudget, spending
<1> QED
    BY <1>7, <1>8, <1>9, <1>10, <1>11 DEF LedgerInv

(* The clock.                                                              *)
LEMMA MidnightInv ==
    ASSUME LedgerInv, Midnight
    PROVE  LedgerInv'
<1>1. day \in Days /\ day' \in Days /\ day <= day'
    BY ClockAssumption DEF Midnight, LedgerInv, LedgerTypeOK, Days
<1>2. \A k \in Keys : /\ Period(k, day) \in Nat /\ Period(k, day') \in Nat
                      /\ Period(k, day) <= Period(k, day')
    BY <1>1, PeriodFacts DEF Days
<1>3. LedgerTypeOK'
    BY <1>1 DEF Midnight, LedgerInv, LedgerTypeOK, spending
<1>4. NothingAhead'
    <2>1. ASSUME NEW h \in DOMAIN holds
          PROVE  holds[h].period <= Period(holds[h].key, day')
        <3>1. holds[h].key \in Keys /\ holds[h].period \in Nat
            BY DEF LedgerInv, LedgerTypeOK, IsTable, HoldType, Days
        <3>2. holds[h].period <= Period(holds[h].key, day)
            BY DEF LedgerInv, NothingAhead
        <3> QED
            BY <1>2, <3>1, <3>2
    <2>2. ASSUME NEW k \in Keys, NEW p \in Days, p > Period(k, day')
          PROVE  keySpent[k][p] = 0
        <3>1. p > Period(k, day)
            BY <1>2, <2>2 DEF Days
        <3> QED
            BY <3>1 DEF LedgerInv, NothingAhead
    <2> QED
        BY <2>1, <2>2 DEF NothingAhead, Midnight, spending
<1> QED
    BY <1>3, <1>4
    DEF Midnight, LedgerInv, IndexSound, Settleable, WithinKeyBudget,
        WithinScopeBudget, spending

(* Every step keeps the invariant.                                         *)
LEMMA NextInv == LedgerInv /\ [LedgerNext]_ledgerVars => LedgerInv'
<1> SUFFICES ASSUME LedgerInv, [LedgerNext]_ledgerVars
             PROVE  LedgerInv'
    OBVIOUS
<1>1. ASSUME NEW k \in Keys, NEW s \in Scopes \cup {NoScope},
             NEW c \in ClientLimits, NEW a \in Amounts, HoldAdmitted(k, s, c, a)
      PROVE  LedgerInv'
    BY <1>1, HoldAdmittedInv
<1>2. CASE BindAccepted
    BY <1>2, BindInv DEF BindAccepted
<1>3. ASSUME NEW h \in DOMAIN holds, Release(h)
      PROVE  LedgerInv'
    BY <1>3, ReleaseInv
<1>4. ASSUME NEW t \in Tasks, Drop(t)
      PROVE  LedgerInv'
    BY <1>4, DropInv
<1>5. ASSUME NEW t \in Tasks, NEW c \in Costs, Settle(t, c)
      PROVE  LedgerInv'
    <2>1. CASE byTask[t] \in DOMAIN holds
        BY <1>5, <2>1, SettleInv
    <2>2. CASE byTask[t] \notin DOMAIN holds
        <3>1. Drop(t)
            BY <1>5, <2>2 DEF Settle, Drop
        <3> QED
            BY <3>1, DropInv
    <2> QED
        BY <2>1, <2>2
<1>6. CASE Midnight
    BY <1>6, MidnightInv
<1>7. CASE UNCHANGED ledgerVars
    BY <1>7
    DEF ledgerVars, LedgerInv, LedgerTypeOK, IndexSound, Settleable,
        NothingAhead, WithinKeyBudget, WithinScopeBudget
<1> QED
    BY <1>1, <1>2, <1>3, <1>4, <1>5, <1>6, <1>7 DEF LedgerNext

-----------------------------------------------------------------------------
(* The theorems.                                                           *)

(* The inductive invariant holds in every state of the ledger.             *)
THEOREM LedgerInvariant == LedgerSpec => []LedgerInv
BY InitInv, NextInv, PTL DEF LedgerSpec

(* The ledger's variables always have their types.                         *)
THEOREM LedgerTypeCorrect == LedgerSpec => []LedgerTypeOK
<1>1. LedgerInv => LedgerTypeOK
    BY DEF LedgerInv
<1> QED
    BY <1>1, LedgerInvariant, PTL

(* No key overruns its budget by admission: concurrent creates, and a      *)
(* midnight inside hold(), included (billing.py CostLedger.hold).          *)
THEOREM KeyBudgetKept == LedgerSpec => []WithinKeyBudget
<1>1. LedgerInv => WithinKeyBudget
    BY DEF LedgerInv
<1> QED
    BY <1>1, LedgerInvariant, PTL

(* No scope overruns the operator's cap by admission.                      *)
THEOREM ScopeBudgetKept == LedgerSpec => []WithinScopeBudget
<1>1. LedgerInv => WithinScopeBudget
    BY DEF LedgerInv
<1> QED
    BY <1>1, LedgerInvariant, PTL

(* The token index never names another task's hold, and with unique tokens *)
(* it names every accepted hold.                                           *)
THEOREM IndexCorrect == LedgerSpec => [](IndexSound /\ Settleable)
<1>1. LedgerInv => IndexSound /\ Settleable
    BY DEF LedgerInv
<1> QED
    BY <1>1, LedgerInvariant, PTL

-----------------------------------------------------------------------------
(* What a step does to the accounts.                                       *)

(* A step that ends reservations, or leaves them alone.                    *)
Finishes ==
    /\ \A k \in Keys, p \in Days :
          /\ KeyReserved(holds', k, p) <= KeyReserved(holds, k, p)
          /\ keySpent'[k][p] >= keySpent[k][p]
    /\ \A k \in Keys, s \in Scopes :
          /\ ScopeReserved(holds', k, s) <= ScopeReserved(holds, k, s)
          /\ scopeSpent'[k][s] >= scopeSpent[k][s]

(* A step that reserves into the room the caps have, in no past period.    *)
Reserves ==
    /\ \A k \in Keys, p \in Days :
          /\ keySpent'[k][p] = keySpent[k][p]
          /\ KeyReserved(holds', k, p) # KeyReserved(holds, k, p) =>
                /\ p >= Period(k, day)
                /\ KeyReserved(holds', k, p) > KeyReserved(holds, k, p)
                /\ KeyLimit[k] # NoLimit =>
                      keySpent[k][p] + KeyReserved(holds', k, p) <= KeyLimit[k]
    /\ \A k \in Keys, s \in Scopes :
          /\ scopeSpent'[k][s] = scopeSpent[k][s]
          /\ ScopeReserved(holds', k, s) # ScopeReserved(holds, k, s) =>
                /\ ScopeReserved(holds', k, s) > ScopeReserved(holds, k, s)
                /\ ScopesLimit[k] # NoLimit =>
                      scopeSpent[k][s] + ScopeReserved(holds', k, s)
                          <= ScopesLimit[k]

(* What the accounts hold and have spent are natural numbers.              *)
LEMMA AccountTypes ==
    ASSUME LedgerTypeOK, NEW k \in Keys
    PROVE  /\ \A p \in Days : /\ KeyReserved(holds, k, p) \in Nat
                              /\ keySpent[k][p] \in Nat
           /\ \A s \in Scopes : /\ ScopeReserved(holds, k, s) \in Nat
                                /\ scopeSpent[k][s] \in Nat
BY ReservedType DEF LedgerTypeOK

(* hold() reserves in the accounts it has checked, or in the period that   *)
(* begins while it runs, in which nothing is held or spent.                *)
LEMMA HoldReserves ==
    ASSUME LedgerInv, NEW k \in Keys, NEW s \in Scopes \cup {NoScope},
           NEW c \in ClientLimits, NEW a \in Amounts, HoldAdmitted(k, s, c, a)
    PROVE  Reserves
<1> DEFINE rec == NewHold(k, s, a, day')
           q == Period(k, day)
           r == Period(k, day')
           v == Value(a)
<1>1. LedgerTypeOK /\ IsTable(holds)
    BY DEF LedgerInv, LedgerTypeOK
<1>2. day \in Days /\ day' \in Days /\ day <= day'
    BY ClockAssumption DEF HoldAdmitted, HoldFrom, LedgerInv, LedgerTypeOK, Days
<1>3. q \in Days /\ r \in Days /\ q <= r /\ q \in Nat /\ r \in Nat
    BY <1>2, PeriodFacts DEF Days
<1>4. v \in Nat
    BY MoneyAssumption, LimitsAssumption DEF Value, NonNegative
<1>5. rec \in HoldType /\ rec.amount = v /\ rec.key = k /\ rec.period = r
      /\ rec.scope = s
    BY <1>3, <1>4 DEF NewHold, HoldType
<1>6. /\ nextId \in (1 .. MaxHolds) \ DOMAIN holds
      /\ holds' = Put(holds, nextId, rec)
      /\ KeyAdmits(holds, k, v, day) /\ ScopeAdmits(holds, k, s, c, v)
      /\ UNCHANGED spending
    BY ClockAssumption
    DEF HoldAdmitted, HoldFrom, Admits, LedgerInv, LedgerTypeOK
<1> HIDE DEF rec
<1>7. \A j, x :
        /\ KeyReserved(holds', j, x) = KeyReserved(holds, j, x)
              + (IF k = j /\ r = x THEN v ELSE 0)
        /\ ScopeReserved(holds', j, x) = ScopeReserved(holds, j, x)
              + (IF k = j /\ s = x THEN v ELSE 0)
    BY <1>1, <1>5, <1>6, PutReserved
<1> HIDE DEF v, r, q
<1>8. ASSUME KeyLimit[k] # NoLimit
      PROVE  keySpent[k][r] + KeyReserved(holds, k, r) + v <= KeyLimit[k]
    <2>1. keySpent[k][q] + KeyReserved(holds, k, q) + v <= KeyLimit[k]
        BY <1>6, <1>8 DEF KeyAdmits, q
    <2>2. CASE q = r
        BY <2>1, <2>2
    <2>3. CASE q # r
        <3>1. r > q
            BY <1>3, <2>3
        <3>2. keySpent[k][r] = 0
            BY <1>3, <3>1 DEF LedgerInv, NothingAhead, q
        <3>3. KeyHolds(holds, k, r) = {}
            <4> SUFFICES ASSUME NEW h \in DOMAIN holds,
                                holds[h].key = k, holds[h].period = r
                         PROVE  FALSE
                BY DEF KeyHolds
            <4> QED
                BY <1>3, <3>1 DEF LedgerInv, NothingAhead, q
        <3>4. KeyReserved(holds, k, r) = 0
            BY <3>3, HeldNone DEF KeyReserved
        <3>5. KeyReserved(holds, k, q) \in Nat /\ keySpent[k][q] \in Nat
            BY <1>1, <1>3, AccountTypes
        <3>6. KeyLimit[k] \in Nat
            BY <1>8, LimitsAssumption
        <3> QED
            BY <1>4, <2>1, <3>2, <3>4, <3>5, <3>6
    <2> QED
        BY <2>2, <2>3
<1>9. ASSUME ScopesLimit[k] # NoLimit, s \in Scopes
      PROVE  scopeSpent[k][s] + ScopeReserved(holds, k, s) + v
                 <= ScopesLimit[k]
    <2>1. ScopesLimit[k] \in Nat
        BY <1>9, LimitsAssumption
    <2>2. ScopeCap(k, c) \in Nat /\ ScopeCap(k, c) <= ScopesLimit[k]
        BY <1>9, <2>1, LimitsAssumption DEF ScopeCap
    <2>3. s # NoScope /\ ScopeCap(k, c) # NoLimit
        BY <1>9, <2>2, NoneAssumption, LimitsAssumption
    <2>4. scopeSpent[k][s] + ScopeReserved(holds, k, s) + v <= ScopeCap(k, c)
        BY <1>6, <2>3 DEF ScopeAdmits
    <2>5. ScopeReserved(holds, k, s) \in Nat /\ scopeSpent[k][s] \in Nat
        BY <1>1, <1>9, AccountTypes
    <2> QED
        BY <1>4, <2>1, <2>2, <2>4, <2>5
<1>10. ASSUME NEW j \in Keys, NEW p \in Days,
              KeyReserved(holds', j, p) # KeyReserved(holds, j, p)
       PROVE  /\ p >= Period(j, day)
              /\ KeyReserved(holds', j, p) > KeyReserved(holds, j, p)
              /\ KeyLimit[j] # NoLimit =>
                    keySpent[j][p] + KeyReserved(holds', j, p) <= KeyLimit[j]
    <2>1. KeyReserved(holds, j, p) \in Nat /\ keySpent[j][p] \in Nat
        BY <1>1, AccountTypes
    <2>2. k = j /\ r = p
        BY <1>7, <1>10, <2>1
    <2>3. KeyReserved(holds', j, p) = KeyReserved(holds, j, p) + v /\ v # 0
        BY <1>7, <1>10, <2>1, <2>2
    <2>4. p >= Period(j, day)
        BY <1>3, <2>2 DEF q
    <2>5. KeyLimit[j] # NoLimit =>
              /\ KeyLimit[j] \in Nat
              /\ keySpent[j][p] + KeyReserved(holds, j, p) + v <= KeyLimit[j]
        BY <1>8, <2>2, LimitsAssumption
    <2> QED
        BY <1>4, <2>1, <2>3, <2>4, <2>5
<1>11. ASSUME NEW j \in Keys, NEW x \in Scopes,
              ScopeReserved(holds', j, x) # ScopeReserved(holds, j, x)
       PROVE  /\ ScopeReserved(holds', j, x) > ScopeReserved(holds, j, x)
              /\ ScopesLimit[j] # NoLimit =>
                    scopeSpent[j][x] + ScopeReserved(holds', j, x)
                        <= ScopesLimit[j]
    <2>1. ScopeReserved(holds, j, x) \in Nat /\ scopeSpent[j][x] \in Nat
        BY <1>1, AccountTypes
    <2>2. k = j /\ s = x
        BY <1>7, <1>11, <2>1
    <2>3. ScopeReserved(holds', j, x) = ScopeReserved(holds, j, x) + v /\ v # 0
        BY <1>7, <1>11, <2>1, <2>2
    <2>4. ScopesLimit[j] # NoLimit =>
              /\ ScopesLimit[j] \in Nat
              /\ scopeSpent[j][x] + ScopeReserved(holds, j, x) + v
                     <= ScopesLimit[j]
        BY <1>9, <2>2, LimitsAssumption
    <2> QED
        BY <1>4, <2>1, <2>3, <2>4
<1>12. keySpent' = keySpent /\ scopeSpent' = scopeSpent
    BY <1>6 DEF spending
<1> QED
    BY <1>10, <1>11, <1>12 DEF Reserves

(* The end of a hold at no cost gives back what it reserved.               *)
LEMMA EndFinishes ==
    ASSUME LedgerInv, NEW x, holds' = Without(holds, x),
           keySpent' = keySpent, scopeSpent' = scopeSpent
    PROVE  Finishes
<1>1. LedgerTypeOK
    BY DEF LedgerInv
<1>2. \A k, y : /\ KeyReserved(holds', k, y) <= KeyReserved(holds, k, y)
                /\ ScopeReserved(holds', k, y) <= ScopeReserved(holds, k, y)
    BY <1>1, ReleasedTable
<1>3. \A k \in Keys : /\ \A p \in Days : keySpent[k][p] \in Nat
                      /\ \A s \in Scopes : scopeSpent[k][s] \in Nat
    BY <1>1, AccountTypes
<1> QED
    BY <1>2, <1>3 DEF Finishes

(* A settlement gives back what was reserved and only ever adds to what    *)
(* was spent.                                                              *)
LEMMA ChargeFinishes ==
    ASSUME LedgerInv, NEW x \in DOMAIN holds, NEW c \in Int, Charge(x, c),
           holds' = Without(holds, x)
    PROVE  Finishes
<1> DEFINE h == holds[x]
           cost == NonNegative(c)
<1>1. LedgerTypeOK /\ h \in HoldType
    BY DEF LedgerInv, LedgerTypeOK, IsTable
<1>2. cost \in Nat
    BY DEF NonNegative
<1>3. /\ keySpent' = [keySpent EXCEPT ![h.key][h.period] = @ + cost]
      /\ scopeSpent' = IF h.scope = NoScope THEN scopeSpent
                       ELSE [scopeSpent EXCEPT ![h.key][h.scope] = @ + cost]
    BY DEF Charge
<1>4. \A k, y : /\ KeyReserved(holds', k, y) <= KeyReserved(holds, k, y)
                /\ ScopeReserved(holds', k, y) <= ScopeReserved(holds, k, y)
    BY <1>1, ReleasedTable
<1> HIDE DEF h, cost
<1>5. ASSUME NEW k \in Keys, NEW p \in Days
      PROVE  keySpent'[k][p] >= keySpent[k][p]
    <2>1. keySpent[k][p] \in Nat
        BY <1>1, AccountTypes
    <2>2. keySpent'[k][p] \in {keySpent[k][p], keySpent[k][p] + cost}
        BY <1>1, <1>3 DEF LedgerTypeOK
    <2> QED
        BY <1>2, <2>1, <2>2
<1>6. ASSUME NEW k \in Keys, NEW s \in Scopes
      PROVE  scopeSpent'[k][s] >= scopeSpent[k][s]
    <2>1. scopeSpent[k][s] \in Nat
        BY <1>1, AccountTypes
    <2>2. scopeSpent'[k][s] \in {scopeSpent[k][s], scopeSpent[k][s] + cost}
        BY <1>1, <1>3 DEF LedgerTypeOK
    <2> QED
        BY <1>2, <2>1, <2>2
<1> QED
    BY <1>4, <1>5, <1>6 DEF Finishes

(* Every step reserves, or finishes what was reserved.                     *)
LEMMA StepKinds ==
    ASSUME LedgerInv, [LedgerNext]_ledgerVars
    PROVE  Reserves \/ Finishes
<1>1. LedgerTypeOK /\ IsTable(holds)
    BY DEF LedgerInv, LedgerTypeOK
<1>2. ASSUME NEW k \in Keys, NEW s \in Scopes \cup {NoScope},
             NEW c \in ClientLimits, NEW a \in Amounts, HoldAdmitted(k, s, c, a)
      PROVE  Reserves
    BY <1>2, HoldReserves
<1>3. ASSUME holds' = holds, keySpent' = keySpent, scopeSpent' = scopeSpent
      PROVE  Finishes
    <2>1. holds' = Without(holds, 0)
        BY <1>3, ReleaseNone
    <2> QED
        BY <1>3, <2>1, EndFinishes
<1>4. CASE BindAccepted
    <2>1. PICK h \in DOMAIN holds, t \in Tasks : Bind(h, t)
        BY <1>4 DEF BindAccepted
    <2>2. holds' = [holds EXCEPT ![h].task = t]
          /\ keySpent' = keySpent /\ scopeSpent' = scopeSpent
        BY <2>1 DEF Bind, spending
    <2>3. \A k, y : /\ KeyReserved(holds', k, y) = KeyReserved(holds, k, y)
                    /\ ScopeReserved(holds', k, y) = ScopeReserved(holds, k, y)
        <3>1. \A k, y :
                  /\ KeyReserved([holds EXCEPT ![h].task = t], k, y)
                        = KeyReserved(holds, k, y)
                  /\ ScopeReserved([holds EXCEPT ![h].task = t], k, y)
                        = ScopeReserved(holds, k, y)
            BY <1>1, BindReserved
        <3> QED
            BY <2>2, <3>1, Zenon
    <2>4. \A k \in Keys, p \in Days :
              KeyReserved(holds', k, p) <= KeyReserved(holds, k, p)
        BY <1>1, <2>3, AccountTypes
    <2>5. \A k \in Keys, s \in Scopes :
              ScopeReserved(holds', k, s) <= ScopeReserved(holds, k, s)
        BY <1>1, <2>3, AccountTypes
    <2>6. \A k \in Keys, p \in Days : keySpent'[k][p] >= keySpent[k][p]
        BY <1>1, <2>2, AccountTypes
    <2>7. \A k \in Keys, s \in Scopes : scopeSpent'[k][s] >= scopeSpent[k][s]
        BY <1>1, <2>2, AccountTypes
    <2> QED
        BY <2>4, <2>5, <2>6, <2>7 DEF Finishes
<1>5. ASSUME NEW h \in DOMAIN holds, Release(h)
      PROVE  Finishes
    BY <1>5, EndFinishes DEF Release, HoldsReleased, spending
<1>6. ASSUME NEW t \in Tasks, Drop(t)
      PROVE  Finishes
    BY <1>6, EndFinishes DEF Drop, spending
<1>7. ASSUME NEW t \in Tasks, NEW c \in Costs, Settle(t, c)
      PROVE  Finishes
    <2>1. CASE byTask[t] \in DOMAIN holds
        <3>1. Charge(byTask[t], c) /\ holds' = Without(holds, byTask[t])
            BY <1>7, <2>1 DEF Settle
        <3>2. c \in Int
            BY MoneyAssumption
        <3> QED
            BY <2>1, <3>1, <3>2, ChargeFinishes
    <2>2. CASE byTask[t] \notin DOMAIN holds
        BY <1>7, <2>2, EndFinishes DEF Settle, spending
    <2> QED
        BY <2>1, <2>2
<1>8. CASE Midnight
    BY <1>3, <1>8 DEF Midnight, spending
<1>9. CASE UNCHANGED ledgerVars
    BY <1>3, <1>9 DEF ledgerVars
<1> QED
    BY <1>2, <1>4, <1>5, <1>6, <1>7, <1>8, <1>9 DEF LedgerNext

(* A period that is over takes no more reservations: every hold is made in *)
(* the period of the clock, which never goes back (CostLedger.hold).       *)
THEOREM PastPeriodsTakeNothing == LedgerSpec => PastPeriodsClose
<1> DEFINE A == \A k \in Keys, p \in Days :
                    p < Period(k, day) =>
                        KeyReserved(holds', k, p) <= KeyReserved(holds, k, p)
<1>1. LedgerInv /\ [LedgerNext]_ledgerVars => A
    <2> SUFFICES ASSUME LedgerInv, [LedgerNext]_ledgerVars,
                        NEW k \in Keys, NEW p \in Days, p < Period(k, day)
                 PROVE  KeyReserved(holds', k, p) <= KeyReserved(holds, k, p)
        OBVIOUS
    <2>1. KeyReserved(holds, k, p) \in Nat
        BY AccountTypes DEF LedgerInv
    <2>2. Period(k, day) \in Nat /\ p \in Nat
        BY PeriodFacts DEF LedgerInv, LedgerTypeOK, Days
    <2>3. CASE Reserves
        BY <2>1, <2>2, <2>3 DEF Reserves
    <2>4. CASE Finishes
        BY <2>4 DEF Finishes
    <2> QED
        BY <2>3, <2>4, StepKinds
<1>2. LedgerInv /\ [LedgerNext]_ledgerVars => [A]_ledgerVars
    BY <1>1
<1> QED
    BY <1>2, LedgerInvariant, PTL DEF LedgerSpec, PastPeriodsClose

-----------------------------------------------------------------------------
(* The ledger implements the abstract accounts.                            *)

(* What is charged to one entry of an account is added to its total.       *)
LEMMA TotalGrows ==
    ASSUME NEW S, NEW f \in [S -> Nat], NEW x \in S, NEW n \in Nat, NEW g,
           \A y \in S : g[y] = IF y = x THEN f[y] + n ELSE f[y],
           IsFiniteSet(Spread(f, S))
    PROVE  IsFiniteSet(Spread(g, S)) /\ Total(g, S) = Total(f, S) + n
<1> DEFINE m == f[x]
           new == {x} \X ((m + 1) .. (m + n))
<1>1. m \in Nat
    OBVIOUS
<1>2. \A y \in S : g[y] = IF y = x THEN m + n ELSE f[y]
    OBVIOUS
<1>3. 1 .. (m + n) = (1 .. m) \cup ((m + 1) .. (m + n))
      /\ (1 .. m) \cap ((m + 1) .. (m + n)) = {}
    BY <1>1
<1>4. Spread(g, S) = Spread(f, S) \cup new
    <2>1. ASSUME NEW u \in Spread(g, S)
          PROVE  u \in Spread(f, S) \cup new
        <3>1. PICK y \in S : u \in {y} \X (1 .. g[y])
            BY DEF Spread
        <3>2. CASE y = x
            BY <1>2, <1>3, <3>1, <3>2 DEF Spread
        <3>3. CASE y # x
            BY <1>2, <3>1, <3>3 DEF Spread
        <3> QED
            BY <3>2, <3>3
    <2>2. ASSUME NEW u \in Spread(f, S)
          PROVE  u \in Spread(g, S)
        <3>1. PICK y \in S : u \in {y} \X (1 .. f[y])
            BY DEF Spread
        <3>2. 1 .. f[y] \subseteq 1 .. g[y]
            BY <1>2, <1>3
        <3>3. u \in {y} \X (1 .. g[y])
            BY <3>1, <3>2
        <3> QED
            BY <3>3 DEF Spread
    <2>3. ASSUME NEW u \in new
          PROVE  u \in Spread(g, S)
        <3>1. u \in {x} \X (1 .. g[x])
            BY <1>2, <1>3
        <3> QED
            BY <3>1 DEF Spread
    <2> QED
        BY <2>1, <2>2, <2>3
<1>5. Spread(f, S) \cap new = {}
    <2> SUFFICES ASSUME NEW u \in Spread(f, S), u \in new PROVE FALSE
        OBVIOUS
    <2>1. PICK y \in S : u \in {y} \X (1 .. f[y])
        BY DEF Spread
    <2>2. y = x /\ u[2] \in 1 .. m /\ u[2] \in (m + 1) .. (m + n)
        BY <2>1
    <2> QED
        BY <1>3, <2>2
<1>6. IsFiniteSet(new) /\ Cardinality(new) = n
    <2>1. IsFiniteSet({x}) /\ Cardinality({x}) = 1
        BY FS_Singleton
    <2>2. IsFiniteSet((m + 1) .. (m + n))
          /\ Cardinality((m + 1) .. (m + n)) = n
        <3> DEFINE a == m + 1
                   b == m + n
        <3>1. /\ a \in Int /\ b \in Int
              /\ (IF a > b THEN 0 ELSE b - a + 1) = n
            BY <1>1
        <3> HIDE DEF a, b
        <3>2. IsFiniteSet(a .. b)
              /\ Cardinality(a .. b) = IF a > b THEN 0 ELSE b - a + 1
            BY <3>1, FS_Interval
        <3> QED
            BY <3>1, <3>2 DEF a, b
    <2>3. /\ IsFiniteSet(new)
          /\ Cardinality(new) = Cardinality({x}) * Cardinality((m + 1) .. (m + n))
        BY <2>1, <2>2, FS_Product
    <2> QED
        BY <2>1, <2>2, <2>3
<1> HIDE DEF new
<1>7. Cardinality(Spread(f, S) \cup new)
          = Cardinality(Spread(f, S)) + Cardinality(new)
    BY <1>5, <1>6, DisjointUnion
<1>8. IsFiniteSet(Spread(f, S) \cup new)
    BY <1>6, FS_Union
<1> QED
    BY <1>4, <1>6, <1>7, <1>8 DEF Total

(* Accounts in which nothing was spent total zero.                         *)
LEMMA TotalNone ==
    ASSUME NEW S, NEW f, \A x \in S : f[x] = 0
    PROVE  IsFiniteSet(Spread(f, S)) /\ Total(f, S) = 0
<1>1. Spread(f, S) = {}
    BY DEF Spread
<1> QED
    BY <1>1, FS_EmptySet DEF Total

(* The scopes' totals against the keys', and that there are totals, as     *)
(* only finitely many scopes were ever charged.                            *)
ReconcileInv ==
    \A k \in Keys :
        /\ IsFiniteSet(Spread(keySpent[k], Days))
        /\ IsFiniteSet(Spread(scopeSpent[k], Scopes))
        /\ Total(scopeSpent[k], Scopes) <= Total(keySpent[k], Days)

(* A settlement charges the scope no more than the key.                    *)
LEMMA ChargeReconciles ==
    ASSUME LedgerTypeOK, ReconcileInv, NEW x \in DOMAIN holds, NEW c \in Int,
           Charge(x, c)
    PROVE  ReconcileInv'
<1> DEFINE h == holds[x]
           cost == NonNegative(c)
<1>1. h \in HoldType
    BY DEF LedgerTypeOK, IsTable
<1>2. cost \in Nat
    BY DEF NonNegative
<1>3. /\ h.key \in Keys /\ h.period \in Days /\ h.scope \in Scopes \cup {NoScope}
    BY <1>1 DEF HoldType
<1>4. /\ keySpent' = [keySpent EXCEPT ![h.key][h.period] = @ + cost]
      /\ scopeSpent' = IF h.scope = NoScope THEN scopeSpent
                       ELSE [scopeSpent EXCEPT ![h.key][h.scope] = @ + cost]
    BY DEF Charge
<1> HIDE DEF h, cost
<1> SUFFICES ASSUME NEW k \in Keys
             PROVE  /\ IsFiniteSet(Spread(keySpent'[k], Days))
                    /\ IsFiniteSet(Spread(scopeSpent'[k], Scopes))
                    /\ Total(scopeSpent'[k], Scopes) <= Total(keySpent'[k], Days)
    BY DEF ReconcileInv
<1>5. /\ keySpent[k] \in [Days -> Nat] /\ scopeSpent[k] \in [Scopes -> Nat]
      /\ keySpent \in [Keys -> [Days -> Nat]]
      /\ scopeSpent \in [Keys -> [Scopes -> Nat]]
    BY DEF LedgerTypeOK
<1>6. /\ IsFiniteSet(Spread(keySpent[k], Days))
      /\ IsFiniteSet(Spread(scopeSpent[k], Scopes))
      /\ Total(scopeSpent[k], Scopes) <= Total(keySpent[k], Days)
    BY DEF ReconcileInv
<1>7. Total(scopeSpent[k], Scopes) \in Nat /\ Total(keySpent[k], Days) \in Nat
    BY <1>6, FS_CardinalityType DEF Total
<1>8. CASE k # h.key
    <2>1. keySpent'[k] = keySpent[k] /\ scopeSpent'[k] = scopeSpent[k]
        BY <1>4, <1>5, <1>8
    <2> QED
        BY <1>6, <2>1
<1>9. CASE k = h.key
    <2>1. \A p \in Days : keySpent'[k][p] = IF p = h.period
                                             THEN keySpent[k][p] + cost
                                             ELSE keySpent[k][p]
        BY <1>3, <1>4, <1>5, <1>9
    <2>2. /\ IsFiniteSet(Spread(keySpent'[k], Days))
          /\ Total(keySpent'[k], Days) = Total(keySpent[k], Days) + cost
        BY <1>2, <1>3, <1>5, <1>6, <2>1, TotalGrows, ZenonT(40)
    <2>3. CASE h.scope = NoScope
        <3>1. scopeSpent'[k] = scopeSpent[k]
            BY <1>4, <2>3
        <3> QED
            BY <1>2, <1>6, <1>7, <2>2, <3>1
    <2>4. CASE h.scope # NoScope
        <3>1. h.scope \in Scopes
            BY <1>3, <2>4
        <3>2. \A s \in Scopes : scopeSpent'[k][s] = IF s = h.scope
                                                     THEN scopeSpent[k][s] + cost
                                                     ELSE scopeSpent[k][s]
            BY <1>4, <1>5, <1>9, <2>4, <3>1
        <3>3. /\ IsFiniteSet(Spread(scopeSpent'[k], Scopes))
              /\ Total(scopeSpent'[k], Scopes)
                    = Total(scopeSpent[k], Scopes) + cost
            <4> DEFINE f == scopeSpent[k]
                       g == scopeSpent'[k]
                       e == h.scope
            <4>1. /\ f \in [Scopes -> Nat] /\ IsFiniteSet(Spread(f, Scopes))
                  /\ e \in Scopes /\ cost \in Nat
                  /\ \A s \in Scopes : g[s] = IF s = e THEN f[s] + cost
                                                       ELSE f[s]
                BY <1>2, <1>5, <1>6, <3>1, <3>2
            <4> HIDE DEF f, g, e
            <4>2. /\ IsFiniteSet(Spread(g, Scopes))
                  /\ Total(g, Scopes) = Total(f, Scopes) + cost
                BY <4>1, TotalGrows
            <4> QED
                BY <4>2 DEF f, g
        <3> QED
            BY <1>2, <1>6, <1>7, <2>2, <3>3
    <2> QED
        BY <2>3, <2>4
<1> QED
    BY <1>8, <1>9

(* Every step keeps the totals reconciled.                                 *)
LEMMA ReconcileNext ==
    ASSUME LedgerInv, ReconcileInv, [LedgerNext]_ledgerVars
    PROVE  ReconcileInv'
<1>1. ASSUME keySpent' = keySpent, scopeSpent' = scopeSpent
      PROVE  ReconcileInv'
    BY <1>1 DEF ReconcileInv
<1>2. ASSUME NEW t \in Tasks, NEW c \in Costs, Settle(t, c)
      PROVE  ReconcileInv'
    <2>1. CASE byTask[t] \in DOMAIN holds
        <3>1. Charge(byTask[t], c) /\ c \in Int
            BY <1>2, <2>1, MoneyAssumption DEF Settle
        <3> QED
            BY <2>1, <3>1, ChargeReconciles DEF LedgerInv
    <2>2. CASE byTask[t] \notin DOMAIN holds
        BY <1>1, <1>2, <2>2 DEF Settle, spending
    <2> QED
        BY <2>1, <2>2
<1>3. ASSUME NEW k \in Keys, NEW s \in Scopes \cup {NoScope},
             NEW c \in ClientLimits, NEW a \in Amounts, HoldAdmitted(k, s, c, a)
      PROVE  ReconcileInv'
    BY <1>1, <1>3 DEF HoldAdmitted, HoldFrom, spending
<1>4. CASE BindAccepted
    BY <1>1, <1>4 DEF BindAccepted, Bind, spending
<1>5. CASE \E h \in DOMAIN holds : Release(h)
    BY <1>1, <1>5 DEF Release, spending
<1>6. CASE \E t \in Tasks : Drop(t)
    BY <1>1, <1>6 DEF Drop, spending
<1>7. CASE Midnight \/ UNCHANGED ledgerVars
    BY <1>1, <1>7 DEF Midnight, ledgerVars, spending
<1> QED
    BY <1>2, <1>3, <1>4, <1>5, <1>6, <1>7 DEF LedgerNext

(* The totals of a key's scopes never exceed those of its periods          *)
(* (CostLedger.settle charges both).                                       *)
THEOREM ScopesAddUp == LedgerSpec => []ScopesReconcile
<1>1. LedgerInit => ReconcileInv
    <2> SUFFICES ASSUME LedgerInit, NEW k \in Keys
                 PROVE  /\ IsFiniteSet(Spread(keySpent[k], Days))
                        /\ IsFiniteSet(Spread(scopeSpent[k], Scopes))
                        /\ Total(scopeSpent[k], Scopes)
                               <= Total(keySpent[k], Days)
        BY DEF ReconcileInv
    <2>1. /\ \A p \in Days : keySpent[k][p] = 0
          /\ \A s \in Scopes : scopeSpent[k][s] = 0
        BY DEF LedgerInit
    <2> QED
        BY <2>1, TotalNone
<1>2. LedgerInv /\ ReconcileInv /\ [LedgerNext]_ledgerVars => ReconcileInv'
    BY ReconcileNext
<1>3. ReconcileInv => ScopesReconcile
    BY DEF ReconcileInv, ScopesReconcile
<1> QED
    BY <1>1, <1>2, <1>3, LedgerInvariant, PTL DEF LedgerSpec

(* The ledger implements an abstract account for every key and period and  *)
(* for every scope of a key: a reservation only grows into room its cap    *)
(* has, nothing that was spent is ever taken back, and no step does both   *)
(* (SpendingCap; CostLedger.hold, release and settle).                     *)
THEOREM LedgerKeepsAccounts == LedgerSpec => AccountsKept
<1> DEFINE K == \A k \in Keys, p \in Days :
                    [KeyAccount(k, p)!Next]_(KeyAccount(k, p)!account)
           S == \A k \in Keys, s \in Scopes :
                    [ScopeAccount(k, s)!Next]_(ScopeAccount(k, s)!account)
           KI == \A k \in Keys, p \in Days : KeyAccount(k, p)!Init
           SI == \A k \in Keys, s \in Scopes : ScopeAccount(k, s)!Init
<1>1. LedgerInit => KI /\ SI
    <2> SUFFICES ASSUME LedgerInit PROVE KI /\ SI
        OBVIOUS
    <2>1. \A k, x : KeyHolds(holds, k, x) = {} /\ ScopeHolds(holds, k, x) = {}
        BY DEF LedgerInit, KeyHolds, ScopeHolds
    <2>2. \A k, x : KeyReserved(holds, k, x) = 0 /\ ScopeReserved(holds, k, x) = 0
        BY <2>1, HeldNone DEF KeyReserved, ScopeReserved
    <2>3. /\ \A k \in Keys, p \in Days : keySpent[k][p] = 0
          /\ \A k \in Keys, s \in Scopes : scopeSpent[k][s] = 0
        BY DEF LedgerInit
    <2> QED
        BY <2>2, <2>3 DEF KeyAccount!Init, ScopeAccount!Init
<1>2. LedgerInv /\ [LedgerNext]_ledgerVars => K
    <2> SUFFICES ASSUME LedgerInv, [LedgerNext]_ledgerVars,
                        NEW k \in Keys, NEW p \in Days
                 PROVE  [KeyAccount(k, p)!Next]_(KeyAccount(k, p)!account)
        OBVIOUS
    <2>1. CASE Finishes
        <3>1. /\ KeyReserved(holds', k, p) <= KeyReserved(holds, k, p)
              /\ keySpent'[k][p] >= keySpent[k][p]
            BY <2>1 DEF Finishes
        <3> QED
            BY <3>1 DEF KeyAccount!Next, KeyAccount!Finish
    <2>2. CASE Reserves
        <3>1. keySpent'[k][p] = keySpent[k][p]
            BY <2>2 DEF Reserves
        <3>2. CASE KeyReserved(holds', k, p) = KeyReserved(holds, k, p)
            BY <3>1, <3>2 DEF KeyAccount!account
        <3>3. CASE KeyReserved(holds', k, p) # KeyReserved(holds, k, p)
            <4>1. /\ KeyReserved(holds', k, p) > KeyReserved(holds, k, p)
                  /\ KeyLimit[k] # NoLimit =>
                        keySpent[k][p] + KeyReserved(holds', k, p)
                            <= KeyLimit[k]
                BY <2>2, <3>3 DEF Reserves
            <4> QED
                BY <3>1, <4>1 DEF KeyAccount!Next, KeyAccount!Reserve
        <3> QED
            BY <3>2, <3>3
    <2> QED
        BY <2>1, <2>2, StepKinds
<1>3. LedgerInv /\ [LedgerNext]_ledgerVars => S
    <2> SUFFICES ASSUME LedgerInv, [LedgerNext]_ledgerVars,
                        NEW k \in Keys, NEW s \in Scopes
                 PROVE  [ScopeAccount(k, s)!Next]_(ScopeAccount(k, s)!account)
        OBVIOUS
    <2>1. CASE Finishes
        <3>1. /\ ScopeReserved(holds', k, s) <= ScopeReserved(holds, k, s)
              /\ scopeSpent'[k][s] >= scopeSpent[k][s]
            BY <2>1 DEF Finishes
        <3> QED
            BY <3>1 DEF ScopeAccount!Next, ScopeAccount!Finish
    <2>2. CASE Reserves
        <3>1. scopeSpent'[k][s] = scopeSpent[k][s]
            BY <2>2 DEF Reserves
        <3>2. CASE ScopeReserved(holds', k, s) = ScopeReserved(holds, k, s)
            BY <3>1, <3>2 DEF ScopeAccount!account
        <3>3. CASE ScopeReserved(holds', k, s) # ScopeReserved(holds, k, s)
            <4>1. /\ ScopeReserved(holds', k, s) > ScopeReserved(holds, k, s)
                  /\ ScopesLimit[k] # NoLimit =>
                        scopeSpent[k][s] + ScopeReserved(holds', k, s)
                            <= ScopesLimit[k]
                BY <2>2, <3>3 DEF Reserves
            <4> QED
                BY <3>1, <4>1 DEF ScopeAccount!Next, ScopeAccount!Reserve
        <3> QED
            BY <3>2, <3>3
    <2> QED
        BY <2>1, <2>2, StepKinds
<1>4. LedgerInv /\ [LedgerNext]_ledgerVars => [K]_ledgerVars /\ [S]_ledgerVars
    BY <1>2, <1>3
<1> HIDE DEF K, S, KI, SI
<1>5. LedgerSpec => KI /\ SI /\ [][K]_ledgerVars /\ [][S]_ledgerVars
    BY <1>1, <1>4, LedgerInvariant, PTL DEF LedgerSpec
<1>6. KeyAccountsKept <=> KI /\ [][K]_ledgerVars
    BY DEF KeyAccountsKept, KI, K
<1>7. ScopeAccountsKept <=> SI /\ [][S]_ledgerVars
    BY DEF ScopeAccountsKept, SI, S
<1> QED
    BY <1>5, <1>6, <1>7, ScopesAddUp, PTL DEF AccountsKept

-----------------------------------------------------------------------------
(* The creates *)

(* Taking the k-th entry out of a queue.                                   *)
LEMMA ShortenedSeq ==
    ASSUME NEW S, NEW q \in Seq(S), NEW k \in 1 .. Len(q)
    PROVE  /\ Shortened(q, k) \in Seq(S)
           /\ Len(Shortened(q, k)) = Len(q) - 1
           /\ \A i \in 1 .. Len(q) - 1 :
                 Shortened(q, k)[i] = IF i < k THEN q[i] ELSE q[i + 1]
<1> DEFINE front == SubSeq(q, 1, k - 1)
           back == SubSeq(q, k + 1, Len(q))
<1>0. Len(q) \in Nat /\ k \in Nat /\ k - 1 \in Nat /\ k <= Len(q) /\ q \in [1 .. Len(q) -> S]
  BY LenProperties
<1>a. \A n, m \in Nat : m <= n =>
         n - (m + 1) + 1 = n - m /\ (m + 1 <= n \/ n - m = 0)
  OBVIOUS
<1>1. /\ front \in Seq(S)
      /\ Len(front) = k - 1
      /\ \A i \in 1 .. k - 1 : front[i] = q[i]
  <2>1. \A i \in 1 .. k - 1 : q[i] \in S
    BY <1>0
  <2>2. /\ front \in Seq(S)
        /\ Len(front) = IF 1 <= k - 1 THEN k - 1 - 1 + 1 ELSE 0
        /\ \A i \in 1 .. k - 1 - 1 + 1 : front[i] = q[1 + i - 1]
    BY <2>1, <1>0, SubSeqProperties
  <2> HIDE DEF front
  <2> QED  BY <2>2, <1>0
<1>2. /\ back \in Seq(S)
      /\ Len(back) = Len(q) - k
      /\ \A i \in 1 .. Len(q) - k : back[i] = q[k + i]
  <2>1. \A i \in k + 1 .. Len(q) : q[i] \in S
    BY <1>0
  <2>2. /\ back \in Seq(S)
        /\ Len(back) = IF k + 1 <= Len(q) THEN Len(q) - (k + 1) + 1 ELSE 0
        /\ \A i \in 1 .. Len(q) - (k + 1) + 1 : back[i] = q[(k + 1) + i - 1]
    BY <2>1, <1>0, SubSeqProperties
  <2>3. \A i \in 1 .. Len(q) - k : (k + 1) + i - 1 = k + i
    BY <1>0
  <2>4. Len(q) - (k + 1) + 1 = Len(q) - k /\ (k + 1 <= Len(q) \/ Len(q) - k = 0)
    BY <1>0, <1>a, Zenon
  <2> HIDE DEF back
  <2>5. \A i \in 1 .. Len(q) - k : back[i] = q[k + i]
    BY <2>2, <2>3, <2>4
  <2> QED  BY <2>2, <2>4, <2>5
<1> HIDE DEF front, back
<1>3. /\ front \o back \in Seq(S)
      /\ Len(front \o back) = Len(front) + Len(back)
      /\ \A i \in 1 .. Len(front) + Len(back) :
            (front \o back)[i] = IF i <= Len(front) THEN front[i] ELSE back[i - Len(front)]
  BY <1>1, <1>2, ConcatProperties
<1>4. ASSUME NEW i \in 1 .. Len(q) - 1
      PROVE  (front \o back)[i] = IF i < k THEN q[i] ELSE q[i + 1]
  <2>1. i \in Nat /\ i <= Len(front) + Len(back) /\ Len(front) = k - 1
    BY <1>0, <1>1, <1>2
  <2>2. (front \o back)[i] = IF i <= Len(front) THEN front[i] ELSE back[i - Len(front)]
    BY <1>3, <2>1
  <2>3. CASE i < k
    BY <2>1, <2>2, <2>3, <1>0, <1>1
  <2>4. CASE ~(i < k)
    <3>1. i - (k - 1) \in 1 .. Len(q) - k /\ k + (i - (k - 1)) = i + 1
      BY <2>1, <2>4, <1>0
    <3>2. back[i - (k - 1)] = q[i + 1]
      BY <3>1, <1>2
    <3> QED  BY <2>1, <2>2, <2>4, <3>2, <1>0
  <2> QED  BY <2>3, <2>4
<1>5. Len(front \o back) = Len(q) - 1
  BY <1>0, <1>1, <1>2, <1>3
<1> QED  BY <1>3, <1>4, <1>5 DEF front, back, Shortened

(* Taking an entry out of a queue without repetitions leaves the others,   *)
(* and the head if it is one of them.                                      *)
LEMMA ShortenedQueue ==
    ASSUME NEW S, NEW q \in Seq(S), NEW k \in 1 .. Len(q),
           \A i, j \in 1 .. Len(q) : q[i] = q[j] => i = j
    PROVE  LET p == Shortened(q, k)
           IN  /\ p \in Seq(S) /\ Len(p) \in Nat
               /\ \A i, j \in 1 .. Len(p) : p[i] = p[j] => i = j
               /\ \A y : (\E i \in 1 .. Len(p) : p[i] = y)
                            <=> y # q[k] /\ \E i \in 1 .. Len(q) : q[i] = y
               /\ k # 1 => Len(p) > 0 /\ p[1] = q[1]
<1> DEFINE p == Shortened(q, k)
<1>1. Len(q) \in Nat
  BY LenProperties
<1>2. /\ p \in Seq(S) /\ Len(p) = Len(q) - 1
      /\ \A i \in 1 .. Len(q) - 1 : p[i] = IF i < k THEN q[i] ELSE q[i + 1]
  BY ShortenedSeq
<1> HIDE DEF p
<1>3. \A i, j \in 1 .. Len(p) : p[i] = p[j] => i = j
  BY <1>1, <1>2
<1>4. ASSUME NEW y
      PROVE  (\E i \in 1 .. Len(p) : p[i] = y)
                <=> y # q[k] /\ \E i \in 1 .. Len(q) : q[i] = y
  <2>1. ASSUME NEW i \in 1 .. Len(p), p[i] = y
        PROVE  y # q[k] /\ \E j \in 1 .. Len(q) : q[j] = y
    <3>1. CASE i < k
      <4>1. i \in 1 .. Len(q) /\ q[i] = y /\ i # k
        BY <3>1, <2>1, <1>1, <1>2
      <4> QED  BY <4>1
    <3>2. CASE ~(i < k)
      <4>1. i + 1 \in 1 .. Len(q) /\ q[i + 1] = y /\ i + 1 # k
        BY <3>2, <2>1, <1>1, <1>2, SMTT(30)
      <4> QED  BY <4>1
    <3> QED  BY <3>1, <3>2
  <2>2. ASSUME NEW i \in 1 .. Len(q), q[i] = y, y # q[k]
        PROVE  \E j \in 1 .. Len(p) : p[j] = y
    <3>1. CASE i < k
      BY <3>1, <2>2, <1>1, <1>2
    <3>2. CASE i > k
      <4>1. i - 1 \in 1 .. Len(p) /\ p[i - 1] = y
        BY <3>2, <2>2, <1>1, <1>2
      <4> QED  BY <4>1
    <3> QED  BY <3>1, <3>2, <2>2, <1>1
  <2> QED  BY <2>1, <2>2
<1>5. Len(p) \in Nat /\ (k # 1 => Len(p) > 0 /\ p[1] = q[1])
  BY <1>1, <1>2
<1> QED  BY <1>2, <1>3, <1>4, <1>5 DEF p

(* A create that leaves its guard leaves the others there, and the one     *)
(* that owns it is not displaced.                                          *)
LEMMA LeavingGuard ==
    ASSUME GenerationTypeOK, GuardSound, NEW r \in Requests,
           pc[r] \notin {"idle", "answered"}, guard' = Leave(r)
    PROVE  /\ guard' \in [IdemScopes -> Seq(Requests)]
           /\ \A s \in IdemScopes : \A i, j \in 1 .. Len(guard'[s]) :
                 guard'[s][i] = guard'[s][j] => i = j
           /\ \A q \in Requests : IdemScope[q] # NoIdem =>
                 ((\E i \in 1 .. Len(guard'[IdemScope[q]]) :
                       guard'[IdemScope[q]][i] = q) <=>
                  q # r /\ pc[q] \notin {"idle", "answered"})
           /\ \A q \in Requests :
                 q # r /\ pc[q] \notin {"idle", "answered"} /\ Owns(q) => Owns(q)'
<1> DEFINE In(q, f) == \E i \in 1 .. Len(f[IdemScope[q]]) : f[IdemScope[q]][i] = q
           Under(q) == pc[q] \notin {"idle", "answered"}
           s == IdemScope[r]
           k == Place(r, guard[s])
<1>1. /\ guard \in [IdemScopes -> Seq(Requests)]
      /\ \A q \in Requests : IdemScope[q] # NoIdem => IdemScope[q] \in IdemScopes
  BY RequestAssumption DEF GenerationTypeOK
<1>2. /\ \A x \in IdemScopes : \A i, j \in 1 .. Len(guard[x]) :
            guard[x][i] = guard[x][j] => i = j
      /\ \A q \in Requests : IdemScope[q] # NoIdem => (Under(q) <=> In(q, guard))
  BY DEF GuardSound
<1>3. CASE s = NoIdem
  <2>1. guard' = guard
    BY <1>3 DEF Leave
  <2>2. \A q \in Requests : IdemScope[q] # NoIdem => (In(q, guard) <=> q # r /\ Under(q))
    BY <1>2, <1>3
  <2>3. \A q \in Requests : Owns(q) => Owns(q)'
    BY <2>1 DEF Owns
  <2> QED  BY <1>1, <1>2, <2>1, <2>2, <2>3
<1>4. CASE s # NoIdem
  <2>1. /\ s \in IdemScopes /\ guard[s] \in Seq(Requests)
        /\ k \in 1 .. Len(guard[s]) /\ guard[s][k] = r
    BY <1>1, <1>2, <1>4 DEF Place
  <2>2. guard' = [guard EXCEPT ![s] = Shortened(guard[s], k)]
    BY <1>4 DEF Leave
  <2> DEFINE p == Shortened(guard[s], k)
  <2> HIDE DEF k
  <2>3. /\ p \in Seq(Requests) /\ Len(p) \in Nat
        /\ \A i, j \in 1 .. Len(p) : p[i] = p[j] => i = j
        /\ \A y : (\E i \in 1 .. Len(p) : p[i] = y)
                     <=> y # r /\ \E i \in 1 .. Len(guard[s]) : guard[s][i] = y
        /\ k # 1 => Len(p) > 0 /\ p[1] = guard[s][1]
    <3>1. \A i, j \in 1 .. Len(guard[s]) : guard[s][i] = guard[s][j] => i = j
      BY <1>2, <2>1
    <3>2. \A y : (\E i \in 1 .. Len(p) : p[i] = y)
                     <=> y # guard[s][k] /\ \E i \in 1 .. Len(guard[s]) : guard[s][i] = y
      BY <2>1, <3>1, ShortenedQueue, ZenonT(30)
    <3> QED  BY <2>1, <3>1, <3>2, ShortenedQueue
  <2> HIDE DEF p
  <2>4. /\ guard' \in [IdemScopes -> Seq(Requests)]
        /\ guard'[s] = p /\ \A x \in IdemScopes \ {s} : guard'[x] = guard[x]
    BY <1>1, <2>1, <2>2, <2>3 DEF p
  <2> HIDE DEF s
  <2>5. \A x \in IdemScopes : \A i, j \in 1 .. Len(guard'[x]) :
            guard'[x][i] = guard'[x][j] => i = j
    BY <1>2, <2>3, <2>4
  <2>6. ASSUME NEW q \in Requests, IdemScope[q] # NoIdem
        PROVE  In(q, guard') <=> q # r /\ Under(q)
    <3>1. CASE IdemScope[q] = s
      <4>1. In(q, guard') <=> \E i \in 1 .. Len(p) : p[i] = q
        BY <3>1, <2>4
      <4>2. In(q, guard) <=> \E i \in 1 .. Len(guard[s]) : guard[s][i] = q
        BY <3>1
      <4>3. In(q, guard') <=> q # r /\ In(q, guard)
        BY <4>1, <4>2, <2>3
      <4> QED  BY <4>3, <2>6, <1>2
    <3>2. CASE IdemScope[q] # s
      BY <3>2, <2>6, <1>1, <1>2, <2>4 DEF s
    <3> QED  BY <3>1, <3>2
  <2>7. ASSUME NEW q \in Requests, q # r, Under(q), Owns(q)
        PROVE  Owns(q)'
    <3>1. CASE IdemScope[q] = NoIdem
      BY <3>1 DEF Owns
    <3>2. CASE IdemScope[q] # NoIdem /\ IdemScope[q] # s
      <4>1. guard'[IdemScope[q]] = guard[IdemScope[q]]
        BY <3>2, <1>1, <2>4
      <4> QED  BY <4>1, <2>7 DEF Owns
    <3>3. CASE IdemScope[q] # NoIdem /\ IdemScope[q] = s
      <4>1. In(q, guard)
        BY <3>3, <2>7, <1>2
      <4>2. guard[s] # <<>>
        BY <4>1, <3>3, <2>1, EmptySeq
      <4>3. guard[s][1] = q
        BY <4>2, <3>3, <2>7, <2>1 DEF Owns
      <4>4. k # 1
        BY <4>3, <2>7, <2>1
      <4>5. p # <<>> /\ p[1] = q
        BY <4>3, <4>4, <2>3, EmptySeq
      <4> QED  BY <4>5, <3>3, <2>3, <2>4 DEF Owns
    <3> QED  BY <3>1, <3>2, <3>3
  <2> QED  BY <2>4, <2>5, <2>6, <2>7
<1> QED  BY <1>3, <1>4

(* There is one create past each guard.                                    *)
LEMMA OneOwner ==
    ASSUME NEW r \in Requests, NEW q \in Requests, Owns(r), Owns(q),
           IdemScope[r] # NoIdem, IdemScope[q] = IdemScope[r]
    PROVE  q = r
BY DEF Owns

(* A create that is answered gives up its guard; the record it may have    *)
(* left concerns no other create that is past the guard.                   *)
LEMMA AnsweredGuard ==
    ASSUME GenerationTypeOK, GuardSound, NEW r \in Requests,
           pc[r] \notin {"idle", "answered"}, NEW how \in Outcomes,
           NEW t \in Tasks \cup {NoTask}, Answer(r, how, t), NEW v,
           \/ records' = records
           \/ /\ PastGuard(r)
              /\ records' = IF IdemScope[r] = NoIdem THEN records
                            ELSE [records EXCEPT ![IdemScope[r]] = v]
    PROVE  /\ GuardSound'
           /\ guard' \in [IdemScopes -> Seq(Requests)]
           /\ pc' \in [Requests -> Stages] /\ pc'[r] = "answered"
           /\ outcome' \in [Requests -> Outcomes] /\ outcome'[r] = how
           /\ answer' \in [Requests -> Tasks \cup {NoTask}] /\ answer'[r] = t
           /\ \A q \in Requests \ {r} : /\ pc'[q] = pc[q]
                                        /\ outcome'[q] = outcome[q]
                                        /\ answer'[q] = answer[q]
           /\ \A q \in Requests : PastGuard(q) => q = r \/ RecordOf(q)' = RecordOf(q)
<1>1. /\ pc \in [Requests -> Stages] /\ outcome \in [Requests -> Outcomes]
      /\ answer \in [Requests -> Tasks \cup {NoTask}]
      /\ DOMAIN records = IdemScopes
  BY DEF GenerationTypeOK
<1>2. /\ pc' = [pc EXCEPT ![r] = "answered"] /\ outcome' = [outcome EXCEPT ![r] = how]
      /\ answer' = [answer EXCEPT ![r] = t] /\ guard' = Leave(r)
  BY DEF Answer
<1>3. "answered" \in Stages
  BY DEF Stages
<1>4. /\ pc' \in [Requests -> Stages] /\ pc'[r] = "answered"
      /\ outcome' \in [Requests -> Outcomes] /\ outcome'[r] = how
      /\ answer' \in [Requests -> Tasks \cup {NoTask}] /\ answer'[r] = t
      /\ \A q \in Requests \ {r} : /\ pc'[q] = pc[q]
                                   /\ outcome'[q] = outcome[q]
                                   /\ answer'[q] = answer[q]
  BY <1>1, <1>2, <1>3
<1>5. /\ guard' \in [IdemScopes -> Seq(Requests)]
      /\ \A s \in IdemScopes : \A i, j \in 1 .. Len(guard'[s]) :
            guard'[s][i] = guard'[s][j] => i = j
      /\ \A q \in Requests : IdemScope[q] # NoIdem =>
            ((\E i \in 1 .. Len(guard'[IdemScope[q]]) : guard'[IdemScope[q]][i] = q)
                <=> q # r /\ pc[q] \notin {"idle", "answered"})
      /\ \A q \in Requests :
            q # r /\ pc[q] \notin {"idle", "answered"} /\ Owns(q) => Owns(q)'
  BY <1>2, LeavingGuard
<1>6. ASSUME NEW q \in Requests, PastGuard(q), q # r
      PROVE  RecordOf(q)' = RecordOf(q)
  <2>1. CASE records' = records
    BY <2>1 DEF RecordOf
  <2>2. CASE PastGuard(r) /\ IdemScope[q] # IdemScope[r]
    BY <2>2, <1>1, RequestAssumption DEF RecordOf
  <2>3. CASE IdemScope[r] = NoIdem
    BY <2>3 DEF RecordOf
  <2>4. CASE PastGuard(r) /\ IdemScope[q] = IdemScope[r] /\ IdemScope[r] # NoIdem
    BY <2>4, <1>6, OneOwner DEF GuardSound
  <2> QED  BY <2>1, <2>2, <2>3, <2>4
<1>7. ASSUME NEW q \in Requests, PastGuard(q)'
      PROVE  Owns(q)' /\ RecordOf(q)' = NoRecord
  <2>1. q # r /\ PastGuard(q) /\ pc[q] \notin {"idle", "answered"}
    BY <1>7, <1>4 DEF PastGuard
  <2>2. Owns(q) /\ RecordOf(q) = NoRecord
    BY <2>1 DEF GuardSound
  <2> QED  BY <2>1, <2>2, <1>5, <1>6
<1>8. \A q \in Requests : IdemScope[q] # NoIdem =>
          (pc'[q] \notin {"idle", "answered"} <=>
              \E i \in 1 .. Len(guard'[IdemScope[q]]) : guard'[IdemScope[q]][i] = q)
  BY <1>4, <1>5
<1>9. GuardSound'
  BY <1>5, <1>7, <1>8 DEF GuardSound, NoRecord
<1> QED  BY <1>4, <1>5, <1>6, <1>9

(* A create that goes from one stage to the next keeps its place.          *)
LEMMA StagedGuard ==
    ASSUME GenerationTypeOK, GuardSound, NEW r \in Requests,
           pc[r] \notin {"idle", "answered"}, Owns(r), RecordOf(r) = NoRecord,
           NEW v \in Stages \ {"idle", "answered"},
           pc' = [pc EXCEPT ![r] = v], guard' = guard, records' = records
    PROVE  /\ GuardSound'
           /\ pc' \in [Requests -> Stages] /\ pc'[r] = v
           /\ \A q \in Requests \ {r} : pc'[q] = pc[q]
<1>1. /\ pc' \in [Requests -> Stages] /\ pc'[r] = v
      /\ \A q \in Requests \ {r} : pc'[q] = pc[q]
  BY DEF GenerationTypeOK
<1>2. \A q \in Requests : /\ Owns(q)' = Owns(q)
                          /\ RecordOf(q)' = RecordOf(q)
  BY DEF Owns, RecordOf
<1>3. \A q \in Requests : pc'[q] \notin {"idle", "answered"}
                              <=> pc[q] \notin {"idle", "answered"}
  BY <1>1
<1>4. ASSUME NEW q \in Requests, PastGuard(q)'
      PROVE  Owns(q)' /\ RecordOf(q)' = NoRecord
  <2>1. CASE q = r
    BY <2>1, <1>2
  <2>2. CASE q # r
    BY <2>2, <1>1, <1>2, <1>4 DEF PastGuard, GuardSound
  <2> QED  BY <2>1, <2>2
<1>5. GuardSound'
  BY <1>3, <1>4 DEF GuardSound, NoRecord
<1> QED  BY <1>1, <1>5

-----------------------------------------------------------------------------
(* The invariant of a create and its task: GenerationInv and ChargedOnce.  *)
Inv == GenerationInv /\ ChargedOnce

(* An attempt's hold is indexed by no task under observation, so that its  *)
(* release leaves the index of every observed task alone.                  *)
LEMMA AttemptIndex ==
    ASSUME UniqueTasks, Inv, NEW r \in Requests,
           pc[r] \in {"routing", "creating", "syncing"}
    PROVE  /\ hold[r] \in 0 .. MaxHolds
           /\ hold[r] # 0 => hold[r] \in DOMAIN holds
           /\ IndexReleased(hold[r]) \in [Tasks -> 0 .. MaxHolds]
           /\ \A t \in Tasks :
                 /\ \/ IndexReleased(hold[r])[t] = byTask[t]
                    \/ byTask[t] = hold[r] /\ IndexReleased(hold[r])[t] = 0
                 /\ entry[t] = "running" =>
                       /\ byTask[t] # 0 /\ byTask[t] # hold[r]
                       /\ IndexReleased(hold[r])[t] = byTask[t]
<1> DEFINE x == hold[r]
<1> USE DEF Inv, GenerationInv
<1>1. x \in 0 .. MaxHolds
  BY DEF GenerationTypeOK
<1>2. x # 0 => x \in DOMAIN holds
  BY DEF AttemptsSound, InFlight
<1>3. /\ IndexReleased(x) \in [Tasks -> 0 .. MaxHolds]
      /\ \A t \in Tasks :
            /\ IndexReleased(x)[t] \in {0, byTask[t]}
            /\ byTask[t] = x => IndexReleased(x)[t] = 0
            /\ UniqueTasks => IndexReleased(x)[t] = byTask[t] \/ byTask[t] = x
  BY IndexReleasedFacts
<1>4. ASSUME NEW t \in Tasks, entry[t] = "running"
      PROVE  byTask[t] # 0 /\ byTask[t] # x
  <2>1. byTask[t] # 0 /\ holds[byTask[t]].task = t
    BY <1>4 DEF ObservedTasksHeld, LedgerInv, IndexSound
  <2>2. CASE pc[r] = "routing"
    BY <2>1, <2>2 DEF AttemptsSound
  <2>3. CASE pc[r] = "creating"
    BY <2>1, <2>3, NoneAssumption DEF AttemptsSound
  <2>4. CASE pc[r] = "syncing"
    BY <2>1, <2>4, <1>4 DEF AttemptsSound
  <2> QED  BY <2>2, <2>3, <2>4
<1> HIDE DEF x
<1>5. /\ x \in 0 .. MaxHolds
      /\ x # 0 => x \in DOMAIN holds
      /\ IndexReleased(x) \in [Tasks -> 0 .. MaxHolds]
      /\ \A t \in Tasks :
            /\ \/ IndexReleased(x)[t] = byTask[t]
               \/ byTask[t] = x /\ IndexReleased(x)[t] = 0
            /\ entry[t] = "running" =>
                  /\ byTask[t] # 0 /\ byTask[t] # x
                  /\ IndexReleased(x)[t] = byTask[t]
  BY <1>1, <1>2, <1>3, <1>4
<1> QED  BY <1>5 DEF x

(* The next attempt of a create, or its end when no candidate is left: the *)
(* hold n of the new attempt is new, or 0.  The acceptance that a closed   *)
(* supervisor refused may be recorded in the same step.                    *)
LEMMA AttemptRest ==
    ASSUME UniqueTasks, Inv, NEW r \in Requests,
           pc[r] \in {"routing", "creating", "syncing"},
           LedgerInv', GuardSound', NEW n, n = 0 \/ n = nextId,
           IF n = 0 THEN /\ pc'[r] = "answered" /\ outcome'[r] = "failed"
                         /\ answer'[r] = NoTask /\ nextId' = nextId
                         /\ DOMAIN holds' = DOMAIN holds \ {hold[r]}
                    ELSE /\ pc'[r] = "creating" /\ outcome'[r] = outcome[r]
                         /\ answer'[r] = answer[r] /\ nextId' = nextId + 1
                         /\ DOMAIN holds' = (DOMAIN holds \ {hold[r]}) \cup {n}
                         /\ holds'[n].task = NoTask
                         /\ n \in (1 .. MaxHolds) \ DOMAIN holds,
           pc' \in [Requests -> Stages], outcome' \in [Requests -> Outcomes],
           answer' \in [Requests -> Tasks \cup {NoTask}],
           guard' \in [IdemScopes -> Seq(Requests)],
           left' \in [Requests -> SUBSET DOMAIN Estimate],
           \A q \in Requests \ {r} : /\ pc'[q] = pc[q]
                                     /\ outcome'[q] = outcome[q]
                                     /\ answer'[q] = answer[q],
           \A h \in DOMAIN holds \ {hold[r]} : holds'[h] = holds[h],
           byTask' = IndexReleased(hold[r]),
           hold' = [hold EXCEPT ![r] = n], job' = [job EXCEPT ![r] = NoTask],
           \/ bound' = bound
           \/ /\ closed /\ pc[r] = "creating" /\ job[r] # NoTask
              /\ bound' = [bound EXCEPT ![job[r]] = r],
           UNCHANGED <<entry, charged, records, made, errors, closed>>
    PROVE  Inv'
<1> USE DEF Inv, GenerationInv
<1>1. /\ hold[r] \in 0 .. MaxHolds
      /\ hold[r] # 0 => hold[r] \in DOMAIN holds
      /\ byTask' \in [Tasks -> 0 .. MaxHolds]
      /\ \A t \in Tasks :
            /\ byTask'[t] = byTask[t] \/ (byTask[t] = hold[r] /\ byTask'[t] = 0)
            /\ entry[t] = "running" => byTask'[t] = byTask[t] /\ byTask[t] # 0
  BY AttemptIndex
<1>a. n \in 0 .. MaxHolds
  BY ClockAssumption
<1>2. /\ hold \in [Requests -> 0 .. MaxHolds] /\ hold' \in [Requests -> 0 .. MaxHolds]
      /\ hold'[r] = n /\ \A q \in Requests \ {r} : hold'[q] = hold[q]
  BY <1>a DEF GenerationTypeOK
<1>3. /\ job \in [Requests -> Tasks \cup {NoTask}]
      /\ job' \in [Requests -> Tasks \cup {NoTask}]
      /\ job'[r] = NoTask /\ \A q \in Requests \ {r} : job'[q] = job[q]
  BY DEF GenerationTypeOK
<1>4. /\ bound \in [Tasks -> Requests \cup {NoRequest}]
      /\ bound' \in [Tasks -> Requests \cup {NoRequest}]
      /\ \A t \in Tasks : \/ bound'[t] = bound[t]
                          \/ closed /\ t = job[r] /\ bound'[t] = r
      /\ ~closed => bound' = bound
  BY <1>3, ZenonT(30) DEF GenerationTypeOK
<1>5. nextId \in Nat /\ DOMAIN holds \subseteq 1 .. MaxHolds
  BY ClockAssumption DEF LedgerInv, LedgerTypeOK, IsTable
<1>6. GenerationTypeOK'
  BY <1>2, <1>3, <1>4 DEF GenerationTypeOK, Bodies, NoRecord
<1>7. pc[r] # "answered" /\ outcome[r] = "none"
  BY DEF AnswersSound
<1>8. AttemptsSound'
  <2>1. \A q \in Requests : hold[q] < nextId
    BY DEF AttemptsSound
  <2>2. \A q \in Requests : hold'[q] < nextId'
    BY <2>1, <1>2, <1>5
  <2>3. ASSUME NEW q \in Requests, NEW p \in Requests,
               hold'[q] = hold'[p], hold'[q] # 0
        PROVE  q = p
    <3>1. \A u, w \in Requests : hold[u] = hold[w] /\ hold[u] # 0 => u = w
      BY DEF AttemptsSound
    <3> QED  BY <3>1, <2>1, <2>3, <1>2, <1>5
  <2>4. ASSUME NEW q \in Requests \ {r}, InFlight(q)
        PROVE  /\ hold[q] \in DOMAIN holds' /\ holds'[hold[q]] = holds[hold[q]]
    <3>1. hold[q] \in DOMAIN holds /\ hold[q] # 0
      BY <2>4, <1>5 DEF AttemptsSound
    <3>2. hold[q] # hold[r]
      BY <3>1 DEF AttemptsSound
    <3> QED  BY <3>1, <3>2
  <2>5. ASSUME NEW q \in Requests
        PROVE  /\ pc'[q] \in {"idle", "queued", "routing"} =>
                      hold'[q] = 0 /\ job'[q] = NoTask
               /\ InFlight(q)' => hold'[q] \in DOMAIN holds'
               /\ pc'[q] = "creating" =>
                      /\ holds'[hold'[q]].task = NoTask
                      /\ job'[q] # NoTask => bound'[job'[q]] = NoRequest
               /\ pc'[q] = "syncing" =>
                      /\ job'[q] # NoTask
                      /\ holds'[hold'[q]].task = job'[q]
                      /\ entry'[job'[q]] = "none"
               /\ pc'[q] = "leaving" => job'[q] # NoTask
    <3>1. CASE q = r
      BY <3>1, <1>2, <1>3, <1>5 DEF InFlight
    <3>2. CASE q # r
      <4>1. /\ pc'[q] = pc[q] /\ hold'[q] = hold[q] /\ job'[q] = job[q]
            /\ InFlight(q)' = InFlight(q)
        BY <3>2, <1>2, <1>3 DEF InFlight
      <4>2. job[q] # NoTask => job[q] \in Tasks /\ job[q] # job[r]
        BY <3>2, <1>3 DEF TasksSound
      <4>3. job[q] # NoTask => bound'[job[q]] = bound[job[q]]
        BY <4>2, <1>4
      <4>4. pc[q] \in {"idle", "queued", "routing"} => hold[q] = 0 /\ job[q] = NoTask
        BY DEF AttemptsSound
      <4>5. pc[q] = "creating" => /\ holds[hold[q]].task = NoTask /\ InFlight(q)
                                  /\ job[q] # NoTask => bound[job[q]] = NoRequest
        BY DEF AttemptsSound, InFlight
      <4>6. pc[q] = "syncing" => /\ job[q] # NoTask /\ InFlight(q)
                                 /\ holds[hold[q]].task = job[q]
                                 /\ entry[job[q]] = "none"
        BY DEF AttemptsSound, InFlight
      <4>7. pc[q] = "leaving" => job[q] # NoTask
        BY DEF AttemptsSound
      <4>8. entry' = entry
        OBVIOUS
      <4> QED  BY <3>2, <4>1, <4>3, <4>4, <4>5, <4>6, <4>7, <4>8, <2>4
    <3> QED  BY <3>1, <3>2
  <2> QED  BY <2>2, <2>3, <2>5 DEF AttemptsSound
<1>9. TasksSound'
  <2>1. \A q \in Requests : job'[q] # NoTask => job'[q] \in made
    BY <1>3 DEF TasksSound
  <2>2. \A q, p \in Requests : job'[q] = job'[p] /\ job'[q] # NoTask => q = p
    BY <1>3 DEF TasksSound
  <2>3. \A t \in Tasks : bound'[t] # NoRequest => t \in made
    BY <1>3, <1>4 DEF TasksSound
  <2>4. \A t \in Tasks : bound[t] # NoRequest => bound'[t] # NoRequest
    BY <1>4, RequestAssumption
  <2>5. \A t \in Tasks : entry[t] # "none" \/ byTask'[t] # 0 => bound'[t] # NoRequest
    BY <2>4, <1>1 DEF TasksSound
  <2> QED  BY <2>1, <2>2, <2>3, <2>5 DEF TasksSound, MaxErrors
<1>10. AnswersSound'
  <2>1. \A q \in Requests : outcome'[q] = "none" <=> pc'[q] # "answered"
    BY <1>7 DEF AnswersSound
  <2>2. \A q \in Requests : outcome[q] = "created" =>
            outcome'[q] = "created" /\ job'[q] = job[q]
    BY <1>3, <1>7
  <2>3. \A q \in Requests : answer'[q] # NoTask => answer'[q] = answer[q]
    OBVIOUS
  <2>4. ASSUME NEW q \in Requests, answer'[q] # NoTask
        PROVE  \E p \in Requests : outcome'[p] = "created" /\ job'[p] = answer'[q]
    <3>1. PICK p \in Requests : outcome[p] = "created" /\ job[p] = answer[q]
      BY <2>3, <2>4 DEF AnswersSound
    <3> QED  BY <3>1, <2>2, <2>3, <2>4
  <2>5. ASSUME NEW s \in IdemScopes, records[s] # NoRecord
        PROVE  \E p \in Requests : outcome'[p] = "created" /\ job'[p] = records[s].task
    <3>1. PICK p \in Requests : outcome[p] = "created" /\ job[p] = records[s].task
      BY <2>5 DEF AnswersSound
    <3> QED  BY <3>1, <2>2
  <2> QED  BY <2>1, <2>4, <2>5 DEF AnswersSound, NoRecord
<1>11. AcceptedLast'
  <2> SUFFICES ASSUME NEW t \in Tasks, NEW q \in Requests \ SyncWait,
                      bound'[t] = q, ~closed
               PROVE  /\ pc'[q] \in {"leaving", "answered"}
                      /\ job'[q] = t
                      /\ \/ IdemScope[q] = NoIdem
                         \/ q \in MayCancel
                         \/ pc'[q] = "leaving"
                         \/ RecordOf(q)'.task = t
    BY DEF AcceptedLast
  <2>1. bound[t] = q
    BY <1>4
  <2>2. /\ pc[q] \in {"leaving", "answered"}
        /\ job[q] = t
        /\ \/ IdemScope[q] = NoIdem
           \/ q \in MayCancel
           \/ pc[q] = "leaving"
           \/ RecordOf(q).task = t
    BY <2>1 DEF AcceptedLast
  <2>3. q # r /\ RecordOf(q)' = RecordOf(q)
    BY <2>2 DEF RecordOf
  <2> QED  BY <2>2, <2>3, <1>3
<1>12. HoldsOwned'
  <2> SUFFICES ASSUME NEW h \in DOMAIN holds'
               PROVE  \/ \E q \in Requests : hold'[q] = h /\ InFlight(q)'
                      \/ \E t \in Tasks : byTask'[t] = h /\ entry'[t] = "running"
                      \/ \E q \in Requests : hold'[q] = h /\ outcome'[q] = "cancelled"
    BY DEF HoldsOwned
  <2>1. CASE h \in DOMAIN holds \ {hold[r]}
    <3>1. \/ \E q \in Requests : hold[q] = h /\ InFlight(q)
          \/ \E t \in Tasks : byTask[t] = h /\ entry[t] = "running"
          \/ \E q \in Requests : hold[q] = h /\ outcome[q] = "cancelled"
      BY <2>1 DEF HoldsOwned
    <3>2. \A q \in Requests : hold[q] = h => /\ q # r /\ hold'[q] = h
                                             /\ pc'[q] = pc[q] /\ outcome'[q] = outcome[q]
      BY <2>1, <1>2
    <3> QED  BY <3>1, <3>2, <1>1 DEF InFlight
  <2>2. CASE h \notin DOMAIN holds \ {hold[r]}
    <3>1. n # 0 /\ h = n
      BY <2>2
    <3> QED  BY <3>1, <1>2 DEF InFlight
  <2> QED  BY <2>1, <2>2
<1>13. ObservedTasksHeld' /\ ChargedOnce'
  BY <1>1 DEF ObservedTasksHeld, ChargedOnce
<1> QED  BY <1>6, <1>8, <1>9, <1>10, <1>11, <1>12, <1>13

(* execute_plan goes from one attempt to the next, or gives up.            *)
LEMMA AttemptStep ==
    ASSUME UniqueTasks, Inv, NEW r \in Requests,
           pc[r] \in {"routing", "creating", "syncing"},
           NEW cands \in SUBSET DOMAIN Estimate,
           NextAttempt(Without(holds, hold[r]), r, cands),
           byTask' = IndexReleased(hold[r]), job' = [job EXCEPT ![r] = NoTask],
           \/ bound' = bound
           \/ /\ closed /\ pc[r] = "creating" /\ job[r] # NoTask
              /\ bound' = [bound EXCEPT ![job[r]] = r],
           UNCHANGED <<entry, charged, records, made, errors, closed>>
    PROVE  Inv'
<1> USE DEF Inv, GenerationInv
<1> DEFINE hs == Without(holds, hold[r])
<1>1. /\ left \in [Requests -> SUBSET DOMAIN Estimate]
      /\ outcome \in [Requests -> Outcomes]
      /\ answer \in [Requests -> Tasks \cup {NoTask}]
      /\ guard \in [IdemScopes -> Seq(Requests)]
  BY DEF GenerationTypeOK
<1>2. Owns(r) /\ RecordOf(r) = NoRecord
  BY DEF GuardSound, PastGuard
<1>3. LedgerTypeOK /\ nextId \in Nat
  BY ClockAssumption DEF LedgerInv, LedgerTypeOK
<1>4. ASSUME NEW c \in cands, NEW skipped,
             HoldFrom(hs, KeyOf[r], BudgetScope[r], ClientLimit[r], Estimate[c]),
             hold' = [hold EXCEPT ![r] = nextId],
             left' = [left EXCEPT ![r] = cands \ (skipped \cup {c})],
             pc' = [pc EXCEPT ![r] = "creating"],
             UNCHANGED <<outcome, answer, guard>>
      PROVE  Inv'
  <2>1. /\ KeyOf[r] \in Keys /\ BudgetScope[r] \in Scopes \cup {NoScope}
        /\ ClientLimit[r] \in ClientLimits /\ Estimate[c] \in Amounts
    BY RequestAssumption
  <2>2. /\ LedgerInv'
        /\ nextId \in (1 .. MaxHolds) \ DOMAIN holds /\ nextId' = nextId + 1
        /\ DOMAIN holds' = (DOMAIN holds \ {hold[r]}) \cup {nextId}
        /\ \A h \in DOMAIN holds \ {hold[r]} : holds'[h] = holds[h]
        /\ holds'[nextId].task = NoTask
    BY <2>1, <1>4, ReplaceInv
  <2>3. "creating" \in Stages \ {"idle", "answered"}
    BY DEF Stages
  <2>4. /\ GuardSound'
        /\ pc' \in [Requests -> Stages] /\ pc'[r] = "creating"
        /\ \A q \in Requests \ {r} : pc'[q] = pc[q]
    BY <1>2, <1>4, <2>3, StagedGuard
  <2>5. left' \in [Requests -> SUBSET DOMAIN Estimate]
    BY <1>1, <1>4
  <2>6. nextId # 0
    BY <2>2
  <2> QED  BY <1>1, <1>4, <2>2, <2>4, <2>5, <2>6, AttemptRest
<1>5. ASSUME Answer(r, "failed", NoTask), holds' = hs,
             hold' = [hold EXCEPT ![r] = 0], left' = [left EXCEPT ![r] = {}],
             UNCHANGED <<nextId, day, spending>>
      PROVE  Inv'
  <2>1. LedgerInv'
    <3>1. /\ byTask' \in [Tasks -> 0 .. MaxHolds]
          /\ \A t \in Tasks :
                /\ byTask'[t] \in {0, byTask[t]}
                /\ byTask[t] = hold[r] => byTask'[t] = 0
                /\ UniqueTasks => byTask'[t] = byTask[t] \/ byTask[t] = hold[r]
      BY IndexReleasedFacts
    <3> QED  BY <3>1, <1>5, EndInv
  <2>2. /\ DOMAIN holds' = DOMAIN holds \ {hold[r]}
        /\ \A h \in DOMAIN holds \ {hold[r]} : holds'[h] = holds[h]
    BY <1>5 DEF Without, Restrict
  <2>3. "failed" \in Outcomes
    BY DEF Outcomes
  <2>4. /\ GuardSound'
        /\ guard' \in [IdemScopes -> Seq(Requests)]
        /\ pc' \in [Requests -> Stages] /\ pc'[r] = "answered"
        /\ outcome' \in [Requests -> Outcomes] /\ outcome'[r] = "failed"
        /\ answer' \in [Requests -> Tasks \cup {NoTask}] /\ answer'[r] = NoTask
        /\ \A q \in Requests \ {r} : /\ pc'[q] = pc[q]
                                     /\ outcome'[q] = outcome[q]
                                     /\ answer'[q] = answer[q]
    BY <1>5, <2>3, AnsweredGuard
  <2>5. left' \in [Requests -> SUBSET DOMAIN Estimate]
    BY <1>1, <1>5
  <2> QED  BY <1>5, <2>1, <2>2, <2>4, <2>5, AttemptRest
<1> QED  BY <1>4, <1>5 DEF NextAttempt

-----------------------------------------------------------------------------
(* The provider's acceptance and the supervisor.                           *)

(* What is known of the task of an attempt before it is bound or observed. *)
LEMMA JobFacts ==
    ASSUME UniqueTasks, Inv, NEW r \in Requests,
           pc[r] \in {"creating", "syncing"}, job[r] # NoTask
    PROVE  /\ job[r] \in Tasks /\ job[r] \in made
           /\ hold[r] \in DOMAIN holds /\ hold[r] \in (1 .. MaxHolds)
           /\ entry[job[r]] = "none" /\ charged[job[r]] = 0
           /\ errors[job[r]] < MaxErrors
           /\ pc[r] = "creating" => /\ byTask[job[r]] = 0 /\ bound[job[r]] = NoRequest
                                    /\ holds[hold[r]].task = NoTask
                                    /\ \A g \in DOMAIN holds : holds[g].task # job[r]
           /\ pc[r] = "syncing" => /\ byTask[job[r]] = hold[r]
                                   /\ bound[job[r]] # NoRequest
                                   /\ holds[hold[r]].task = job[r]
           /\ \A u \in Tasks : byTask[u] = hold[r] => u = job[r]
           /\ \A q \in Requests \ {r} : job[q] # job[r] /\ hold[q] # hold[r]
<1> USE DEF Inv, GenerationInv
<1>1. job[r] \in Tasks /\ job[r] \in made
  BY DEF GenerationTypeOK, TasksSound
<1>2. hold[r] \in DOMAIN holds /\ hold[r] \in (1 .. MaxHolds)
  BY DEF AttemptsSound, InFlight, LedgerInv, LedgerTypeOK, IsTable
<1>3. \A q \in Requests \ {r} : job[q] # job[r] /\ hold[q] # hold[r]
  BY <1>2 DEF TasksSound, AttemptsSound
<1>4. \A u \in Tasks : byTask[u] # 0 => /\ byTask[u] \in DOMAIN holds
                                        /\ holds[byTask[u]].task = u
  BY DEF LedgerInv, IndexSound
<1>5. \A g \in DOMAIN holds : holds[g].task # NoTask => byTask[holds[g].task] = g
  BY DEF LedgerInv, Settleable
<1>6. CASE pc[r] = "creating"
  <2>1. holds[hold[r]].task = NoTask /\ bound[job[r]] = NoRequest
    BY <1>6 DEF AttemptsSound
  <2>2. byTask[job[r]] = 0 /\ entry[job[r]] = "none"
    BY <2>1, <1>1 DEF TasksSound
  <2>3. \A g \in DOMAIN holds : holds[g].task # job[r]
    BY <2>2, <1>1, <1>5, NoneAssumption DEF LedgerInv, LedgerTypeOK, IsTable
  <2>4. \A u \in Tasks : byTask[u] # hold[r]
    BY <2>1, <1>2, <1>4, NoneAssumption
  <2>5. charged[job[r]] = 0 /\ errors[job[r]] < MaxErrors
    BY <2>2, <1>1 DEF ChargedOnce, TasksSound
  <2> QED  BY <1>1, <1>2, <1>3, <1>6, <2>1, <2>2, <2>3, <2>4, <2>5
<1>7. CASE pc[r] = "syncing"
  <2>1. holds[hold[r]].task = job[r] /\ entry[job[r]] = "none"
    BY <1>7 DEF AttemptsSound
  <2>2. byTask[job[r]] = hold[r]
    BY <2>1, <1>2, <1>5
  <2>3. bound[job[r]] # NoRequest
    BY <2>2, <1>1, <1>2 DEF TasksSound
  <2>4. \A u \in Tasks : byTask[u] = hold[r] => u = job[r]
    BY <2>1, <1>2, <1>4
  <2>5. charged[job[r]] = 0 /\ errors[job[r]] < MaxErrors
    BY <2>1, <1>1 DEF ChargedOnce, TasksSound
  <2> QED  BY <1>1, <1>2, <1>3, <1>7, <2>1, <2>2, <2>3, <2>4, <2>5
<1> QED  BY <1>6, <1>7

(* A settled hold is gone, with its index entry, and its cost is charged   *)
(* if the task succeeded.                                                  *)
LEMMA SettledLedger ==
    ASSUME LedgerInv, NEW x \in DOMAIN holds, NEW t \in Tasks, NEW status,
           NEW c \in ReportedCosts, byTask[t] \in {0, x},
           \A u \in Tasks : byTask[u] = x => u = t,
           SettleTask(x, t, status, c, [byTask EXCEPT ![t] = 0])
    PROVE  /\ LedgerInv' /\ nextId' = nextId
           /\ DOMAIN holds' = DOMAIN holds \ {x}
           /\ \A h \in DOMAIN holds' : holds'[h] = holds[h]
           /\ byTask'[t] = 0 /\ \A u \in Tasks \ {t} : byTask'[u] = byTask[u]
           /\ charged' = IF status = "succeeded"
                         THEN [charged EXCEPT ![t] = @ + 1] ELSE charged
<1>1. /\ holds' = Without(holds, x) /\ byTask' = [byTask EXCEPT ![t] = 0]
      /\ IF status = "succeeded"
         THEN Charge(x, ActualCost(x, c)) /\ charged' = [charged EXCEPT ![t] = @ + 1]
         ELSE UNCHANGED <<spending, charged>>
      /\ UNCHANGED <<nextId, day>>
  BY DEF SettleTask
<1>2. byTask \in [Tasks -> 0 .. MaxHolds] /\ holds[x].amount \in Int
  BY DEF LedgerInv, LedgerTypeOK, IsTable, HoldType
<1>3. ActualCost(x, c) \in Int
  BY <1>2, MoneyAssumption DEF ActualCost, ReportedCosts
<1>4. /\ byTask' \in [Tasks -> 0 .. MaxHolds]
      /\ byTask'[t] = 0 /\ \A u \in Tasks \ {t} : byTask'[u] = byTask[u]
  BY <1>1, <1>2, ClockAssumption
<1>5. \A u \in Tasks : /\ byTask'[u] \in {0, byTask[u]}
                       /\ byTask[u] = x => byTask'[u] = 0
                       /\ UniqueTasks => byTask'[u] = byTask[u] \/ byTask[u] = x
  BY <1>4
<1>6. LedgerInv'
  <2>1. CASE status = "succeeded"
    BY <2>1, <1>1, <1>3, <1>4, <1>5, ChargeInv
  <2>2. CASE status # "succeeded"
    BY <2>2, <1>1, <1>4, <1>5, EndInv
  <2> QED  BY <2>1, <2>2
<1>7. /\ DOMAIN holds' = DOMAIN holds \ {x}
      /\ \A h \in DOMAIN holds' : holds'[h] = holds[h]
  BY <1>1 DEF Without, Restrict
<1> QED  BY <1>1, <1>4, <1>6, <1>7

(* _start_monitor: from here on the task t of the attempt belongs to the   *)
(* supervisor, or is settled on the spot.                                  *)
LEMMA MonitorStep ==
    ASSUME UniqueTasks, Inv, NEW r \in Requests,
           pc[r] \in {"creating", "syncing"}, job[r] # NoTask,
           NEW status \in Statuses, NEW c \in ReportedCosts,
           StartMonitor(r, job[r], status, c),
           IF pc[r] = "creating" THEN bound' = [bound EXCEPT ![job[r]] = r]
                                 ELSE bound' = bound,
           UNCHANGED <<records, made, errors, closed>>
    PROVE  Inv'
<1> USE DEF Inv, GenerationInv
<1> DEFINE t == job[r]
           x == hold[r]
<1>1. /\ t \in Tasks /\ t \in made /\ x \in DOMAIN holds /\ x \in (1 .. MaxHolds)
      /\ entry[t] = "none" /\ charged[t] = 0 /\ errors[t] < MaxErrors
      /\ pc[r] = "creating" => /\ byTask[t] = 0 /\ bound[t] = NoRequest
                               /\ holds[x].task = NoTask
                               /\ \A g \in DOMAIN holds : holds[g].task # t
      /\ pc[r] = "syncing" => /\ byTask[t] = x /\ bound[t] # NoRequest
                              /\ holds[x].task = t
      /\ \A u \in Tasks : byTask[u] = x => u = t
      /\ \A q \in Requests \ {r} : job[q] # t /\ hold[q] # x
  BY JobFacts
<1>2. /\ entry' = [entry EXCEPT ![t] = status]
      /\ pc' = [pc EXCEPT ![r] = "leaving"]
      /\ UNCHANGED <<outcome, answer, hold, left, job, guard>>
  BY <1>1 DEF StartMonitor
<1>3. /\ entry \in [Tasks -> {"none"} \cup Statuses] /\ charged \in [Tasks -> Nat]
      /\ bound \in [Tasks -> Requests \cup {NoRequest}]
      /\ byTask \in [Tasks -> 0 .. MaxHolds]
      /\ holds \in [DOMAIN holds -> HoldType]
  BY DEF GenerationTypeOK, LedgerInv, LedgerTypeOK, IsTable
<1>4. /\ LedgerInv' /\ nextId' = nextId
      /\ DOMAIN holds' = IF status = "running" THEN DOMAIN holds ELSE DOMAIN holds \ {x}
      /\ \A h \in DOMAIN holds \ {x} : holds'[h] = holds[h]
      /\ byTask'[t] = IF status = "running" THEN x ELSE 0
      /\ \A u \in Tasks \ {t} : byTask'[u] = byTask[u]
      /\ charged' = IF status = "succeeded"
                    THEN [charged EXCEPT ![t] = @ + 1] ELSE charged
  <2>1. CASE status = "running"
    <3>1. /\ holds' = [holds EXCEPT ![x].task = t] /\ byTask' = [byTask EXCEPT ![t] = x]
          /\ UNCHANGED <<nextId, day, spending, charged>>
      BY <2>1 DEF StartMonitor
    <3>2. LedgerInv'
      <4>1. CASE pc[r] = "creating"
        <5>1. Bind(x, t)
          BY <3>1, <1>1 DEF Bind
        <5> QED  BY <5>1, <4>1, <1>1, BindInv
      <4>2. CASE pc[r] = "syncing"
        <5>1. holds' = holds /\ byTask' = byTask
          BY <3>1, <4>2, <1>1, <1>3 DEF HoldType
        <5> QED
          BY <5>1, <3>1
          DEF LedgerInv, LedgerTypeOK, IndexSound, Settleable, NothingAhead,
              WithinKeyBudget, WithinScopeBudget, spending
      <4> QED  BY <4>1, <4>2
    <3> QED  BY <2>1, <3>1, <3>2, <1>1, <1>3
  <2>2. CASE status # "running"
    <3>1. SettleTask(x, t, status, c, [byTask EXCEPT ![t] = 0])
      BY <2>2, <1>1 DEF StartMonitor
    <3>2. /\ byTask[t] \in {0, x} /\ x \in DOMAIN holds /\ t \in Tasks
          /\ \A u \in Tasks : byTask[u] = x => u = t
      BY <1>1
    <3> HIDE DEF x, t
    <3>3. /\ LedgerInv' /\ nextId' = nextId
          /\ DOMAIN holds' = DOMAIN holds \ {x}
          /\ \A h \in DOMAIN holds' : holds'[h] = holds[h]
          /\ byTask'[t] = 0 /\ \A u \in Tasks \ {t} : byTask'[u] = byTask[u]
          /\ charged' = IF status = "succeeded"
                        THEN [charged EXCEPT ![t] = @ + 1] ELSE charged
      BY <3>1, <3>2, SettledLedger
    <3> QED  BY <2>2, <3>3
  <2> QED  BY <2>1, <2>2
<1>5. /\ entry' \in [Tasks -> {"none"} \cup Statuses] /\ entry'[t] = status
      /\ \A u \in Tasks \ {t} : entry'[u] = entry[u]
      /\ charged' \in [Tasks -> Nat]
      /\ charged'[t] = IF status = "succeeded" THEN 1 ELSE 0
      /\ \A u \in Tasks \ {t} : charged'[u] = charged[u]
  BY <1>1, <1>2, <1>3, <1>4
<1>6. /\ bound' \in [Tasks -> Requests \cup {NoRequest}]
      /\ bound'[t] # NoRequest
      /\ bound'[t] = IF pc[r] = "creating" THEN r ELSE bound[t]
      /\ \A u \in Tasks \ {t} : bound'[u] = bound[u]
  BY <1>1, <1>3, RequestAssumption
<1>7. /\ GuardSound' /\ pc' \in [Requests -> Stages] /\ pc'[r] = "leaving"
      /\ \A q \in Requests \ {r} : pc'[q] = pc[q]
  <2>1. Owns(r) /\ RecordOf(r) = NoRecord
    BY DEF GuardSound, PastGuard
  <2>2. "leaving" \in Stages \ {"idle", "answered"}
    BY DEF Stages
  <2> QED  BY <2>1, <2>2, <1>2, StagedGuard
<1>8. closed' = closed
  OBVIOUS
<1>9. GenerationTypeOK'
  BY <1>2, <1>5, <1>6, <1>7, <1>8 DEF GenerationTypeOK, Bodies, NoRecord
<1> HIDE DEF t, x
<1>10. AttemptsSound'
  <2>1. ASSUME NEW q \in Requests \ {r}, InFlight(q)
        PROVE  hold[q] \in DOMAIN holds' /\ holds'[hold[q]] = holds[hold[q]]
    <3>1. hold[q] \in DOMAIN holds /\ hold[q] # x
      BY <2>1, <1>1 DEF AttemptsSound
    <3> QED  BY <3>1, <1>4
  <2>2. ASSUME NEW q \in Requests
        PROVE  /\ pc'[q] \in {"idle", "queued", "routing"} =>
                      hold[q] = 0 /\ job[q] = NoTask
               /\ InFlight(q)' => hold[q] \in DOMAIN holds'
               /\ pc'[q] = "creating" =>
                      /\ holds'[hold[q]].task = NoTask
                      /\ job[q] # NoTask => bound'[job[q]] = NoRequest
               /\ pc'[q] = "syncing" =>
                      /\ job[q] # NoTask
                      /\ holds'[hold[q]].task = job[q]
                      /\ entry'[job[q]] = "none"
               /\ pc'[q] = "leaving" => job[q] # NoTask
    <3>1. CASE q = r
      BY <3>1, <1>7 DEF InFlight
    <3>2. CASE q # r
      <4>1. pc'[q] = pc[q] /\ InFlight(q)' = InFlight(q) /\ job[q] # t
        BY <3>2, <1>1, <1>7 DEF InFlight
      <4>2. job[q] # NoTask => /\ bound'[job[q]] = bound[job[q]]
                               /\ entry'[job[q]] = entry[job[q]]
        BY <4>1, <1>5, <1>6 DEF GenerationTypeOK
      <4>3. pc[q] \in {"idle", "queued", "routing"} => hold[q] = 0 /\ job[q] = NoTask
        BY DEF AttemptsSound
      <4>4. pc[q] = "creating" => /\ holds[hold[q]].task = NoTask /\ InFlight(q)
                                  /\ job[q] # NoTask => bound[job[q]] = NoRequest
        BY DEF AttemptsSound, InFlight
      <4>5. pc[q] = "syncing" => /\ job[q] # NoTask /\ InFlight(q)
                                 /\ holds[hold[q]].task = job[q]
                                 /\ entry[job[q]] = "none"
        BY DEF AttemptsSound, InFlight
      <4>6. pc[q] = "leaving" => job[q] # NoTask
        BY DEF AttemptsSound
      <4> QED  BY <3>2, <4>1, <4>2, <4>3, <4>4, <4>5, <4>6, <2>1
    <3> QED  BY <3>1, <3>2
  <2>3. hold' = hold /\ job' = job
    BY <1>2
  <2>4. /\ \A q \in Requests : hold[q] < nextId'
        /\ \A q, p \in Requests : hold[q] = hold[p] /\ hold[q] # 0 => q = p
    BY <1>4 DEF AttemptsSound
  <2> QED  BY <2>2, <2>3, <2>4 DEF AttemptsSound
<1>11. TasksSound'
  <2>1. \A u \in Tasks : bound'[u] # NoRequest => u \in made
    BY <1>1, <1>6 DEF TasksSound
  <2>2. \A u \in Tasks : entry'[u] # "none" \/ byTask'[u] # 0 => bound'[u] # NoRequest
    BY <1>4, <1>5, <1>6 DEF TasksSound
  <2>3. \A u \in Tasks : entry'[u] \in {"none", "running"} => errors[u] < MaxErrors
    BY <1>1, <1>5 DEF TasksSound
  <2> QED  BY <2>1, <2>2, <2>3, <1>2, <1>8 DEF TasksSound, MaxErrors
<1>12. AnswersSound'
  <2>1. \A q \in Requests : pc'[q] # "answered" <=> pc[q] # "answered"
    BY <1>7
  <2> QED  BY <2>1, <1>2 DEF AnswersSound, NoRecord
<1>13. AcceptedLast'
  <2> SUFFICES ASSUME NEW u \in Tasks, NEW q \in Requests \ SyncWait,
                      bound'[u] = q, ~closed
               PROVE  /\ pc'[q] \in {"leaving", "answered"}
                      /\ job[q] = u
                      /\ \/ IdemScope[q] = NoIdem
                         \/ q \in MayCancel
                         \/ pc'[q] = "leaving"
                         \/ RecordOf(q)'.task = u
    BY <1>2, <1>8 DEF AcceptedLast
  <2>1. CASE u = t /\ pc[r] = "creating"
    BY <2>1, <1>6, <1>7 DEF t
  <2>2. CASE ~(u = t /\ pc[r] = "creating")
    <3>1. bound[u] = q
      BY <2>2, <1>6
    <3>2. /\ pc[q] \in {"leaving", "answered"}
          /\ job[q] = u
          /\ \/ IdemScope[q] = NoIdem
             \/ q \in MayCancel
             \/ pc[q] = "leaving"
             \/ RecordOf(q).task = u
      BY <3>1 DEF AcceptedLast
    <3>3. q # r /\ RecordOf(q)' = RecordOf(q)
      BY <3>2 DEF RecordOf
    <3> QED  BY <3>2, <3>3, <1>7
  <2> QED  BY <2>1, <2>2
<1>14. HoldsOwned'
  <2> SUFFICES ASSUME NEW h \in DOMAIN holds'
               PROVE  \/ \E q \in Requests : hold[q] = h /\ InFlight(q)'
                      \/ \E u \in Tasks : byTask'[u] = h /\ entry'[u] = "running"
                      \/ \E q \in Requests : hold[q] = h /\ outcome[q] = "cancelled"
    BY <1>2 DEF HoldsOwned
  <2>1. CASE h = x
    BY <2>1, <1>1, <1>4, <1>5
  <2>2. CASE h # x
    <3>1. \/ \E q \in Requests : hold[q] = h /\ InFlight(q)
          \/ \E u \in Tasks : byTask[u] = h /\ entry[u] = "running"
          \/ \E q \in Requests : hold[q] = h /\ outcome[q] = "cancelled"
      BY <2>2, <1>4 DEF HoldsOwned
    <3>2. \A q \in Requests : hold[q] = h => pc'[q] = pc[q]
      BY <2>2, <1>7 DEF x
    <3>3. \A u \in Tasks : byTask[u] = h /\ entry[u] = "running" =>
              byTask'[u] = h /\ entry'[u] = "running"
      BY <1>1, <1>4, <1>5
    <3> QED  BY <3>1, <3>2, <3>3 DEF InFlight
  <2> QED  BY <2>1, <2>2
<1>15. ObservedTasksHeld'
  BY <1>1, <1>4, <1>5 DEF ObservedTasksHeld
<1>16. ChargedOnce'
  BY <1>5 DEF ChargedOnce
<1> QED  BY <1>4, <1>7, <1>9, <1>10, <1>11, <1>12, <1>13, <1>14, <1>15, <1>16

-----------------------------------------------------------------------------
(* The steps of a request.                                                 *)

(* A create that is answered, or waits, asks nothing of its attempt.        *)
LEMMA AttemptsKept ==
    ASSUME AttemptsSound, UNCHANGED <<hold, job, bound, entry, holds, nextId>>,
           \A q \in Requests :
               \/ pc'[q] = pc[q]
               \/ pc'[q] = "answered"
               \/ /\ pc'[q] \in {"queued", "routing"}
                  /\ hold[q] = 0 /\ job[q] = NoTask
    PROVE  AttemptsSound'
<1>1. hold' = hold /\ job' = job /\ bound' = bound /\ entry' = entry
      /\ holds' = holds /\ nextId' = nextId
  OBVIOUS
<1>2. ASSUME NEW q \in Requests
      PROVE  /\ pc'[q] \in {"idle", "queued", "routing"} =>
                    hold[q] = 0 /\ job[q] = NoTask
             /\ InFlight(q)' => hold[q] \in DOMAIN holds
             /\ pc'[q] = "creating" =>
                    /\ holds[hold[q]].task = NoTask
                    /\ job[q] # NoTask => bound[job[q]] = NoRequest
             /\ pc'[q] = "syncing" =>
                    /\ job[q] # NoTask
                    /\ holds[hold[q]].task = job[q]
                    /\ entry[job[q]] = "none"
             /\ pc'[q] = "leaving" => job[q] # NoTask
  <2>1. CASE pc'[q] = pc[q]
    BY <2>1 DEF AttemptsSound, InFlight
  <2>2. CASE pc'[q] # pc[q]
    BY <2>2 DEF InFlight
  <2> QED  BY <2>1, <2>2
<1>3. /\ \A q \in Requests : hold[q] < nextId
      /\ \A q, p \in Requests : hold[q] = hold[p] /\ hold[q] # 0 => q = p
  BY DEF AttemptsSound
<1> QED  BY <1>1, <1>2, <1>3 DEF AttemptsSound

(* A handler returns or raises: with a task of its own that it puts on     *)
(* record, with one on record, with an error, or cancelled.                *)
LEMMA AnswerStep ==
    ASSUME Inv, NEW r \in Requests, pc[r] \notin {"idle", "answered"},
           NEW how \in Outcomes \ {"none"}, NEW t \in Tasks \cup {NoTask},
           Answer(r, how, t), InFlight(r) => how = "cancelled",
           pc[r] = "leaving" => how = "created" \/ r \in MayCancel,
           IF how = "created"
           THEN /\ pc[r] = "leaving" /\ t = job[r]
                /\ records' = IF IdemScope[r] = NoIdem THEN records
                              ELSE [records EXCEPT ![IdemScope[r]] =
                                       [task |-> job[r], body |-> Body[r]]]
           ELSE /\ records' = records
                /\ t # NoTask =>
                      \E q \in Requests : outcome[q] = "created" /\ job[q] = t,
           UNCHANGED <<left, hold, job, taskVars, ledgerVars>>
    PROVE  Inv'
<1> USE DEF Inv, GenerationInv
<1> DEFINE v == [task |-> job[r], body |-> Body[r]]
<1>1. UNCHANGED <<left, hold, job, made, bound, entry, errors, closed, charged>>
      /\ UNCHANGED ledgerVars
  BY DEF taskVars
<1>2. \/ records' = records
      \/ /\ PastGuard(r)
         /\ records' = IF IdemScope[r] = NoIdem THEN records
                       ELSE [records EXCEPT ![IdemScope[r]] = v]
  BY DEF PastGuard
<1>3. /\ GuardSound'
      /\ guard' \in [IdemScopes -> Seq(Requests)]
      /\ pc' \in [Requests -> Stages] /\ pc'[r] = "answered"
      /\ outcome' \in [Requests -> Outcomes] /\ outcome'[r] = how
      /\ answer' \in [Requests -> Tasks \cup {NoTask}] /\ answer'[r] = t
      /\ \A q \in Requests \ {r} : /\ pc'[q] = pc[q]
                                   /\ outcome'[q] = outcome[q]
                                   /\ answer'[q] = answer[q]
  BY <1>2, AnsweredGuard, ZenonT(30)
<1>4. /\ records \in [IdemScopes -> [task: Tasks, body: Bodies] \cup {NoRecord}]
      /\ job \in [Requests -> Tasks \cup {NoTask}]
      /\ DOMAIN Body = Requests
      /\ \A q \in Requests : IdemScope[q] # NoIdem => IdemScope[q] \in IdemScopes
  BY RequestAssumption DEF GenerationTypeOK
<1>5. outcome[r] = "none"
  BY DEF AnswersSound
<1>6. pc[r] = "leaving" => job[r] \in Tasks /\ v \in [task: Tasks, body: Bodies]
  <2>1. pc[r] = "leaving" => job[r] \in Tasks
    BY <1>4 DEF AttemptsSound
  <2>2. Body[r] \in Bodies
    BY DEF Bodies
  <2> QED  BY <2>1, <2>2
<1>7. records' \in [IdemScopes -> [task: Tasks, body: Bodies] \cup {NoRecord}]
  BY <1>4, <1>6
<1>8. LedgerInv'
  BY <1>1 DEF ledgerVars, LedgerInv, LedgerTypeOK, IndexSound, Settleable,
              NothingAhead, WithinKeyBudget, WithinScopeBudget
<1>9. GenerationTypeOK'
  BY <1>1, <1>3, <1>7 DEF GenerationTypeOK, Bodies, NoRecord
<1>10. AttemptsSound'
  <2>1. \A q \in Requests : pc'[q] = pc[q] \/ pc'[q] = "answered"
    BY <1>3
  <2> QED  BY <2>1, <1>1, AttemptsKept DEF ledgerVars
<1>11. TasksSound'
  BY <1>1 DEF TasksSound, MaxErrors, ledgerVars
<1>12. AnswersSound'
  <2>1. \A q \in Requests : outcome'[q] = "none" <=> pc'[q] # "answered"
    BY <1>3 DEF AnswersSound
  <2>2. \A q \in Requests : outcome[q] = "created" => outcome'[q] = "created"
    BY <1>3, <1>5
  <2>3. how = "created" => outcome'[r] = "created"
    BY <1>3
  <2>4. ASSUME NEW q \in Requests, answer'[q] # NoTask
        PROVE  \E p \in Requests : outcome'[p] = "created" /\ job[p] = answer'[q]
    <3>1. CASE q = r
      BY <3>1, <2>2, <2>3, <2>4, <1>3
    <3>2. CASE q # r
      <4>1. PICK p \in Requests : outcome[p] = "created" /\ job[p] = answer[q]
        BY <3>2, <2>4, <1>3 DEF AnswersSound
      <4> QED  BY <4>1, <3>2, <2>2, <1>3
    <3> QED  BY <3>1, <3>2
  <2>5. ASSUME NEW s \in IdemScopes, records'[s] # NoRecord
        PROVE  \E p \in Requests : outcome'[p] = "created" /\ job[p] = records'[s].task
    <3>1. CASE records'[s] = records[s]
      <4>1. PICK p \in Requests : outcome[p] = "created" /\ job[p] = records[s].task
        BY <3>1, <2>5 DEF AnswersSound
      <4> QED  BY <4>1, <3>1, <2>2
    <3>2. CASE records'[s] # records[s]
      <4>1. how = "created" /\ records'[s] = v
        BY <3>2, <1>4
      <4> QED  BY <4>1, <2>3
    <3> QED  BY <3>1, <3>2
  <2> QED  BY <2>1, <2>4, <2>5, <1>1 DEF AnswersSound, NoRecord
<1>13. AcceptedLast'
  <2> SUFFICES ASSUME NEW u \in Tasks, NEW q \in Requests \ SyncWait,
                      bound[u] = q, ~closed
               PROVE  /\ pc'[q] \in {"leaving", "answered"}
                      /\ job[q] = u
                      /\ \/ IdemScope[q] = NoIdem
                         \/ q \in MayCancel
                         \/ pc'[q] = "leaving"
                         \/ RecordOf(q)'.task = u
    BY <1>1 DEF AcceptedLast
  <2>1. /\ pc[q] \in {"leaving", "answered"}
        /\ job[q] = u
        /\ \/ IdemScope[q] = NoIdem
           \/ q \in MayCancel
           \/ pc[q] = "leaving"
           \/ RecordOf(q).task = u
    BY DEF AcceptedLast
  <2>2. CASE q = r
    <3>1. pc[r] = "leaving" /\ pc'[r] = "answered"
      BY <2>1, <2>2, <1>3
    <3>2. CASE how = "created" /\ IdemScope[r] # NoIdem
      <4>1. records'[IdemScope[r]] = v
        BY <3>2, <1>4
      <4> QED  BY <4>1, <3>1, <3>2, <2>1, <2>2 DEF RecordOf
    <3>3. CASE ~(how = "created" /\ IdemScope[r] # NoIdem)
      BY <3>1, <3>3, <2>1, <2>2
    <3> QED  BY <3>2, <3>3
  <2>3. CASE q # r
    <3>1. pc'[q] = pc[q]
      BY <2>3, <1>3
    <3>2. CASE RecordOf(q)' = RecordOf(q)
      BY <3>1, <3>2, <2>1
    <3>3. CASE RecordOf(q)' # RecordOf(q)
      <4>1. IdemScope[q] = IdemScope[r] /\ IdemScope[r] # NoIdem /\ PastGuard(r)
        BY <3>3, <1>2, <1>4 DEF RecordOf
      <4>2. RecordOf(q) = NoRecord
        BY <4>1 DEF GuardSound, RecordOf
      <4>3. RecordOf(q).task # u
        BY <4>2, NoneAssumption DEF NoRecord
      <4> QED  BY <4>3, <3>1, <2>1
    <3> QED  BY <3>2, <3>3
  <2> QED  BY <2>2, <2>3
<1>14. HoldsOwned'
  <2> SUFFICES ASSUME NEW h \in DOMAIN holds
               PROVE  \/ \E q \in Requests : hold[q] = h /\ InFlight(q)'
                      \/ \E u \in Tasks : byTask[u] = h /\ entry[u] = "running"
                      \/ \E q \in Requests : hold[q] = h /\ outcome'[q] = "cancelled"
    BY <1>1 DEF HoldsOwned, ledgerVars
  <2>1. \A q \in Requests : InFlight(q) => InFlight(q)' \/ outcome'[q] = "cancelled"
    BY <1>3 DEF InFlight
  <2>2. \A q \in Requests : outcome[q] = "cancelled" => outcome'[q] = "cancelled"
    BY <1>3, <1>5
  <2> QED  BY <2>1, <2>2 DEF HoldsOwned
<1>15. ObservedTasksHeld' /\ ChargedOnce'
  BY <1>1 DEF ObservedTasksHeld, ChargedOnce, ledgerVars
<1> QED  BY <1>3, <1>8, <1>9, <1>10, <1>11, <1>12, <1>13, <1>14, <1>15

(* A step that neither the ledger nor the tasks see.                       *)
LEMMA StageStep ==
    ASSUME Inv, NEW r \in Requests, GuardSound',
           pc' \in [Requests -> Stages], guard' \in [IdemScopes -> Seq(Requests)],
           left' \in [Requests -> SUBSET DOMAIN Estimate],
           pc[r] \in {"idle", "queued"}, pc'[r] \in {"queued", "routing"},
           \A q \in Requests \ {r} : pc'[q] = pc[q],
           UNCHANGED <<outcome, answer, hold, job, records, taskVars, ledgerVars>>
    PROVE  Inv'
<1> USE DEF Inv, GenerationInv
<1>1. /\ UNCHANGED <<outcome, answer, hold, job, records>>
      /\ UNCHANGED <<made, bound, entry, errors, closed, charged>>
      /\ UNCHANGED ledgerVars
  BY DEF taskVars
<1>2. \A q \in Requests : InFlight(q)' = InFlight(q) /\ RecordOf(q)' = RecordOf(q)
  BY <1>1 DEF InFlight, RecordOf
<1>3. LedgerInv'
  BY <1>1 DEF ledgerVars, LedgerInv, LedgerTypeOK, IndexSound, Settleable,
              NothingAhead, WithinKeyBudget, WithinScopeBudget
<1>4. GenerationTypeOK'
  BY <1>1 DEF GenerationTypeOK, Bodies, NoRecord
<1>5. AttemptsSound'
  <2>1. \A q \in Requests : pc'[q] = pc[q] \/ q = r
    OBVIOUS
  <2>2. hold[r] = 0 /\ job[r] = NoTask
    BY DEF AttemptsSound
  <2> QED  BY <1>1, <2>1, <2>2, AttemptsKept DEF ledgerVars
<1>6. TasksSound' /\ ObservedTasksHeld' /\ ChargedOnce'
  BY <1>1 DEF TasksSound, MaxErrors, ObservedTasksHeld, ChargedOnce, ledgerVars
<1>7. AnswersSound'
  <2>1. \A q \in Requests : pc'[q] # "answered" <=> pc[q] # "answered"
    OBVIOUS
  <2> QED  BY <2>1, <1>1 DEF AnswersSound, NoRecord
<1>8. AcceptedLast'
  BY <1>1, <1>2 DEF AcceptedLast
<1>9. HoldsOwned'
  BY <1>1, <1>2 DEF HoldsOwned, ledgerVars
<1> QED  BY <1>3, <1>4, <1>5, <1>6, <1>7, <1>8, <1>9

(* Joining the queue of a guard leaves everybody else's place alone.       *)
LEMMA JoinedQueue ==
    ASSUME NEW S, NEW q \in Seq(S), NEW e \in S,
           \A i, j \in 1 .. Len(q) : q[i] = q[j] => i = j,
           \A i \in 1 .. Len(q) : q[i] # e
    PROVE  LET p == Append(q, e)
           IN  /\ p \in Seq(S)
               /\ \A i, j \in 1 .. Len(p) : p[i] = p[j] => i = j
               /\ \A y : (\E i \in 1 .. Len(p) : p[i] = y)
                            <=> y = e \/ \E i \in 1 .. Len(q) : q[i] = y
               /\ q # <<>> => Head(p) = Head(q)
<1> DEFINE p == Append(q, e)
<1>1. Len(q) \in Nat
  BY LenProperties
<1>2. /\ p \in Seq(S) /\ Len(p) = Len(q) + 1
      /\ \A i \in 1 .. Len(q) : p[i] = q[i]
      /\ p[Len(q) + 1] = e
  BY AppendProperties
<1>3. q # <<>> => Head(p) = Head(q)
  BY HeadTailAppend, AppendProperties
<1> HIDE DEF p
<1>4. \A i \in 1 .. Len(p) : i \in 1 .. Len(q) \/ i = Len(q) + 1
  BY <1>1, <1>2
<1>5. \A i, j \in 1 .. Len(p) : p[i] = p[j] => i = j
  BY <1>1, <1>2, <1>4
<1>6. ASSUME NEW y
      PROVE  (\E i \in 1 .. Len(p) : p[i] = y)
                 <=> y = e \/ \E i \in 1 .. Len(q) : q[i] = y
  <2>1. \A i \in 1 .. Len(q) : i \in 1 .. Len(p)
    BY <1>1, <1>2
  <2>2. Len(q) + 1 \in 1 .. Len(p)
    BY <1>1, <1>2
  <2> QED  BY <2>1, <2>2, <1>2, <1>4
<1> QED  BY <1>2, <1>3, <1>5, <1>6 DEF p

(* A create arrives, and waits for the guard of its scope.                 *)
LEMMA ArriveStep ==
    ASSUME Inv, NEW r \in Requests, Arrive(r)
    PROVE  Inv'
<1> USE DEF Inv, GenerationInv
<1> DEFINE s == IdemScope[r]
           In(q, f) == \E i \in 1 .. Len(f[IdemScope[q]]) : f[IdemScope[q]][i] = q
           Under(q) == pc[q] \notin {"idle", "answered"}
<1>1. /\ pc[r] = "idle" /\ pc' = [pc EXCEPT ![r] = "queued"] /\ guard' = Join(r)
      /\ UNCHANGED <<outcome, answer, left, hold, job, records, taskVars, ledgerVars>>
  BY DEF Arrive
<1>2. /\ pc \in [Requests -> Stages] /\ guard \in [IdemScopes -> Seq(Requests)]
      /\ left \in [Requests -> SUBSET DOMAIN Estimate]
      /\ \A q \in Requests : IdemScope[q] # NoIdem => IdemScope[q] \in IdemScopes
  BY RequestAssumption DEF GenerationTypeOK
<1>3. /\ pc' \in [Requests -> Stages] /\ pc'[r] = "queued"
      /\ \A q \in Requests \ {r} : pc'[q] = pc[q]
  BY <1>1, <1>2 DEF Stages
<1>4. /\ \A x \in IdemScopes : \A i, j \in 1 .. Len(guard[x]) :
            guard[x][i] = guard[x][j] => i = j
      /\ \A q \in Requests : IdemScope[q] # NoIdem => (Under(q) <=> In(q, guard))
  BY DEF GuardSound
<1>5. /\ guard' \in [IdemScopes -> Seq(Requests)]
      /\ \A x \in IdemScopes : \A i, j \in 1 .. Len(guard'[x]) :
            guard'[x][i] = guard'[x][j] => i = j
      /\ \A q \in Requests : IdemScope[q] # NoIdem =>
            (In(q, guard') <=> q = r \/ Under(q))
      /\ \A q \in Requests : Under(q) /\ Owns(q) => Owns(q)'
  <2>1. CASE s = NoIdem
    <3>1. guard' = guard
      BY <2>1, <1>1 DEF Join
    <3>2. \A q \in Requests : Owns(q) => Owns(q)'
      BY <3>1 DEF Owns
    <3>3. \A q \in Requests : IdemScope[q] # NoIdem =>
            (In(q, guard') <=> q = r \/ Under(q))
      BY <3>1, <2>1, <1>4
    <3> QED  BY <3>1, <3>2, <3>3, <1>2, <1>4
  <2>2. CASE s # NoIdem
    <3> DEFINE p == Append(guard[s], r)
    <3>1. /\ s \in IdemScopes /\ guard[s] \in Seq(Requests)
          /\ \A i, j \in 1 .. Len(guard[s]) : guard[s][i] = guard[s][j] => i = j
          /\ \A i \in 1 .. Len(guard[s]) : guard[s][i] # r
      BY <2>2, <1>1, <1>2, <1>4
    <3>2. guard' = [guard EXCEPT ![s] = p]
      BY <2>2, <1>1 DEF Join
    <3>3. /\ p \in Seq(Requests)
          /\ \A i, j \in 1 .. Len(p) : p[i] = p[j] => i = j
          /\ \A y : (\E i \in 1 .. Len(p) : p[i] = y)
                       <=> y = r \/ \E i \in 1 .. Len(guard[s]) : guard[s][i] = y
          /\ guard[s] # <<>> => Head(p) = Head(guard[s])
      BY <3>1, JoinedQueue
    <3> HIDE DEF p
    <3>4. /\ guard' \in [IdemScopes -> Seq(Requests)]
          /\ guard'[s] = p /\ \A x \in IdemScopes \ {s} : guard'[x] = guard[x]
      BY <3>1, <3>2, <3>3, <1>2
    <3>5. \A x \in IdemScopes : \A i, j \in 1 .. Len(guard'[x]) :
              guard'[x][i] = guard'[x][j] => i = j
      BY <3>3, <3>4, <1>4
    <3> HIDE DEF s
    <3>6. ASSUME NEW q \in Requests, IdemScope[q] # NoIdem
          PROVE  In(q, guard') <=> q = r \/ Under(q)
      <4>1. CASE IdemScope[q] = s
        <5>1. In(q, guard') <=> \E i \in 1 .. Len(p) : p[i] = q
          BY <4>1, <3>4
        <5>2. In(q, guard) <=> \E i \in 1 .. Len(guard[s]) : guard[s][i] = q
          BY <4>1
        <5>3. In(q, guard') <=> q = r \/ In(q, guard)
          BY <5>1, <5>2, <3>3
        <5> QED  BY <5>3, <3>6, <1>4
      <4>2. CASE IdemScope[q] # s
        BY <4>2, <3>4, <3>6, <1>2, <1>4 DEF s
      <4> QED  BY <4>1, <4>2
    <3>7. ASSUME NEW q \in Requests, Under(q), Owns(q)
          PROVE  Owns(q)'
      <4>1. CASE IdemScope[q] = NoIdem
        BY <4>1 DEF Owns
      <4>2. CASE IdemScope[q] # NoIdem /\ IdemScope[q] # s
        <5>1. guard'[IdemScope[q]] = guard[IdemScope[q]]
          BY <4>2, <3>4, <1>2
        <5> QED  BY <5>1, <3>7 DEF Owns
      <4>3. CASE IdemScope[q] # NoIdem /\ IdemScope[q] = s
        <5>1. guard[s] # <<>>
          BY <4>3, <3>1, <3>7, <1>4, EmptySeq
        <5> QED  BY <5>1, <4>3, <3>3, <3>4, <3>7 DEF Owns
      <4> QED  BY <4>1, <4>2, <4>3
    <3> QED  BY <3>4, <3>5, <3>6, <3>7
  <2> QED  BY <2>1, <2>2
<1>6. GuardSound'
  <2>1. ASSUME NEW q \in Requests, PastGuard(q)'
        PROVE  Owns(q)' /\ RecordOf(q)' = NoRecord
    <3>1. q # r /\ PastGuard(q) /\ Under(q)
      BY <2>1, <1>3 DEF PastGuard
    <3>2. Owns(q) /\ RecordOf(q) = NoRecord
      BY <3>1 DEF GuardSound
    <3>3. RecordOf(q)' = RecordOf(q)
      BY <1>1 DEF RecordOf
    <3> QED  BY <3>1, <3>2, <3>3, <1>5
  <2>2. \A q \in Requests : pc'[q] \notin {"idle", "answered"} <=> q = r \/ Under(q)
    BY <1>3
  <2> QED  BY <2>1, <2>2, <1>5 DEF GuardSound, NoRecord
<1>7. left' \in [Requests -> SUBSET DOMAIN Estimate]
  BY <1>1, <1>2
<1> QED  BY <1>1, <1>3, <1>5, <1>6, <1>7, StageStep

(* plan_route finds candidates, or fails.                                  *)
LEMMA PlanStep ==
    ASSUME Inv, NEW r \in Requests, Plan(r)
    PROVE  Inv'
<1> USE DEF Inv, GenerationInv
<1>1. /\ pc[r] = "queued" /\ Owns(r) /\ RecordOf(r) = NoRecord
      /\ UNCHANGED <<hold, job, records, taskVars, ledgerVars>>
  BY DEF Plan
<1>2. left \in [Requests -> SUBSET DOMAIN Estimate]
      /\ guard \in [IdemScopes -> Seq(Requests)]
  BY DEF GenerationTypeOK
<1>3. CASE Answer(r, "failed", NoTask) /\ UNCHANGED left
  <2>1. "failed" \in Outcomes \ {"none"} /\ ~InFlight(r)
    BY <1>1 DEF Outcomes, InFlight
  <2> QED  BY <1>1, <1>3, <2>1, AnswerStep
<1>4. CASE /\ pc' = [pc EXCEPT ![r] = "routing"]
           /\ left' = [left EXCEPT ![r] = Admissible(r)]
           /\ UNCHANGED <<outcome, answer, guard>>
  <2>1. "routing" \in Stages \ {"idle", "answered"}
    BY DEF Stages
  <2>2. /\ GuardSound' /\ pc' \in [Requests -> Stages] /\ pc'[r] = "routing"
        /\ \A q \in Requests \ {r} : pc'[q] = pc[q]
    BY <1>1, <1>4, <2>1, StagedGuard
  <2>3. Admissible(r) \subseteq DOMAIN Estimate
    BY RequestAssumption DEF Admissible
  <2>4. left' \in [Requests -> SUBSET DOMAIN Estimate]
    BY <1>2, <1>4, <2>3
  <2> QED  BY <1>1, <1>2, <1>4, <2>2, <2>4, StageStep
<1> QED  BY <1>3, <1>4 DEF Plan

(* A record answers for the create it was made for.                        *)
LEMMA ReplayStep ==
    ASSUME Inv, NEW r \in Requests, Replay(r)
    PROVE  Inv'
<1> USE DEF Inv, GenerationInv
<1>1. /\ pc[r] = "queued" /\ RecordOf(r) # NoRecord
      /\ UNCHANGED <<left, hold, job, records, taskVars, ledgerVars>>
      /\ ~InFlight(r)
  BY DEF Replay, InFlight
<1>2. CASE Answer(r, "replayed", RecordOf(r).task)
  <2>1. /\ IdemScope[r] \in IdemScopes /\ RecordOf(r) = records[IdemScope[r]]
    BY <1>1, RequestAssumption DEF RecordOf
  <2>2. RecordOf(r).task \in Tasks
    BY <1>1, <2>1 DEF GenerationTypeOK
  <2>3. \E q \in Requests : outcome[q] = "created" /\ job[q] = RecordOf(r).task
    BY <1>1, <2>1 DEF AnswersSound
  <2>4. "replayed" \in Outcomes \ {"none"}
    BY DEF Outcomes
  <2> QED  BY <1>1, <1>2, <2>2, <2>3, <2>4, AnswerStep
<1>3. CASE Answer(r, "conflict", NoTask)
  <2>1. "conflict" \in Outcomes \ {"none"}
    BY DEF Outcomes
  <2> QED  BY <1>1, <1>3, <2>1, AnswerStep
<1> QED  BY <1>2, <1>3 DEF Replay

(* The route hooks return a plan, and the first attempt begins.            *)
LEMMA RouteResolvedStep ==
    ASSUME UniqueTasks, Inv, NEW r \in Requests, RouteResolved(r)
    PROVE  Inv'
<1> USE DEF Inv, GenerationInv
<1>1. /\ pc[r] = "routing" /\ UNCHANGED <<byTask, job, records, taskVars>>
  BY DEF RouteResolved
<1>2. PICK chosen \in IF RouteHooks THEN SUBSET left[r] ELSE {left[r]} :
          NextAttempt(holds, r, chosen)
  BY DEF RouteResolved
<1>3. left[r] \subseteq DOMAIN Estimate /\ job \in [Requests -> Tasks \cup {NoTask}]
  BY DEF GenerationTypeOK
<1>4. chosen \in SUBSET DOMAIN Estimate
  BY <1>2, <1>3
<1>5. hold[r] = 0 /\ job[r] = NoTask
  BY <1>1 DEF AttemptsSound
<1>6. Without(holds, hold[r]) = holds /\ IndexReleased(hold[r]) = byTask
  BY <1>5, ReleaseNone
<1>7. job' = [job EXCEPT ![r] = NoTask]
  BY <1>1, <1>3, <1>5
<1>8. NextAttempt(Without(holds, hold[r]), r, chosen)
  BY <1>2, <1>6
<1>9. byTask' = IndexReleased(hold[r])
  BY <1>1, <1>6
<1>10. bound' = bound /\ UNCHANGED <<entry, charged, records, made, errors, closed>>
  BY <1>1 DEF taskVars
<1> QED  BY <1>1, <1>4, <1>7, <1>8, <1>9, <1>10, AttemptStep

(* The provider makes a task for the create call.                          *)
LEMMA ProviderAcceptsStep ==
    ASSUME UniqueTasks, Inv, NEW r \in Requests, ProviderAccepts(r)
    PROVE  Inv'
<1> USE DEF Inv, GenerationInv
<1>1. /\ pc[r] = "creating" /\ job[r] = NoTask
      /\ UNCHANGED <<pc, outcome, answer, left, hold, storeVars, bound, entry,
                     errors, closed, charged, ledgerVars>>
  BY DEF ProviderAccepts
<1>2. PICK t \in Tasks : /\ t \notin made
                         /\ job' = [job EXCEPT ![r] = t]
                         /\ made' = made \cup {t}
  BY DEF ProviderAccepts
<1>3. UNCHANGED <<pc, outcome, answer, left, hold, guard, records, bound, entry,
                  errors, closed, charged>>
      /\ UNCHANGED ledgerVars
  BY <1>1 DEF storeVars
<1>4. /\ job \in [Requests -> Tasks \cup {NoTask}]
      /\ job' \in [Requests -> Tasks \cup {NoTask}]
      /\ job'[r] = t /\ \A q \in Requests \ {r} : job'[q] = job[q]
  BY <1>2 DEF GenerationTypeOK
<1>5. \A q \in Requests : job[q] # t
  BY <1>2, NoneAssumption DEF TasksSound
<1>6. bound[t] = NoRequest
  BY <1>2 DEF TasksSound
<1>7. LedgerInv'
  BY <1>3 DEF ledgerVars, LedgerInv, LedgerTypeOK, IndexSound, Settleable,
              NothingAhead, WithinKeyBudget, WithinScopeBudget
<1>8. GenerationTypeOK'
  <2>1. made' \subseteq Tasks
    BY <1>2 DEF GenerationTypeOK
  <2> QED  BY <2>1, <1>3, <1>4 DEF GenerationTypeOK, Bodies, NoRecord
<1>9. GuardSound'
  BY <1>3 DEF GuardSound, NoRecord, Owns, RecordOf, PastGuard
<1>10. AttemptsSound'
  <2>1. ASSUME NEW q \in Requests
        PROVE  /\ pc[q] \in {"idle", "queued", "routing"} =>
                      hold[q] = 0 /\ job'[q] = NoTask
               /\ InFlight(q) => hold[q] \in DOMAIN holds
               /\ pc[q] = "creating" =>
                      /\ holds[hold[q]].task = NoTask
                      /\ job'[q] # NoTask => bound[job'[q]] = NoRequest
               /\ pc[q] = "syncing" =>
                      /\ job'[q] # NoTask
                      /\ holds[hold[q]].task = job'[q]
                      /\ entry[job'[q]] = "none"
               /\ pc[q] = "leaving" => job'[q] # NoTask
    <3>1. CASE q = r
      BY <3>1, <1>1, <1>4, <1>6 DEF AttemptsSound
    <3>2. CASE q # r
      BY <3>2, <1>4 DEF AttemptsSound
    <3> QED  BY <3>1, <3>2
  <2>2. /\ pc' = pc /\ hold' = hold /\ holds' = holds /\ bound' = bound
        /\ entry' = entry /\ nextId' = nextId
        /\ \A q \in Requests : InFlight(q)' = InFlight(q)
    BY <1>3 DEF ledgerVars, InFlight
  <2>3. /\ \A q \in Requests : hold[q] < nextId
        /\ \A q, p \in Requests : hold[q] = hold[p] /\ hold[q] # 0 => q = p
    BY DEF AttemptsSound
  <2> QED  BY <2>1, <2>2, <2>3 DEF AttemptsSound
<1>11. TasksSound'
  <2>1. \A q \in Requests : job'[q] # NoTask => job'[q] \in made'
    BY <1>2, <1>4 DEF TasksSound
  <2>2. \A q, p \in Requests : job'[q] = job'[p] /\ job'[q] # NoTask => q = p
    BY <1>4, <1>5 DEF TasksSound
  <2>3. \A u \in Tasks : bound[u] # NoRequest => u \in made'
    BY <1>2 DEF TasksSound
  <2> QED  BY <2>1, <2>2, <2>3, <1>3 DEF TasksSound, MaxErrors, ledgerVars
<1>12. AnswersSound'
  <2>1. outcome[r] # "created"
    BY <1>1 DEF AnswersSound
  <2>2. \A q \in Requests : outcome[q] = "created" => job'[q] = job[q]
    BY <2>1, <1>4
  <2>3. ASSUME NEW q \in Requests, answer[q] # NoTask
        PROVE  \E p \in Requests : outcome[p] = "created" /\ job'[p] = answer[q]
    BY <2>2, <2>3 DEF AnswersSound
  <2>4. ASSUME NEW s \in IdemScopes, records[s] # NoRecord
        PROVE  \E p \in Requests : outcome[p] = "created" /\ job'[p] = records[s].task
    BY <2>2, <2>4 DEF AnswersSound
  <2>5. \A q \in Requests : outcome[q] = "none" <=> pc[q] # "answered"
    BY DEF AnswersSound
  <2> QED  BY <2>3, <2>4, <2>5, <1>3 DEF AnswersSound, NoRecord
<1>13. AcceptedLast'
  <2>1. \A q \in Requests : RecordOf(q)' = RecordOf(q)
    BY <1>3 DEF RecordOf
  <2> QED  BY <2>1, <1>1, <1>3, <1>4 DEF AcceptedLast
<1>14. HoldsOwned' /\ ObservedTasksHeld' /\ ChargedOnce'
  BY <1>3 DEF HoldsOwned, InFlight, ObservedTasksHeld, ChargedOnce, ledgerVars
<1> QED  BY <1>7, <1>8, <1>9, <1>10, <1>11, <1>12, <1>13, <1>14

(* An attempt failed: execute_plan goes on, or gives up.                   *)
LEMMA AttemptFailsStep ==
    ASSUME UniqueTasks, Inv, NEW r \in Requests, NEW retryable \in BOOLEAN,
           pc[r] \in {"creating", "syncing"}, AttemptFails(r, retryable),
           \/ bound' = bound
           \/ /\ closed /\ pc[r] = "creating" /\ job[r] # NoTask
              /\ bound' = [bound EXCEPT ![job[r]] = r],
           UNCHANGED <<entry, charged, records, made, errors, closed>>
    PROVE  Inv'
<1> DEFINE cands == IF retryable THEN left[r] ELSE {}
<1>1. /\ NextAttempt(Without(holds, hold[r]), r, cands)
      /\ byTask' = IndexReleased(hold[r]) /\ job' = [job EXCEPT ![r] = NoTask]
  BY DEF AttemptFails, HoldsReleased
<1>2. cands \in SUBSET DOMAIN Estimate
  BY DEF Inv, GenerationInv, GenerationTypeOK
<1> HIDE DEF cands
<1> QED  BY <1>1, <1>2, AttemptStep

(* The hold of a create that waits for its result is bound to its task.    *)
LEMMA BindStep ==
    ASSUME UniqueTasks, Inv, NEW r \in Requests, r \in SyncWait,
           pc[r] = "creating", job[r] # NoTask,
           bound' = [bound EXCEPT ![job[r]] = r],
           pc' = [pc EXCEPT ![r] = "syncing"], Bind(hold[r], job[r]),
           UNCHANGED <<outcome, answer, left, hold, job, guard, entry, charged,
                       records, made, errors, closed>>
    PROVE  Inv'
<1> USE DEF Inv, GenerationInv
<1> DEFINE t == job[r]
           x == hold[r]
<1>1. /\ t \in Tasks /\ t \in made /\ x \in DOMAIN holds /\ x \in (1 .. MaxHolds)
      /\ entry[t] = "none"
      /\ byTask[t] = 0 /\ bound[t] = NoRequest
      /\ holds[x].task = NoTask
      /\ \A g \in DOMAIN holds : holds[g].task # t
      /\ \A u \in Tasks : byTask[u] = x => u = t
      /\ \A q \in Requests \ {r} : job[q] # t /\ hold[q] # x
  BY JobFacts
<1>2. LedgerInv'
  BY <1>1, BindInv
<1>3. /\ holds' = [holds EXCEPT ![x].task = t] /\ byTask' = [byTask EXCEPT ![t] = x]
      /\ nextId' = nextId
  BY <1>1 DEF Bind
<1>4. /\ byTask \in [Tasks -> 0 .. MaxHolds]
      /\ holds \in [DOMAIN holds -> HoldType]
      /\ bound \in [Tasks -> Requests \cup {NoRequest}]
  BY DEF LedgerInv, LedgerTypeOK, IsTable, GenerationTypeOK
<1>5. /\ DOMAIN holds' = DOMAIN holds /\ holds'[x].task = t
      /\ \A h \in DOMAIN holds \ {x} : holds'[h] = holds[h]
      /\ byTask'[t] = x /\ \A u \in Tasks \ {t} : byTask'[u] = byTask[u]
  BY <1>1, <1>3, <1>4 DEF HoldType
<1>6. /\ bound' \in [Tasks -> Requests \cup {NoRequest}] /\ bound'[t] = r
      /\ \A u \in Tasks \ {t} : bound'[u] = bound[u]
  BY <1>1, <1>4
<1>7. /\ GuardSound' /\ pc' \in [Requests -> Stages] /\ pc'[r] = "syncing"
      /\ \A q \in Requests \ {r} : pc'[q] = pc[q]
  <2>1. Owns(r) /\ RecordOf(r) = NoRecord
    BY DEF GuardSound, PastGuard
  <2>2. "syncing" \in Stages \ {"idle", "answered"}
    BY DEF Stages
  <2> QED  BY <2>1, <2>2, StagedGuard
<1>8. /\ hold' = hold /\ job' = job /\ entry' = entry /\ outcome' = outcome
      /\ closed' = closed /\ errors' = errors /\ made' = made /\ records' = records
      /\ answer' = answer /\ charged' = charged
  OBVIOUS
<1>9. GenerationTypeOK'
  BY <1>6, <1>7 DEF GenerationTypeOK, Bodies, NoRecord
<1> HIDE DEF t, x
<1>10. AttemptsSound'
  <2>1. ASSUME NEW q \in Requests \ {r}, InFlight(q)
        PROVE  hold[q] \in DOMAIN holds' /\ holds'[hold[q]] = holds[hold[q]]
    <3>1. hold[q] \in DOMAIN holds /\ hold[q] # x
      BY <2>1, <1>1 DEF AttemptsSound
    <3> QED  BY <3>1, <1>5
  <2>2. ASSUME NEW q \in Requests
        PROVE  /\ pc'[q] \in {"idle", "queued", "routing"} =>
                      hold[q] = 0 /\ job[q] = NoTask
               /\ InFlight(q)' => hold[q] \in DOMAIN holds'
               /\ pc'[q] = "creating" =>
                      /\ holds'[hold[q]].task = NoTask
                      /\ job[q] # NoTask => bound'[job[q]] = NoRequest
               /\ pc'[q] = "syncing" =>
                      /\ job[q] # NoTask
                      /\ holds'[hold[q]].task = job[q]
                      /\ entry[job[q]] = "none"
               /\ pc'[q] = "leaving" => job[q] # NoTask
    <3>1. CASE q = r
      BY <3>1, <1>1, <1>5, <1>7 DEF InFlight, t, x
    <3>2. CASE q # r
      <4>1. pc'[q] = pc[q] /\ InFlight(q)' = InFlight(q) /\ job[q] # t
        BY <3>2, <1>1, <1>7 DEF InFlight
      <4>2. job[q] # NoTask => bound'[job[q]] = bound[job[q]]
        BY <4>1, <1>6 DEF GenerationTypeOK
      <4>3. pc[q] \in {"idle", "queued", "routing"} => hold[q] = 0 /\ job[q] = NoTask
        BY DEF AttemptsSound
      <4>4. pc[q] = "creating" => /\ holds[hold[q]].task = NoTask /\ InFlight(q)
                                  /\ job[q] # NoTask => bound[job[q]] = NoRequest
        BY DEF AttemptsSound, InFlight
      <4>5. pc[q] = "syncing" => /\ job[q] # NoTask /\ InFlight(q)
                                 /\ holds[hold[q]].task = job[q]
                                 /\ entry[job[q]] = "none"
        BY DEF AttemptsSound, InFlight
      <4>6. pc[q] = "leaving" => job[q] # NoTask
        BY DEF AttemptsSound
      <4> QED  BY <3>2, <4>1, <4>2, <4>3, <4>4, <4>5, <4>6, <2>1
    <3> QED  BY <3>1, <3>2
  <2>3. /\ \A q \in Requests : hold[q] < nextId
        /\ \A q, p \in Requests : hold[q] = hold[p] /\ hold[q] # 0 => q = p
    BY DEF AttemptsSound
  <2> QED  BY <2>2, <2>3, <1>3, <1>8 DEF AttemptsSound
<1>11. TasksSound'
  <2>1. \A u \in Tasks : bound'[u] # NoRequest => u \in made
    BY <1>1, <1>6 DEF TasksSound
  <2>2. \A u \in Tasks : entry[u] # "none" \/ byTask'[u] # 0 => bound'[u] # NoRequest
    BY <1>1, <1>5, <1>6, RequestAssumption DEF TasksSound
  <2> QED  BY <2>1, <2>2, <1>8 DEF TasksSound, MaxErrors
<1>12. AnswersSound'
  <2>1. \A q \in Requests : pc'[q] # "answered" <=> pc[q] # "answered"
    BY <1>7
  <2> QED  BY <2>1, <1>8 DEF AnswersSound, NoRecord
<1>13. AcceptedLast'
  <2> SUFFICES ASSUME NEW u \in Tasks, NEW q \in Requests \ SyncWait,
                      bound'[u] = q, ~closed
               PROVE  /\ pc'[q] \in {"leaving", "answered"}
                      /\ job[q] = u
                      /\ \/ IdemScope[q] = NoIdem
                         \/ q \in MayCancel
                         \/ pc'[q] = "leaving"
                         \/ RecordOf(q)'.task = u
    BY <1>8 DEF AcceptedLast
  <2>1. q # r /\ bound[u] = q
    BY <1>6
  <2>2. RecordOf(q)' = RecordOf(q)
    BY DEF RecordOf
  <2> QED  BY <2>1, <2>2, <1>7 DEF AcceptedLast
<1>14. HoldsOwned'
  <2> SUFFICES ASSUME NEW h \in DOMAIN holds
               PROVE  \/ \E q \in Requests : hold[q] = h /\ InFlight(q)'
                      \/ \E u \in Tasks : byTask'[u] = h /\ entry[u] = "running"
                      \/ \E q \in Requests : hold[q] = h /\ outcome[q] = "cancelled"
    BY <1>5, <1>8 DEF HoldsOwned
  <2>1. \A q \in Requests : InFlight(q) => InFlight(q)'
    BY <1>7 DEF InFlight
  <2>2. \A u \in Tasks : entry[u] = "running" => byTask'[u] = byTask[u]
    BY <1>1, <1>5
  <2> QED  BY <2>1, <2>2 DEF HoldsOwned
<1>15. ObservedTasksHeld' /\ ChargedOnce'
  BY <1>1, <1>5, <1>8 DEF ObservedTasksHeld, ChargedOnce
<1> QED  BY <1>2, <1>7, <1>9, <1>10, <1>11, <1>12, <1>13, <1>14, <1>15

(* accept(): the task goes to the sync wait or to the supervisor, or a     *)
(* closed supervisor refuses it.                                           *)
LEMMA CreateAnsweredStep ==
    ASSUME UniqueTasks, Inv, NEW r \in Requests, CreateAnswered(r)
    PROVE  Inv'
<1>1. /\ pc[r] = "creating" /\ job[r] # NoTask
      /\ bound' = [bound EXCEPT ![job[r]] = r]
      /\ UNCHANGED <<records, made, errors, closed>>
  BY DEF CreateAnswered
<1>2. CASE r \in SyncWait
  <2>1. /\ pc' = [pc EXCEPT ![r] = "syncing"] /\ Bind(hold[r], job[r])
        /\ UNCHANGED <<outcome, answer, left, hold, job, guard, entry, charged>>
    BY <1>2 DEF CreateAnswered
  <2> QED  BY <1>1, <1>2, <2>1, BindStep
<1>3. CASE \E status \in Statuses, c \in ReportedCosts :
               StartMonitor(r, job[r], status, c)
  BY <1>1, <1>3, MonitorStep
<1>4. CASE closed /\ AttemptFails(r, TRUE) /\ UNCHANGED <<entry, charged>>
  BY <1>1, <1>4, AttemptFailsStep
<1> QED  BY <1>2, <1>3, <1>4 DEF CreateAnswered

(* The create call raises.                                                 *)
LEMMA CreateFailsStep ==
    ASSUME UniqueTasks, Inv, NEW r \in Requests, CreateFails(r)
    PROVE  Inv'
<1>1. pc[r] = "creating" /\ UNCHANGED <<records, taskVars>>
      /\ \E retryable \in BOOLEAN : AttemptFails(r, retryable)
  BY DEF CreateFails
<1>2. bound' = bound /\ UNCHANGED <<entry, charged, records, made, errors, closed>>
  BY <1>1 DEF taskVars
<1> QED  BY <1>1, <1>2, AttemptFailsStep

(* A poll of the sync wait raises.                                         *)
LEMMA SyncPollFailsStep ==
    ASSUME UniqueTasks, Inv, NEW r \in Requests, SyncPollFails(r)
    PROVE  Inv'
<1>1. pc[r] = "syncing" /\ UNCHANGED <<records, taskVars>>
      /\ \E retryable \in BOOLEAN : AttemptFails(r, retryable)
  BY DEF SyncPollFails
<1>2. bound' = bound /\ UNCHANGED <<entry, charged, records, made, errors, closed>>
  BY <1>1 DEF taskVars
<1> QED  BY <1>1, <1>2, AttemptFailsStep

(* The sync wait is over.                                                  *)
LEMMA SyncDoneStep ==
    ASSUME UniqueTasks, Inv, NEW r \in Requests, SyncDone(r)
    PROVE  Inv'
<1>1. /\ pc[r] = "syncing" /\ job[r] # NoTask /\ bound' = bound
      /\ UNCHANGED <<records, made, errors, closed>>
  BY DEF SyncDone, Inv, GenerationInv, AttemptsSound
<1>2. CASE \E status \in Statuses, c \in ReportedCosts :
               StartMonitor(r, job[r], status, c)
  BY <1>1, <1>2, MonitorStep
<1>3. CASE closed /\ AttemptFails(r, TRUE) /\ UNCHANGED <<entry, charged>>
  BY <1>1, <1>3, AttemptFailsStep
<1> QED  BY <1>2, <1>3 DEF SyncDone

(* The record is stored and the handler answers.                           *)
LEMMA CreatedStep ==
    ASSUME Inv, NEW r \in Requests, Created(r)
    PROVE  Inv'
<1>1. /\ pc[r] = "leaving" /\ Answer(r, "created", job[r])
      /\ records' = IF IdemScope[r] = NoIdem THEN records
                    ELSE [records EXCEPT ![IdemScope[r]] =
                             [task |-> job[r], body |-> Body[r]]]
      /\ UNCHANGED <<left, hold, job, taskVars, ledgerVars>>
      /\ ~InFlight(r)
  BY DEF Created, InFlight
<1>2. "created" \in Outcomes \ {"none"} /\ job[r] \in Tasks \cup {NoTask}
  BY DEF Outcomes, Inv, GenerationInv, GenerationTypeOK
<1> QED  BY <1>1, <1>2, AnswerStep

(* A create is cancelled.                                                  *)
LEMMA CancelStep ==
    ASSUME Inv, NEW r \in Requests, Cancel(r)
    PROVE  Inv'
<1>1. /\ r \in MayCancel /\ pc[r] \notin {"idle", "answered"}
      /\ Answer(r, "cancelled", NoTask)
      /\ UNCHANGED <<left, hold, job, records, taskVars, ledgerVars>>
  BY DEF Cancel
<1>2. "cancelled" \in Outcomes \ {"none"}
  BY DEF Outcomes
<1> QED  BY <1>1, <1>2, AnswerStep

-----------------------------------------------------------------------------
(* The steps of a monitor, and shutdown.                                   *)

(* A monitor ends: the hold of its task is settled.                        *)
LEMMA FinishStep ==
    ASSUME Inv, NEW t \in Tasks, entry[t] = "running",
           NEW status \in {"succeeded", "failed"}, NEW c \in ReportedCosts,
           Finish(t, status, c), errors' \in [Tasks -> 0 .. MaxErrors],
           \A u \in Tasks \ {t} : errors'[u] = errors[u]
    PROVE  Inv'
<1> USE DEF Inv, GenerationInv
<1> DEFINE x == byTask[t]
<1>1. /\ x \in DOMAIN holds /\ holds[x].task = t /\ x # 0
      /\ \A u \in Tasks : byTask[u] = x => u = t
  BY DEF ObservedTasksHeld, LedgerInv, IndexSound
<1>2. /\ entry' = [entry EXCEPT ![t] = status]
      /\ SettleTask(x, t, status, c, [byTask EXCEPT ![t] = 0])
      /\ UNCHANGED <<requestVars, storeVars, made, bound, closed>>
  BY DEF Finish
<1>3. UNCHANGED <<pc, outcome, answer, left, hold, job, guard, records, made,
                  bound, closed>>
  BY <1>2 DEF requestVars, storeVars
<1>4. charged \in [Tasks -> Nat] /\ charged[t] = 0
      /\ entry \in [Tasks -> {"none"} \cup Statuses]
  BY DEF GenerationTypeOK, ChargedOnce
<1> HIDE DEF x
<1>5. /\ LedgerInv' /\ nextId' = nextId
      /\ DOMAIN holds' = DOMAIN holds \ {x}
      /\ \A h \in DOMAIN holds' : holds'[h] = holds[h]
      /\ byTask'[t] = 0 /\ \A u \in Tasks \ {t} : byTask'[u] = byTask[u]
      /\ charged' = IF status = "succeeded"
                    THEN [charged EXCEPT ![t] = @ + 1] ELSE charged
  <2>1. /\ x \in DOMAIN holds /\ byTask[t] \in {0, x}
        /\ \A u \in Tasks : byTask[u] = x => u = t
    BY <1>1 DEF x
  <2>2. SettleTask(x, t, status, c, [byTask EXCEPT ![t] = 0]) /\ LedgerInv
    BY <1>2
  <2> QED  BY <2>1, <2>2, SettledLedger
<1>6. /\ entry' \in [Tasks -> {"none"} \cup Statuses] /\ entry'[t] = status
      /\ \A u \in Tasks \ {t} : entry'[u] = entry[u]
  BY <1>2, <1>4 DEF Statuses
<1>7. /\ charged' \in [Tasks -> Nat]
      /\ charged'[t] = IF status = "succeeded" THEN 1 ELSE 0
      /\ \A u \in Tasks \ {t} : charged'[u] = charged[u]
  BY <1>4, <1>5
<1>8. GenerationTypeOK'
  BY <1>3, <1>6, <1>7 DEF GenerationTypeOK, Bodies, NoRecord
<1>9. GuardSound'
  BY <1>3 DEF GuardSound, NoRecord, Owns, RecordOf, PastGuard
<1>10. AttemptsSound'
  <2>1. ASSUME NEW q \in Requests, InFlight(q)
        PROVE  hold[q] \in DOMAIN holds' /\ holds'[hold[q]] = holds[hold[q]]
    <3>1. hold[q] \in DOMAIN holds
      BY <2>1 DEF AttemptsSound
    <3>2. hold[q] # x
      <4>1. CASE pc[q] = "creating"
        BY <4>1, <1>1, NoneAssumption DEF AttemptsSound
      <4>2. CASE pc[q] = "syncing"
        BY <4>2, <1>1 DEF AttemptsSound
      <4> QED  BY <4>1, <4>2, <2>1 DEF InFlight
    <3> QED  BY <3>1, <3>2, <1>5
  <2>2. ASSUME NEW q \in Requests
        PROVE  /\ pc[q] \in {"idle", "queued", "routing"} =>
                      hold[q] = 0 /\ job[q] = NoTask
               /\ InFlight(q) => hold[q] \in DOMAIN holds'
               /\ pc[q] = "creating" =>
                      /\ holds'[hold[q]].task = NoTask
                      /\ job[q] # NoTask => bound[job[q]] = NoRequest
               /\ pc[q] = "syncing" =>
                      /\ job[q] # NoTask
                      /\ holds'[hold[q]].task = job[q]
                      /\ entry'[job[q]] = "none"
               /\ pc[q] = "leaving" => job[q] # NoTask
    <3>1. pc[q] \in {"idle", "queued", "routing"} => hold[q] = 0 /\ job[q] = NoTask
      BY DEF AttemptsSound
    <3>2. pc[q] = "creating" => /\ holds[hold[q]].task = NoTask /\ InFlight(q)
                                /\ job[q] # NoTask => bound[job[q]] = NoRequest
      BY DEF AttemptsSound, InFlight
    <3>3. pc[q] = "syncing" => /\ job[q] # NoTask /\ InFlight(q)
                               /\ holds[hold[q]].task = job[q]
                               /\ entry[job[q]] = "none"
      BY DEF AttemptsSound, InFlight
    <3>4. pc[q] = "leaving" => job[q] # NoTask
      BY DEF AttemptsSound
    <3>5. job[q] # NoTask => job[q] \in Tasks
      BY DEF GenerationTypeOK
    <3> QED  BY <3>1, <3>2, <3>3, <3>4, <3>5, <2>1, <1>6
  <2>3. /\ \A q \in Requests : hold[q] < nextId
        /\ \A q, p \in Requests : hold[q] = hold[p] /\ hold[q] # 0 => q = p
    BY DEF AttemptsSound
  <2>4. \A q \in Requests : InFlight(q)' = InFlight(q)
    BY <1>3 DEF InFlight
  <2> QED  BY <2>2, <2>3, <2>4, <1>3, <1>5 DEF AttemptsSound
<1>11. TasksSound'
  <2>1. \A u \in Tasks : entry'[u] # "none" \/ byTask'[u] # 0 => bound[u] # NoRequest
    BY <1>5, <1>6 DEF TasksSound
  <2>2. \A u \in Tasks : entry'[u] \in {"none", "running"} => errors'[u] < MaxErrors
    BY <1>6 DEF TasksSound
  <2> QED  BY <2>1, <2>2, <1>3 DEF TasksSound, MaxErrors
<1>12. AnswersSound' /\ AcceptedLast'
  <2>1. AnswersSound'
    BY <1>3 DEF AnswersSound, NoRecord
  <2>2. AcceptedLast'
    BY <1>3 DEF AcceptedLast, RecordOf, NoRecord
  <2> QED  BY <2>1, <2>2
<1>13. HoldsOwned'
  <2> SUFFICES ASSUME NEW h \in DOMAIN holds'
               PROVE  \/ \E q \in Requests : hold[q] = h /\ InFlight(q)'
                      \/ \E u \in Tasks : byTask'[u] = h /\ entry'[u] = "running"
                      \/ \E q \in Requests : hold[q] = h /\ outcome[q] = "cancelled"
    BY <1>3 DEF HoldsOwned
  <2>1. h \in DOMAIN holds /\ h # x
    BY <1>5
  <2>2. \A q \in Requests : InFlight(q)' = InFlight(q)
    BY <1>3 DEF InFlight
  <2>3. \A u \in Tasks : byTask[u] = h /\ entry[u] = "running" =>
            byTask'[u] = h /\ entry'[u] = "running"
    BY <2>1, <1>5, <1>6 DEF x
  <2> QED  BY <2>1, <2>2, <2>3 DEF HoldsOwned
<1>14. ObservedTasksHeld' /\ ChargedOnce'
  <2>1. \A u \in Tasks : entry'[u] = "running" => byTask'[u] # 0
    BY <1>5, <1>6 DEF ObservedTasksHeld
  <2>2. \A u \in Tasks : charged'[u] = IF entry'[u] = "succeeded" THEN 1 ELSE 0
    BY <1>6, <1>7 DEF ChargedOnce
  <2> QED  BY <2>1, <2>2 DEF ObservedTasksHeld, ChargedOnce
<1> QED  BY <1>5, <1>8, <1>9, <1>10, <1>11, <1>12, <1>13, <1>14

(* A poll that decides nothing, and shutdown.                              *)
LEMMA QuietStep ==
    ASSUME Inv,
           UNCHANGED <<requestVars, storeVars, made, bound, entry, charged, ledgerVars>>,
           errors' \in [Tasks -> 0 .. MaxErrors],
           \A t \in Tasks : entry[t] \in {"none", "running"} => errors'[t] < MaxErrors,
           closed' = closed \/ (closed' = TRUE /\ MayClose)
    PROVE  Inv'
<1> USE DEF Inv, GenerationInv
<1>1. /\ UNCHANGED <<pc, outcome, answer, left, hold, job, guard, records, made,
                     bound, entry, charged>>
      /\ UNCHANGED ledgerVars
  BY DEF requestVars, storeVars
<1>2. LedgerInv'
  BY <1>1 DEF ledgerVars, LedgerInv, LedgerTypeOK, IndexSound, Settleable,
              NothingAhead, WithinKeyBudget, WithinScopeBudget
<1>3. GenerationTypeOK'
  BY <1>1 DEF GenerationTypeOK, Bodies, NoRecord
<1>4. GuardSound'
  BY <1>1 DEF GuardSound, NoRecord, Owns, RecordOf, PastGuard
<1>5. AttemptsSound'
  BY <1>1, AttemptsKept DEF ledgerVars
<1>6. TasksSound'
  BY <1>1 DEF TasksSound, MaxErrors, ledgerVars
<1>7. AnswersSound'
  BY <1>1 DEF AnswersSound, NoRecord
<1>8. AcceptedLast'
  <2>1. ~closed' => ~closed
    BY DEF GenerationTypeOK
  <2> QED  BY <2>1, <1>1 DEF AcceptedLast, RecordOf, NoRecord
<1>9. HoldsOwned' /\ ObservedTasksHeld' /\ ChargedOnce'
  BY <1>1 DEF HoldsOwned, InFlight, ObservedTasksHeld, ChargedOnce, ledgerVars
<1> QED  BY <1>2, <1>3, <1>4, <1>5, <1>6, <1>7, <1>8, <1>9

(* The polls of a task that is observed.                                   *)
LEMMA PollStep ==
    ASSUME Inv, NEW t \in Tasks, Poll(t)
    PROVE  Inv'
<1>1. /\ errors \in [Tasks -> 0 .. MaxErrors] /\ closed \in BOOLEAN
      /\ \A u \in Tasks : entry[u] \in {"none", "running"} => errors[u] < MaxErrors
  BY DEF Inv, GenerationInv, GenerationTypeOK, TasksSound
<1>2. entry[t] = "running" /\ errors[t] < MaxErrors
  BY <1>1 DEF Poll, PollRunning, PollTerminal, PollError, Polling
<1>3. CASE PollRunning(t)
  <2>1. errors' = [errors EXCEPT ![t] = 0] /\ UNCHANGED closed
        /\ UNCHANGED <<requestVars, storeVars, made, bound, entry, charged, ledgerVars>>
    BY <1>3 DEF PollRunning
  <2>2. /\ errors' \in [Tasks -> 0 .. MaxErrors]
        /\ \A u \in Tasks : entry[u] \in {"none", "running"} => errors'[u] < MaxErrors
    BY <2>1, <1>1 DEF MaxErrors
  <2> QED  BY <2>1, <2>2, QuietStep
<1>4. CASE PollTerminal(t)
  <2>1. PICK status \in Statuses \ {"running"}, c \in ReportedCosts :
            Finish(t, status, c)
    BY <1>4 DEF PollTerminal
  <2>2. status \in {"succeeded", "failed"}
    BY DEF Statuses
  <2>3. errors' = [errors EXCEPT ![t] = 0]
    BY <1>4 DEF PollTerminal
  <2>4. /\ errors' \in [Tasks -> 0 .. MaxErrors]
        /\ \A u \in Tasks \ {t} : errors'[u] = errors[u]
    BY <2>3, <1>1 DEF MaxErrors
  <2> QED  BY <1>2, <2>1, <2>2, <2>4, FinishStep
<1>5. CASE PollError(t)
  <2>1. errors' = [errors EXCEPT ![t] = @ + 1]
    BY <1>5 DEF PollError
  <2>2. /\ errors' \in [Tasks -> 0 .. MaxErrors]
        /\ errors'[t] = errors[t] + 1
        /\ \A u \in Tasks \ {t} : errors'[u] = errors[u]
    BY <2>1, <1>1, <1>2 DEF MaxErrors
  <2>3. CASE errors[t] + 1 >= MaxErrors
    <3>1. Finish(t, "failed", Unpriced) /\ Unpriced \in ReportedCosts
      BY <2>3, <1>5 DEF PollError, ReportedCosts
    <3> QED  BY <3>1, <1>2, <2>2, FinishStep
  <2>4. CASE ~(errors[t] + 1 >= MaxErrors)
    <3>1. UNCHANGED closed
          /\ UNCHANGED <<requestVars, storeVars, made, bound, entry, charged, ledgerVars>>
      BY <2>4, <1>5 DEF PollError
    <3>2. \A u \in Tasks : entry[u] \in {"none", "running"} => errors'[u] < MaxErrors
      BY <2>2, <2>4, <1>1, <1>2 DEF MaxErrors
    <3> QED  BY <3>1, <3>2, <2>2, QuietStep
  <2> QED  BY <2>3, <2>4
<1> QED  BY <1>3, <1>4, <1>5 DEF Poll

-----------------------------------------------------------------------------
(* The invariant.                                                          *)

(* Nothing is under way when the gateway starts.                           *)
LEMMA GenerationInit == Init => Inv
<1> SUFFICES ASSUME Init PROVE Inv
  OBVIOUS
<1> USE DEF Init
<1>1. LedgerInv
  BY InitInv
<1>2. GenerationTypeOK
  <2>1. /\ pc \in [Requests -> Stages] /\ outcome \in [Requests -> Outcomes]
        /\ entry \in [Tasks -> {"none"} \cup Statuses]
    BY DEF Stages, Outcomes
  <2>2. guard \in [IdemScopes -> Seq(Requests)]
    OBVIOUS
  <2>3. /\ hold \in [Requests -> 0 .. MaxHolds] /\ errors \in [Tasks -> 0 .. MaxErrors]
        /\ charged \in [Tasks -> Nat]
    BY ClockAssumption DEF MaxErrors
  <2>4. /\ answer \in [Requests -> Tasks \cup {NoTask}]
        /\ job \in [Requests -> Tasks \cup {NoTask}]
        /\ bound \in [Tasks -> Requests \cup {NoRequest}]
        /\ left \in [Requests -> SUBSET DOMAIN Estimate]
        /\ made \subseteq Tasks /\ closed \in BOOLEAN
    OBVIOUS
  <2>5. records \in [IdemScopes -> [task: Tasks, body: Bodies] \cup {NoRecord}]
    OBVIOUS
  <2> QED  BY <2>1, <2>2, <2>3, <2>4, <2>5 DEF GenerationTypeOK
<1>3. GuardSound
  <2>1. \A s \in IdemScopes : Len(guard[s]) = 0
    OBVIOUS
  <2>2. \A r \in Requests : IdemScope[r] # NoIdem => IdemScope[r] \in IdemScopes
    BY RequestAssumption
  <2>3. \A r \in Requests : ~PastGuard(r) /\ pc[r] = "idle"
    BY DEF PastGuard
  <2> QED  BY <2>1, <2>2, <2>3 DEF GuardSound
<1>4. AttemptsSound
  BY DEF AttemptsSound, InFlight, LedgerInit
<1>5. TasksSound
  BY DEF TasksSound, LedgerInit, MaxErrors
<1>6. AnswersSound
  BY DEF AnswersSound
<1>7. AcceptedLast
  BY RequestAssumption DEF AcceptedLast
<1>8. HoldsOwned /\ ObservedTasksHeld /\ ChargedOnce
  BY DEF HoldsOwned, ObservedTasksHeld, ChargedOnce, LedgerInit
<1> QED  BY <1>1, <1>2, <1>3, <1>4, <1>5, <1>6, <1>7, <1>8 DEF Inv, GenerationInv

(* Every step of the gateway and of its providers keeps the invariant.     *)
LEMMA GenerationNext ==
    ASSUME UniqueTasks, Inv, [Next]_vars
    PROVE  Inv'
<1>1. ASSUME NEW r \in Requests, Arrive(r) PROVE Inv'
  BY <1>1, ArriveStep
<1>2. ASSUME NEW r \in Requests, Progress(r) PROVE Inv'
  BY <1>2, ReplayStep, PlanStep, RouteResolvedStep, ProviderAcceptsStep,
     CreateAnsweredStep, CreateFailsStep, SyncDoneStep, SyncPollFailsStep,
     CreatedStep DEF Progress
<1>3. ASSUME NEW r \in Requests, Cancel(r) PROVE Inv'
  BY <1>3, CancelStep
<1>4. ASSUME NEW t \in Tasks, Poll(t) PROVE Inv'
  BY <1>4, PollStep
<1>5. /\ errors \in [Tasks -> 0 .. MaxErrors]
      /\ \A t \in Tasks : entry[t] \in {"none", "running"} => errors[t] < MaxErrors
  BY DEF Inv, GenerationInv, GenerationTypeOK, TasksSound
<1>6. CASE Close
  BY <1>5, <1>6, QuietStep DEF Close
<1>7. CASE UNCHANGED vars
  <2>1. UNCHANGED <<requestVars, storeVars, made, bound, entry, charged, ledgerVars>>
        /\ errors' = errors /\ closed' = closed
    BY <1>7 DEF vars, taskVars
  <2> QED  BY <2>1, <1>5, QuietStep
<1> QED  BY <1>1, <1>2, <1>3, <1>4, <1>6, <1>7 DEF Next

-----------------------------------------------------------------------------
(* The theorems.                                                           *)

(* Through every interleaving of creates, provider answers, polls,         *)
(* cancellations and shutdown (execute_plan, _GenerationService,           *)
(* AsyncTaskSupervisor), the guards, records, holds and tasks belong       *)
(* together: no reservation without somebody who will end it, except a     *)
(* cancelled create's, and no observed task without its reservation.       *)
THEOREM GenerationHolds ==
    ASSUME UniqueTasks
    PROVE  Spec => []GenerationInv
<1>1. Init => Inv
  BY GenerationInit
<1>2. Inv /\ [Next]_vars => Inv'
  BY GenerationNext
<1>3. Inv => GenerationInv
  BY DEF Inv
<1> QED  BY <1>1, <1>2, <1>3, PTL DEF Spec

(* Whichever of the create, the sync wait and the monitor sees a task's    *)
(* end (_start_monitor, _finish), the task is charged exactly once if it   *)
(* succeeded, and never otherwise.                                         *)
THEOREM TasksChargedOnce ==
    ASSUME UniqueTasks
    PROVE  Spec => []ChargedOnce
<1>1. Init => Inv
  BY GenerationInit
<1>2. Inv /\ [Next]_vars => Inv'
  BY GenerationNext
<1>3. Inv => ChargedOnce
  BY DEF Inv
<1> QED  BY <1>1, <1>2, <1>3, PTL DEF Spec

(* Holding, releasing and settling along the paths of execute_plan keeps   *)
(* the ledger's own promise: no key and no scope is committed beyond its   *)
(* limit by more than what providers charged above their estimates.        *)
THEOREM CreatesWithinBudget ==
    ASSUME UniqueTasks
    PROVE  Spec => [](WithinKeyBudget /\ WithinScopeBudget)
<1>1. GenerationInv => WithinKeyBudget /\ WithinScopeBudget
  BY DEF GenerationInv, LedgerInv
<1> QED  BY <1>1, GenerationHolds, PTL

(* A create that does not wait for its result ends with the task that was  *)
(* accepted for it, as long as the supervisor is open.                     *)
LEMMA AcceptedIsLast ==
    ASSUME Inv, NEW t \in Tasks, bound[t] # NoRequest, bound[t] \notin SyncWait,
           ~closed
    PROVE  /\ bound[t] \in Requests /\ job[bound[t]] = t
           /\ pc[bound[t]] \in {"leaving", "answered"}
           /\ \/ IdemScope[bound[t]] = NoIdem
              \/ bound[t] \in MayCancel
              \/ pc[bound[t]] = "leaving"
              \/ RecordOf(bound[t]).task = t
<1>1. bound[t] \in Requests \ SyncWait
  BY DEF Inv, GenerationInv, GenerationTypeOK
<1> QED  BY <1>1 DEF Inv, GenerationInv, AcceptedLast

(* A task that costs something: it is or was observed, holds a reservation *)
(* or was charged.                                                         *)
Costly(t) == entry[t] # "none" \/ byTask[t] # 0 \/ charged[t] # 0
CostlyNext(t) == entry'[t] # "none" \/ byTask'[t] # 0 \/ charged'[t] # 0
Bearing == {"none", "created", "cancelled"}

(* A step of one create keeps the promise if it makes no other task costly *)
(* and the create stands for its own one as long as that is costly.        *)
LEMMA BearerKept ==
    ASSUME OneGenerationPaid, NEW r \in Requests,
           \A q \in Requests \ {r} : job'[q] = job[q] /\ outcome'[q] = outcome[q],
           \A t \in Tasks : t # job[r] /\ CostlyNext(t) => Costly(t),
           job[r] \in Tasks /\ CostlyNext(job[r])
             => job'[r] = job[r] /\ outcome'[r] \in Bearing
    PROVE  OneGenerationPaid'
<1>1. ASSUME NEW t \in Tasks, CostlyNext(t)
      PROVE  \E q \in Requests : job'[q] = t /\ outcome'[q] \in Bearing
  <2>1. CASE t = job[r]
    BY <1>1, <2>1
  <2>2. CASE t # job[r]
    <3>1. Costly(t)
      BY <1>1, <2>2
    <3>2. PICK q \in Requests : job[q] = t /\ outcome[q] \in Bearing
      BY <3>1 DEF OneGenerationPaid, Costly, CostlyNext, Bearing
    <3> QED  BY <2>2, <3>2
  <2> QED  BY <2>1, <2>2
<1> QED  BY <1>1 DEF OneGenerationPaid, Costly, CostlyNext, Bearing

(* The end of an attempt leaves its task without cost: the hold it may     *)
(* have had is released, and nobody observed it.                           *)
LEMMA AttemptUnpaid ==
    ASSUME UniqueTasks, Inv, OneGenerationPaid, NEW r \in Requests,
           pc[r] \in {"routing", "creating", "syncing"},
           NEW hs, NEW cands, NextAttempt(hs, r, cands),
           \/ byTask' = IndexReleased(hold[r]) /\ job' = [job EXCEPT ![r] = NoTask]
           \/ pc[r] = "routing" /\ byTask' = byTask /\ job' = job,
           UNCHANGED <<entry, charged>>
    PROVE  OneGenerationPaid'
<1>1. /\ job \in [Requests -> Tasks \cup {NoTask}]
      /\ outcome \in [Requests -> Outcomes]
  BY DEF Inv, GenerationInv, GenerationTypeOK
<1>2. \A q \in Requests \ {r} : job'[q] = job[q] /\ outcome'[q] = outcome[q]
  BY <1>1 DEF NextAttempt, Answer
<1>3. /\ \A t \in Tasks : IndexReleased(hold[r])[t] \in {0, byTask[t]}
      /\ \A t \in Tasks : byTask[t] = hold[r] => IndexReleased(hold[r])[t] = 0
  BY IndexReleasedFacts DEF Inv, GenerationInv
<1>4. \A t \in Tasks : CostlyNext(t) => Costly(t)
  BY <1>3 DEF Costly, CostlyNext
<1>5. CASE job[r] = NoTask
  BY <1>2, <1>4, <1>5, NoneAssumption, BearerKept
<1>6. CASE job[r] # NoTask
  <2>1. pc[r] \in {"creating", "syncing"}
    BY <1>6 DEF Inv, GenerationInv, AttemptsSound
  <2>2. /\ job[r] \in Tasks /\ entry[job[r]] = "none" /\ charged[job[r]] = 0
        /\ byTask[job[r]] = 0 \/ byTask[job[r]] = hold[r]
    BY <1>6, <2>1, JobFacts
  <2>3. ~CostlyNext(job[r])
    <3>1. byTask' = IndexReleased(hold[r])
      BY <2>1
    <3> QED  BY <1>3, <2>2, <3>1 DEF Costly, CostlyNext
  <2> QED  BY <1>2, <1>4, <2>3, BearerKept
<1> QED  BY <1>5, <1>6

(* Every step of a create keeps the promise.                               *)
LEMMA RequestPaid ==
    ASSUME UniqueTasks, Inv, OneGenerationPaid, NEW r \in Requests, Progress(r)
    PROVE  OneGenerationPaid'
<1>1. /\ job \in [Requests -> Tasks \cup {NoTask}]
      /\ outcome \in [Requests -> Outcomes]
      /\ entry \in [Tasks -> {"none"} \cup Statuses] /\ charged \in [Tasks -> Nat]
      /\ byTask \in [Tasks -> 0 .. MaxHolds]
      /\ pc[r] \in {"queued", "routing"} => job[r] = NoTask
      /\ pc[r] # "answered" => outcome[r] = "none"
  BY DEF Inv, GenerationInv, GenerationTypeOK, AttemptsSound, AnswersSound, LedgerInv, LedgerTypeOK
<1>2. CASE Replay(r) \/ Plan(r)
  <2>1. pc[r] = "queued" /\ UNCHANGED <<job, entry, byTask, charged>>
    BY <1>2 DEF Replay, Plan, taskVars, ledgerVars
  <2>2. \A q \in Requests \ {r} : outcome'[q] = outcome[q]
    BY <1>1, <1>2 DEF Replay, Plan, Answer
  <2>3. \A t \in Tasks : CostlyNext(t) => Costly(t)
    BY <2>1 DEF Costly, CostlyNext
  <2> QED  BY <1>1, <2>1, <2>2, <2>3, NoneAssumption, BearerKept
<1>3. CASE RouteResolved(r)
  <2>1. PICK chosen : NextAttempt(holds, r, chosen)
    BY <1>3 DEF RouteResolved
  <2>2. pc[r] = "routing" /\ UNCHANGED <<byTask, job, entry, charged>>
    BY <1>3 DEF RouteResolved, taskVars
  <2> QED  BY <2>1, <2>2, AttemptUnpaid
<1>4. CASE ProviderAccepts(r)
  <2>1. /\ job[r] = NoTask /\ UNCHANGED <<entry, byTask, charged, outcome>>
        /\ \E t \in Tasks : job' = [job EXCEPT ![r] = t]
    BY <1>4 DEF ProviderAccepts, ledgerVars
  <2>2. \A q \in Requests \ {r} : job'[q] = job[q] /\ outcome'[q] = outcome[q]
    BY <1>1, <2>1
  <2>3. \A t \in Tasks : CostlyNext(t) => Costly(t)
    BY <2>1 DEF Costly, CostlyNext
  <2> QED  BY <2>1, <2>2, <2>3, NoneAssumption, BearerKept
<1>5. CASE CreateFails(r) \/ SyncPollFails(r)
  <2>1. PICK retryable \in BOOLEAN : AttemptFails(r, retryable)
    BY <1>5 DEF CreateFails, SyncPollFails
  <2>2. pc[r] \in {"creating", "syncing"} /\ UNCHANGED <<entry, charged>>
    BY <1>5 DEF CreateFails, SyncPollFails, taskVars
  <2> QED  BY <2>1, <2>2, AttemptUnpaid DEF AttemptFails
<1>6. ASSUME AttemptFails(r, TRUE), pc[r] \in {"creating", "syncing"},
             UNCHANGED <<entry, charged>>
      PROVE  OneGenerationPaid'
  BY <1>6, AttemptUnpaid DEF AttemptFails
<1>7. ASSUME pc[r] \in {"creating", "syncing"}, NEW status, NEW c,
             StartMonitor(r, job[r], status, c)
      PROVE  OneGenerationPaid'
  <2>1. UNCHANGED <<job, outcome>> /\ outcome[r] = "none"
    BY <1>1, <1>7 DEF StartMonitor
  <2>2. ASSUME NEW t \in Tasks, t # job[r] PROVE CostlyNext(t) => Costly(t)
    BY <1>1, <1>7, <2>2 DEF StartMonitor, SettleTask, Costly, CostlyNext
  <2> QED  BY <2>1, <2>2, BearerKept DEF Bearing
<1>8. CASE CreateAnswered(r)
  <2>1. CASE r \in SyncWait
    <3>1. /\ UNCHANGED <<job, outcome, entry, charged>> /\ outcome[r] = "none"
          /\ byTask' = byTask \/ byTask' = [byTask EXCEPT ![job[r]] = hold[r]]
      BY <1>1, <1>8, <2>1 DEF CreateAnswered, Bind
    <3>2. \A t \in Tasks : t # job[r] /\ CostlyNext(t) => Costly(t)
      BY <1>1, <3>1 DEF Costly, CostlyNext
    <3> QED  BY <3>1, <3>2, BearerKept DEF Bearing
  <2>2. CASE r \notin SyncWait
    BY <1>6, <1>7, <1>8, <2>2 DEF CreateAnswered
  <2> QED  BY <2>1, <2>2
<1>9. CASE SyncDone(r)
  BY <1>6, <1>7, <1>9 DEF SyncDone
<1>10. CASE Created(r)
  <2>1. UNCHANGED <<job, entry, byTask, charged>> /\ outcome' = [outcome EXCEPT ![r] = "created"]
    BY <1>10 DEF Created, Answer, taskVars, ledgerVars
  <2>2. \A t \in Tasks : CostlyNext(t) => Costly(t)
    BY <2>1 DEF Costly, CostlyNext
  <2> QED  BY <1>1, <2>1, <2>2, BearerKept DEF Bearing
<1> QED  BY <1>2, <1>3, <1>4, <1>5, <1>8, <1>9, <1>10 DEF Progress

(* A create is paid for once and observed once: timeouts after a provider  *)
(* took the call, failed sync waits, fallbacks, cancellations and shutdown *)
(* (execute_plan, _await_or_timeout, _start_monitor) leave no reservation, *)
(* no monitor and no charge with a task other than the one the create ends *)
(* with, and none at all with a create that fails.                         *)
THEOREM OneGenerationIsPaid ==
    ASSUME UniqueTasks
    PROVE  Spec => []OneGenerationPaid
<1>1. Init => Inv /\ OneGenerationPaid
  BY GenerationInit DEF Init, LedgerInit, OneGenerationPaid
<1>2. Inv /\ [Next]_vars => Inv'
  BY GenerationNext
<1>3. ASSUME Inv, OneGenerationPaid, [Next]_vars PROVE OneGenerationPaid'
  <2>1. /\ job \in [Requests -> Tasks \cup {NoTask}]
        /\ outcome \in [Requests -> Outcomes]
        /\ entry \in [Tasks -> {"none"} \cup Statuses] /\ charged \in [Tasks -> Nat]
        /\ byTask \in [Tasks -> 0 .. MaxHolds]
    BY <1>3 DEF Inv, GenerationInv, GenerationTypeOK, LedgerInv, LedgerTypeOK
  <2>2. CASE UNCHANGED <<job, outcome, entry, byTask, charged>>
    BY <1>3, <2>2 DEF OneGenerationPaid
  <2>3. ASSUME NEW r \in Requests, Arrive(r) PROVE OneGenerationPaid'
    BY <2>2, <2>3 DEF Arrive, taskVars, ledgerVars
  <2>4. ASSUME NEW r \in Requests, Progress(r) PROVE OneGenerationPaid'
    BY <1>3, <2>4, RequestPaid
  <2>5. ASSUME NEW r \in Requests, Cancel(r) PROVE OneGenerationPaid'
    <3>1. UNCHANGED <<job, entry, byTask, charged>> /\ outcome' = [outcome EXCEPT ![r] = "cancelled"]
      BY <2>5 DEF Cancel, Answer, taskVars, ledgerVars
    <3>2. \A t \in Tasks : CostlyNext(t) => Costly(t)
      BY <3>1 DEF Costly, CostlyNext
    <3> QED  BY <1>3, <2>1, <3>1, <3>2, BearerKept DEF Bearing
  <2>6. ASSUME NEW t \in Tasks, Poll(t) PROVE OneGenerationPaid'
    <3>1. UNCHANGED <<job, outcome>>
      BY <2>6 DEF Poll, PollRunning, PollTerminal, PollError, Finish, requestVars
    <3>2. ASSUME NEW u \in Tasks PROVE CostlyNext(u) => Costly(u)
      BY <2>1, <2>6 DEF Poll, PollRunning, PollTerminal, PollError, Finish, Polling,
                        SettleTask, Costly, CostlyNext, ledgerVars
    <3> QED  BY <1>3, <3>1, <3>2 DEF OneGenerationPaid, Costly, CostlyNext
  <2>7. CASE Close \/ UNCHANGED vars
    BY <2>2, <2>7 DEF Close, vars, requestVars, taskVars, ledgerVars
  <2> QED  BY <1>3, <2>3, <2>4, <2>5, <2>6, <2>7 DEF Next
<1> QED  BY <1>1, <1>2, <1>3, PTL DEF Spec

(* However many creates share an Idempotency-Key, wait for its guard, fail *)
(* and are retried (idempotency_guard, find_idempotent_record), at most    *)
(* one generation is accepted under it.                                    *)
THEOREM OneGenerationPerKey ==
    ASSUME UniqueTasks, SyncWait = {}, ~MayClose, MayCancel = {}
    PROVE  Spec => []NoSecondGeneration
<1>1. Init => Inv
  BY GenerationInit
<1>2. Inv /\ [Next]_vars => Inv'
  BY GenerationNext
<1>3. Inv => NoSecondGeneration
  <2>1. ASSUME Inv, NEW t \in Tasks, NEW u \in Tasks,
               bound[t] # NoRequest, bound[u] # NoRequest,
               IdemScope[bound[t]] # NoIdem,
               IdemScope[bound[t]] = IdemScope[bound[u]]
        PROVE  t = u
    <3> DEFINE r == bound[t]
               q == bound[u]
    <3>1. ~closed
      BY <2>1 DEF Inv, GenerationInv, TasksSound
    <3>2. r \in Requests /\ job[r] = t /\ (pc[r] = "leaving" \/ RecordOf(r).task = t)
      BY <2>1, <3>1, AcceptedIsLast
    <3>3. q \in Requests /\ job[q] = u /\ (pc[q] = "leaving" \/ RecordOf(q).task = u)
      BY <2>1, <3>1, AcceptedIsLast
    <3>4. IdemScope[r] # NoIdem /\ IdemScope[q] = IdemScope[r]
      BY <2>1
    <3> HIDE DEF r, q
    <3>5. RecordOf(r) = RecordOf(q)
      BY <3>4 DEF RecordOf
    <3>6. /\ pc[r] = "leaving" => Owns(r) /\ RecordOf(r) = NoRecord
          /\ pc[q] = "leaving" => Owns(q) /\ RecordOf(q) = NoRecord
      BY <2>1, <3>2, <3>3 DEF Inv, GenerationInv, GuardSound, PastGuard
    <3>7. NoRecord.task # t /\ NoRecord.task # u
      BY NoneAssumption DEF NoRecord
    <3>8. CASE pc[r] = "leaving" /\ pc[q] = "leaving"
      <4>1. q = r
        BY <3>2, <3>3, <3>4, <3>6, <3>8, OneOwner
      <4> QED  BY <4>1, <3>2, <3>3
    <3>9. CASE ~(pc[r] = "leaving" /\ pc[q] = "leaving")
      BY <3>2, <3>3, <3>5, <3>6, <3>7, <3>9
    <3> QED  BY <3>8, <3>9
  <2> QED  BY <2>1 DEF NoSecondGeneration
<1> QED  BY <1>1, <1>2, <1>3, PTL DEF Spec

-----------------------------------------------------------------------------
(* The creates implement the abstract ones of IdempotentCreate.            *)

(* A handler's answer is one of the abstract ends of a create.             *)
LEMMA AnswerEnds ==
    ASSUME Inv, NEW r \in Requests, pc[r] # "answered", NEW how, NEW t,
           Answer(r, how, t)
    PROVE  Idempotent!Ends(r, how, t)
BY DEF Answer, Idempotent!Ends, Inv, GenerationInv, AnswersSound

(* A step that answers nobody stutters in the abstract specification.      *)
LEMMA AttemptEnds ==
    ASSUME Inv, NEW r \in Requests, PastGuard(r), NEW hs, NEW cands,
           NextAttempt(hs, r, cands), records' = records
    PROVE  Idempotent!GiveUp(r) \/ UNCHANGED <<outcome, answer, records>>
<1>1. RecordOf(r) = NoRecord /\ pc[r] # "answered"
  BY DEF Inv, GenerationInv, GuardSound, PastGuard
<1>2. CASE Answer(r, "failed", NoTask)
  <2>1. Idempotent!Ends(r, "failed", NoTask)
    BY <1>1, <1>2, AnswerEnds
  <2> QED  BY <1>1, <2>1
           DEF Idempotent!GiveUp, Idempotent!Record, Idempotent!NoRecord,
               RecordOf, NoRecord
<1>3. CASE UNCHANGED <<outcome, answer, guard>>
  BY <1>3
<1> QED  BY <1>2, <1>3 DEF NextAttempt

(* Every step of a create is an abstract one or leaves it alone.           *)
LEMMA RequestEnds ==
    ASSUME Inv, NEW r \in Requests, Progress(r)
    PROVE  Idempotent!Next \/ UNCHANGED <<outcome, answer, records>>
<1> USE DEF Inv, GenerationInv
<1>1. CASE Replay(r)
  <2>1. RecordOf(r) # NoRecord /\ pc[r] # "answered" /\ records' = records
    BY <1>1 DEF Replay
  <2>2. CASE RecordOf(r).body = Body[r]
    <3>1. Idempotent!Ends(r, "replayed", RecordOf(r).task)
      BY <1>1, <2>1, <2>2, AnswerEnds DEF Replay
    <3>2. Idempotent!Replay(r)
      BY <2>1, <2>2, <3>1
      DEF Idempotent!Replay, Idempotent!Record, Idempotent!NoRecord, RecordOf, NoRecord
    <3> QED  BY <3>2 DEF Idempotent!Next
  <2>3. CASE RecordOf(r).body # Body[r]
    <3>1. Idempotent!Ends(r, "conflict", NoTask)
      BY <1>1, <2>1, <2>3, AnswerEnds DEF Replay
    <3>2. Idempotent!Conflict(r)
      BY <2>1, <2>3, <3>1
      DEF Idempotent!Conflict, Idempotent!Record, Idempotent!NoRecord, RecordOf, NoRecord
    <3> QED  BY <3>2 DEF Idempotent!Next
  <2> QED  BY <2>2, <2>3
<1>2. CASE Plan(r)
  <2>1. RecordOf(r) = NoRecord /\ pc[r] # "answered" /\ records' = records
    BY <1>2 DEF Plan
  <2>2. CASE Answer(r, "failed", NoTask)
    <3>1. Idempotent!Ends(r, "failed", NoTask)
      BY <2>1, <2>2, AnswerEnds
    <3>2. Idempotent!GiveUp(r)
      BY <2>1, <3>1
      DEF Idempotent!GiveUp, Idempotent!Record, Idempotent!NoRecord, RecordOf, NoRecord
    <3> QED  BY <3>2 DEF Idempotent!Next
  <2> QED  BY <1>2, <2>1, <2>2 DEF Plan
<1>3. CASE RouteResolved(r)
  <2>1. PastGuard(r) /\ records' = records
    BY <1>3 DEF RouteResolved, PastGuard
  <2> QED  BY <1>3, <2>1, AttemptEnds DEF RouteResolved, Idempotent!Next
<1>4. CASE ProviderAccepts(r)
  BY <1>4 DEF ProviderAccepts, storeVars
<1>5. CASE CreateAnswered(r) \/ SyncDone(r)
  <2>1. PastGuard(r) /\ records' = records
    BY <1>5 DEF CreateAnswered, SyncDone, PastGuard
  <2>2. \/ UNCHANGED <<outcome, answer>>
        \/ AttemptFails(r, TRUE)
    BY <1>5 DEF CreateAnswered, SyncDone, StartMonitor
  <2> QED  BY <2>1, <2>2, AttemptEnds DEF AttemptFails, Idempotent!Next
<1>6. CASE CreateFails(r) \/ SyncPollFails(r)
  <2>1. PastGuard(r) /\ records' = records
        /\ \E retryable \in BOOLEAN : AttemptFails(r, retryable)
    BY <1>6 DEF CreateFails, SyncPollFails, PastGuard
  <2> QED  BY <2>1, AttemptEnds DEF AttemptFails, Idempotent!Next
<1>7. CASE Created(r)
  <2>1. /\ pc[r] = "leaving" /\ Answer(r, "created", job[r])
        /\ records' = IF IdemScope[r] = NoIdem THEN records
                      ELSE [records EXCEPT ![IdemScope[r]] =
                               [task |-> job[r], body |-> Body[r]]]
    BY <1>7 DEF Created
  <2>2. Idempotent!Ends(r, "created", job[r])
    BY <2>1, AnswerEnds
  <2>3. RecordOf(r) = NoRecord
    BY <2>1 DEF GuardSound, PastGuard
  <2>4. job[r] \in Tasks /\ outcome[r] = "none"
    BY <2>1 DEF GenerationTypeOK, AttemptsSound, AnswersSound
  <2>5. ASSUME NEW q \in Requests, answer[q] = job[r]
        PROVE  FALSE
    <3>1. answer[q] # NoTask
      BY <2>4, <2>5, NoneAssumption
    <3>2. PICK p \in Requests : outcome[p] = "created" /\ job[p] = answer[q]
      BY <3>1 DEF AnswersSound
    <3>3. p = r
      BY <2>5, <3>1, <3>2 DEF TasksSound
    <3> QED  BY <2>4, <3>2, <3>3
  <2>6. records = [s \in IdemScopes |-> records[s]]
        /\ IdemScope[r] \in IdemScopes \cup {NoIdem} /\ NoIdem \notin IdemScopes
    BY RequestAssumption DEF GenerationTypeOK
  <2>7. records' = [s \in IdemScopes |-> IF s = IdemScope[r]
                                         THEN [task |-> job[r], body |-> Body[r]]
                                         ELSE records[s]]
    BY <2>1, <2>6
  <2>8. Idempotent!Create(r)
    BY <2>2, <2>3, <2>4, <2>5, <2>7
    DEF Idempotent!Create, Idempotent!Record, Idempotent!NoRecord, RecordOf, NoRecord
  <2> QED  BY <2>8 DEF Idempotent!Next
<1> QED  BY <1>1, <1>2, <1>3, <1>4, <1>5, <1>6, <1>7 DEF Progress

(* The creates of services.py behind their guards implement the abstract   *)
(* creates: at most one task on record per key, made by one create, and    *)
(* every replay answers with it.                                           *)
THEOREM CreatesAreIdempotent ==
    ASSUME UniqueTasks
    PROVE  Spec => IdempotentCreates
<1>1. Init => Inv
  BY GenerationInit
<1>2. Inv /\ [Next]_vars => Inv'
  BY GenerationNext
<1>3. Init => Idempotent!Init
  BY DEF Init, Idempotent!Init, NoRecord, Idempotent!NoRecord
<1>4. Inv /\ [Next]_vars => [Idempotent!Next]_<<outcome, answer, records>>
  <2> SUFFICES ASSUME Inv, [Next]_vars
               PROVE  Idempotent!Next \/ UNCHANGED <<outcome, answer, records>>
    OBVIOUS
  <2>1. ASSUME NEW r \in Requests, Arrive(r)
        PROVE  UNCHANGED <<outcome, answer, records>>
    BY <2>1 DEF Arrive
  <2>2. ASSUME NEW r \in Requests, Cancel(r)
        PROVE  Idempotent!Next
    <3>1. pc[r] # "answered" /\ Answer(r, "cancelled", NoTask) /\ records' = records
      BY <2>2 DEF Cancel
    <3>2. Idempotent!GiveUp(r)
      BY <3>1, AnswerEnds DEF Idempotent!GiveUp
    <3> QED  BY <3>2 DEF Idempotent!Next
  <2>3. ASSUME NEW t \in Tasks, Poll(t)
        PROVE  UNCHANGED <<outcome, answer, records>>
    BY <2>3 DEF Poll, PollRunning, PollTerminal, PollError, Finish,
                requestVars, storeVars
  <2>4. CASE Close
    BY <2>4 DEF Close, requestVars, storeVars
  <2>5. CASE UNCHANGED vars
    BY <2>5 DEF vars, requestVars, storeVars
  <2> QED  BY <2>1, <2>2, <2>3, <2>4, <2>5, RequestEnds DEF Next
<1> QED  BY <1>1, <1>2, <1>3, <1>4, PTL DEF Spec, IdempotentCreates, Idempotent!Spec

=============================================================================
