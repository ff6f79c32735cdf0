---------------------------- MODULE Routing_proofs ----------------------------
(***************************************************************************)
(* Theorems about Routing, for any deployment, key, catalogue, request and *)
(* routing policy.                                                         *)
(***************************************************************************)
EXTENDS Routing, SequenceTheorems, FiniteSetTheorems, WellFoundedInduction, TLAPS

---------------------------------------------------------------------------
(* Ordering a finite set *)

StrictOrder(R, S) ==
    /\ \A x \in S : <<x, x>> \notin R
    /\ \A x, y, z \in S : <<x, y>> \in R /\ <<y, z>> \in R => <<x, z>> \in R
    /\ \A x, y \in S : x # y => <<x, y>> \in R \/ <<y, x>> \in R

\* The members of the set that come before one of them, and how many.
Ahead(x, S, R) == {y \in S : <<y, x>> \in R}
Before(x, S, R) == Cardinality(Ahead(x, S, R))

(* A set of numbers that is not empty has a least one.                     *)
LEMMA LeastNumber ==
    ASSUME NEW T, T \subseteq Nat, T # {}
    PROVE  \E n \in T : \A m \in T : n <= m
<1> DEFINE R == {p \in Nat \X Nat : p[1] < p[2]}
<1>1. IsWellFoundedOn(R, Nat)
  BY NatLessThanWellFounded DEF OpToRel
<1>2. \A n, m \in Nat : n < m => <<n, m>> \in R
  OBVIOUS
<1> HIDE DEF R
<1>3. PICK n \in T : \A m \in T : ~ (<<m, n>> \in R)
  BY <1>1, WFMin
<1>4. ASSUME NEW m \in T  PROVE n <= m
  <2>1. ~ (m < n) /\ n \in Nat /\ m \in Nat
    BY <1>2, <1>3
  <2> QED  BY <2>1
<1> QED  BY <1>4

(* The image of a finite set under a function is finite.                   *)
LEMMA ImageFinite ==
    ASSUME NEW f, IsFiniteSet(DOMAIN f)
    PROVE  IsFiniteSet({f[x] : x \in DOMAIN f})
<1> DEFINE T == {f[x] : x \in DOMAIN f}
           g == [x \in DOMAIN f |-> f[x]]
<1>1. g \in Surjection(DOMAIN f, T)
  BY DEF Surjection
<1> QED  BY <1>1, FS_Surjection

(* Members of an ordered finite set have as many before them as their      *)
(* place says, and no two have as many.                                    *)
LEMMA BeforeProperties ==
    ASSUME NEW S, IsFiniteSet(S), NEW R, StrictOrder(R, S)
    PROVE  /\ Cardinality(S) \in Nat
           /\ \A x \in S : Before(x, S, R) \in 0 .. Cardinality(S) - 1
           /\ \A x, y \in S : <<x, y>> \in R => Before(x, S, R) < Before(y, S, R)
           /\ \A k \in 0 .. Cardinality(S) - 1 : \E x \in S : Before(x, S, R) = k
<1> DEFINE n == Cardinality(S)
<1>1. n \in Nat
  BY FS_CardinalityType
<1>2. ASSUME NEW x \in S
      PROVE  /\ IsFiniteSet(Ahead(x, S, R)) /\ Before(x, S, R) \in Nat
             /\ Before(x, S, R) < n /\ Before(x, S, R) \in 0 .. n - 1
  <2>1. Ahead(x, S, R) \in SUBSET (S \ {x})
    BY DEF StrictOrder, Ahead
  <2>2. IsFiniteSet(S \ {x}) /\ Cardinality(S \ {x}) = n - 1
    BY FS_RemoveElement
  <2> HIDE DEF n
  <2>3. IsFiniteSet(Ahead(x, S, R)) /\ Before(x, S, R) <= n - 1
    BY <2>1, <2>2, FS_Subset DEF Before
  <2>4. Before(x, S, R) \in Nat
    BY <2>3, FS_CardinalityType DEF Before
  <2> QED  BY <1>1, <2>3, <2>4
<1> HIDE DEF n
<1>3. ASSUME NEW x \in S, NEW y \in S, <<x, y>> \in R
      PROVE  Before(x, S, R) < Before(y, S, R)
  <2>1. x \notin Ahead(x, S, R) /\ IsFiniteSet(Ahead(x, S, R)) /\ IsFiniteSet(Ahead(y, S, R))
    BY <1>2 DEF StrictOrder, Ahead
  <2>2. Cardinality(Ahead(x, S, R) \cup {x}) = Before(x, S, R) + 1
    BY <2>1, FS_AddElement DEF Before
  <2>3. Ahead(x, S, R) \cup {x} \in SUBSET Ahead(y, S, R)
    BY <1>3 DEF StrictOrder, Ahead
  <2>4. Cardinality(Ahead(x, S, R) \cup {x}) <= Before(y, S, R)
    BY <2>1, <2>3, FS_Subset DEF Before
  <2>5. Before(x, S, R) \in Nat /\ Before(y, S, R) \in Nat
    BY <1>2
  <2> QED  BY <2>2, <2>4, <2>5
<1>4. ASSUME NEW k \in 0 .. n - 1
      PROVE  \E x \in S : Before(x, S, R) = k
  <2> DEFINE f == [x \in S |-> Before(x, S, R)]
  <2>1. f \in [S -> 0 .. n - 1]
    BY <1>2
  <2>2. \A x, y \in S : f[x] = f[y] => x = y
    <3> SUFFICES ASSUME NEW x \in S, NEW y \in S, x # y  PROVE f[x] # f[y]
      OBVIOUS
    <3>1. <<x, y>> \in R \/ <<y, x>> \in R
      BY DEF StrictOrder
    <3>2. Before(x, S, R) < Before(y, S, R) \/ Before(y, S, R) < Before(x, S, R)
      BY <1>3, <3>1
    <3>3. Before(x, S, R) \in Nat /\ Before(y, S, R) \in Nat
      BY <1>2
    <3> QED  BY <3>2, <3>3
  <2> HIDE DEF f
  <2>3. f \in Injection(S, 0 .. n - 1)
    BY <2>1, <2>2 DEF Injection, IsInjective
  <2>4. IsFiniteSet(0 .. n - 1) /\ Cardinality(0 .. n - 1) = n
    <3>1. IsFiniteSet(0 .. n - 1) /\ Cardinality(0 .. n - 1) = IF 0 > n - 1 THEN 0 ELSE (n - 1) - 0 + 1
      <4>1. n - 1 \in Int /\ 0 \in Int
        BY <1>1
      <4> HIDE DEF n
      <4> QED  BY <4>1, FS_Interval
    <3> QED  BY <1>1, <3>1
  <2>5. f \in Surjection(S, 0 .. n - 1)
    BY <2>3, <2>4, FS_Injection DEF n
  <2>6. PICK x \in S : f[x] = k
    BY <2>5 DEF Surjection
  <2> QED  BY <2>6 DEF f
<1> QED  BY <1>1, <1>2, <1>3, <1>4 DEF n

(* InOrder lists every member once, each before those that come after it.  *)
LEMMA InOrderProperties ==
    ASSUME NEW S, IsFiniteSet(S), NEW R, StrictOrder(R, S)
    PROVE  /\ Cardinality(S) \in Nat
           /\ InOrder(S, R) \in Seq(S) /\ Len(InOrder(S, R)) = Cardinality(S)
           /\ DOMAIN InOrder(S, R) = 1 .. Cardinality(S)
           /\ \A x \in S : \E k \in 1 .. Cardinality(S) : InOrder(S, R)[k] = x
           /\ \A k \in 1 .. Cardinality(S) : InOrder(S, R)[k] \in S
           /\ \A i, j \in 1 .. Cardinality(S) :
                 i < j <=> <<InOrder(S, R)[i], InOrder(S, R)[j]>> \in R
           /\ \A i, j \in 1 .. Cardinality(S) :
                 InOrder(S, R)[i] = InOrder(S, R)[j] => i = j
<1> DEFINE n == Cardinality(S)
           s == InOrder(S, R)
<1>1. n \in Nat
  BY FS_CardinalityType
<1>2. ASSUME NEW k \in 1 .. n
      PROVE  s[k] \in S /\ Before(s[k], S, R) = k - 1
  <2>1. \E x \in S : Before(x, S, R) = k - 1
    <3>1. k - 1 \in 0 .. n - 1
      BY <1>1
    <3> QED  BY <3>1, BeforeProperties
  <2>2. s[k] = CHOOSE x \in S : Before(x, S, R) = k - 1
    BY DEF InOrder, Before, Ahead
  <2> HIDE DEF s
  <2> QED  BY <2>1, <2>2
<1>3. DOMAIN s = 1 .. n
  BY DEF InOrder
<1>4. ASSUME NEW k \in 1 .. n  PROVE s[k] \in S
  BY <1>2
<1>5. s \in [1 .. n -> S]
  BY <1>4 DEF InOrder
<1> HIDE DEF s
<1>6. s \in Seq(S) /\ Len(s) = n
  BY <1>1, <1>5, SeqDef, LenProperties
<1>7. ASSUME NEW x \in S
      PROVE  \E k \in 1 .. n : s[k] = x
  <2> DEFINE k == Before(x, S, R) + 1
  <2>1. Before(x, S, R) \in 0 .. n - 1
    BY BeforeProperties
  <2>2. k \in 1 .. n /\ k - 1 = Before(x, S, R)
    BY <1>1, <2>1
  <2> HIDE DEF k
  <2>3. s[k] \in S /\ Before(s[k], S, R) = Before(x, S, R)
    BY <1>2, <2>2
  <2>4. s[k] = x
    <3> SUFFICES ASSUME s[k] # x  PROVE FALSE
      OBVIOUS
    <3>1. <<s[k], x>> \in R \/ <<x, s[k]>> \in R
      BY <2>3 DEF StrictOrder
    <3>2. Before(s[k], S, R) < Before(x, S, R) \/ Before(x, S, R) < Before(s[k], S, R)
      BY <2>3, <3>1, BeforeProperties
    <3> QED  BY <2>1, <2>3, <3>2
  <2> QED  BY <2>2, <2>4
<1>8. ASSUME NEW i \in 1 .. n, NEW j \in 1 .. n
      PROVE  /\ i < j <=> <<s[i], s[j]>> \in R
             /\ s[i] = s[j] => i = j
  <2>1. s[i] \in S /\ s[j] \in S /\ Before(s[i], S, R) = i - 1 /\ Before(s[j], S, R) = j - 1
    BY <1>2
  <2>2. s[i] = s[j] => i = j
    BY <1>1, <2>1
  <2>3. <<s[i], s[j]>> \in R => i < j
    <3>1. <<s[i], s[j]>> \in R => i - 1 < j - 1
      BY <2>1, BeforeProperties
    <3> QED  BY <1>1, <3>1
  <2>4. i < j => <<s[i], s[j]>> \in R
    <3> SUFFICES ASSUME i < j, <<s[i], s[j]>> \notin R  PROVE FALSE
      OBVIOUS
    <3>1. s[i] # s[j]
      <4>1. i - 1 # j - 1
        BY <1>1
      <4> QED  BY <2>1, <4>1
    <3>2. <<s[j], s[i]>> \in R
      BY <2>1, <3>1 DEF StrictOrder
    <3>3. j - 1 < i - 1
      BY <2>1, <3>2, BeforeProperties
    <3> QED  BY <1>1, <3>3
  <2> QED  BY <2>2, <2>3, <2>4
<1> QED  BY <1>1, <1>2, <1>3, <1>6, <1>7, <1>8 DEF s

---------------------------------------------------------------------------
(* Filtering a sequence *)

\* The places of the members kept, and the place each of them had.
Places(s, set) == {i \in DOMAIN s : s[i] \in set}
Increasing(T) == {p \in T \X T : p[1] < p[2]}
From(s, set) == InOrder(Places(s, set), Increasing(Places(s, set)))

(* Numbers are in a strict order, and so are the places of a sequence.     *)
LEMMA PlacesOrdered ==
    ASSUME NEW S, NEW s \in Seq(S), NEW set
    PROVE  /\ IsFiniteSet(Places(s, set)) /\ Places(s, set) \subseteq 1 .. Len(s)
           /\ StrictOrder(Increasing(Places(s, set)), Places(s, set))
<1>1. Len(s) \in Nat /\ DOMAIN s = 1 .. Len(s)
  BY LenProperties
<1>2. Places(s, set) \in SUBSET (1 .. Len(s)) /\ Places(s, set) \subseteq Int
  BY <1>1 DEF Places
<1>3. IsFiniteSet(1 .. Len(s))
  BY <1>1, FS_Interval
<1>4. IsFiniteSet(Places(s, set))
  BY <1>2, <1>3, FS_Subset
<1>5. ASSUME NEW T, T \subseteq Int  PROVE StrictOrder(Increasing(T), T)
  BY <1>5 DEF StrictOrder, Increasing
<1> QED  BY <1>2, <1>4, <1>5

(* Kept holds the members that are in the set, each once for every place   *)
(* it had, in the order of those places.                                   *)
LEMMA KeptProperties ==
    ASSUME NEW S, NEW s \in Seq(S), NEW set
    PROVE  /\ Kept(s, set) \in Seq(S) /\ Len(Kept(s, set)) \in Nat
           /\ DOMAIN Kept(s, set) = 1 .. Len(Kept(s, set))
           /\ \A k \in DOMAIN Kept(s, set) :
                 /\ From(s, set)[k] \in DOMAIN s /\ From(s, set)[k] \in Int
                 /\ Kept(s, set)[k] = s[From(s, set)[k]] /\ Kept(s, set)[k] \in set
           /\ \A k, l \in DOMAIN Kept(s, set) : k < l <=> From(s, set)[k] < From(s, set)[l]
           /\ Len(Kept(s, set)) = Cardinality(Places(s, set))
<1> DEFINE P == Places(s, set)
           R == Increasing(P)
           f == From(s, set)
           n == Cardinality(P)
<1>1. Len(s) \in Nat /\ DOMAIN s = 1 .. Len(s) /\ s \in [1 .. Len(s) -> S]
  BY LenProperties
<1>2. IsFiniteSet(P) /\ P \subseteq 1 .. Len(s) /\ StrictOrder(R, P)
  BY PlacesOrdered
<1>3. /\ n \in Nat /\ DOMAIN f = 1 .. n
      /\ \A k \in 1 .. n : f[k] \in P
      /\ \A x \in P : \E k \in 1 .. n : f[k] = x
      /\ \A i, j \in 1 .. n : i < j <=> <<f[i], f[j]>> \in R
  <2> HIDE DEF P, R
  <2>1. f = InOrder(P, R)
    BY DEF From, P, R
  <2> QED  BY <1>2, <2>1, InOrderProperties
<1>4. \A k \in 1 .. n : f[k] \in DOMAIN s /\ f[k] \in Int /\ s[f[k]] \in set /\ s[f[k]] \in S
  BY <1>1, <1>2, <1>3 DEF Places
<1>5. Kept(s, set) = [k \in 1 .. n |-> s[f[k]]]
  BY <1>3 DEF Kept, From, Places, Increasing
<1>6. \A i, j \in 1 .. n : i < j <=> f[i] < f[j]
  BY <1>3 DEF Increasing
<1> HIDE DEF f, n, P
<1>8. Kept(s, set) \in [1 .. n -> S]
  BY <1>4, <1>5
<1>9. Kept(s, set) \in Seq(S) /\ Len(Kept(s, set)) = n /\ DOMAIN Kept(s, set) = 1 .. n
  BY <1>3, <1>8, SeqDef, LenProperties
<1>10. \A k \in 1 .. n : Kept(s, set)[k] = s[f[k]]
  BY <1>5
<1> QED  BY <1>3, <1>4, <1>6, <1>9, <1>10 DEF f, P, n

(* What is kept of a sequence has all its members that are in the set.     *)
LEMMA KeptPlaces ==
    ASSUME NEW S, NEW s \in Seq(S), NEW set, NEW i \in DOMAIN s, s[i] \in set
    PROVE  \E k \in DOMAIN Kept(s, set) : From(s, set)[k] = i /\ Kept(s, set)[k] = s[i]
<1> DEFINE P == Places(s, set)
           R == Increasing(P)
<1>1. i \in P
  BY DEF Places
<1>2. IsFiniteSet(P) /\ StrictOrder(R, P)
  BY PlacesOrdered
<1>3. From(s, set) = InOrder(P, R)
  BY DEF From
<1> HIDE DEF P, R
<1>4. PICK k \in 1 .. Cardinality(P) : InOrder(P, R)[k] = i
  BY <1>1, <1>2, InOrderProperties
<1>5. DOMAIN InOrder(P, R) = 1 .. Cardinality(P)
  BY DEF InOrder
<1>6. Kept(s, set) = [l \in DOMAIN From(s, set) |-> s[From(s, set)[l]]]
  BY DEF Kept, From, Places, Increasing
<1>7. k \in DOMAIN Kept(s, set) /\ From(s, set)[k] = i
  BY <1>3, <1>4, <1>5, <1>6
<1>8. Kept(s, set)[k] = s[i]
  BY <1>6, <1>7
<1> QED  BY <1>7, <1>8

(* Its members, and how many: no more than the sequence has.               *)
LEMMA KeptMembers ==
    ASSUME NEW S, NEW s \in Seq(S), NEW set
    PROVE  /\ ToSet(Kept(s, set)) = ToSet(s) \cap set
           /\ Len(Kept(s, set)) <= Len(s)
           /\ (\A i, j \in DOMAIN s : s[i] = s[j] => i = j)
                => \A i, j \in DOMAIN Kept(s, set) : Kept(s, set)[i] = Kept(s, set)[j] => i = j
<1> DEFINE f == From(s, set)
           r == Kept(s, set)
<1> USE KeptProperties
<1>1. ToSet(r) \subseteq ToSet(s) \cap set
  BY DEF ToSet
<1>2. ToSet(s) \cap set \subseteq ToSet(r)
  <2> SUFFICES ASSUME NEW i \in DOMAIN s, s[i] \in set  PROVE s[i] \in ToSet(r)
    BY DEF ToSet
  <2> HIDE KeptProperties
  <2>1. PICK k \in DOMAIN r : f[k] = i /\ r[k] = s[i]
    BY KeptPlaces
  <2> QED  BY <2>1 DEF ToSet
<1>3. Len(r) <= Len(s)
  <2>1. Len(s) \in Nat /\ IsFiniteSet(1 .. Len(s)) /\ Cardinality(1 .. Len(s)) = Len(s)
    <3>1. Len(s) \in Nat
      BY LenProperties
    <3> DEFINE l == Len(s)
    <3> HIDE DEF l
    <3>2. l \in Nat => IsFiniteSet(1 .. l) /\ Cardinality(1 .. l) = l
      BY FS_Interval
    <3> QED  BY <3>1, <3>2 DEF l
  <2>2. Places(s, set) \in SUBSET (1 .. Len(s))
    BY PlacesOrdered
  <2> QED  BY <2>1, <2>2, FS_Subset
<1>4. ASSUME \A i, j \in DOMAIN s : s[i] = s[j] => i = j, NEW i \in DOMAIN r, NEW j \in DOMAIN r, r[i] = r[j]
      PROVE  i = j
  <2>1. f[i] = f[j]
    BY <1>4
  <2>2. ~ (i < j) /\ ~ (j < i) /\ i \in Int /\ j \in Int
    <3>1. f[i] \in Int
      OBVIOUS
    <3>2. ~ (f[i] < f[j]) /\ ~ (f[j] < f[i])
      BY <2>1, <3>1
    <3> QED  BY <3>2
  <2> QED  BY <2>2
<1> QED  BY <1>1, <1>2, <1>3, <1>4

(* The first place kept is the first, when its member is kept.             *)
LEMMA KeptFirst ==
    ASSUME NEW S, NEW s \in Seq(S), NEW set, 1 \in DOMAIN s, s[1] \in set
    PROVE  1 \in DOMAIN Kept(s, set) /\ Kept(s, set)[1] = s[1]
<1> DEFINE f == From(s, set)
           r == Kept(s, set)
<1> USE KeptProperties
<1>1. PICK k \in DOMAIN r : f[k] = 1
  <2> HIDE KeptProperties
  <2> QED  BY KeptPlaces
<1>2. k \in 1 .. Len(r) /\ Len(r) \in Nat
  OBVIOUS
<1>3. 1 \in DOMAIN r
  BY <1>2
<1>4. f[1] \in 1 .. Len(s)
  BY <1>3, LenProperties
<1>5. ~ (f[1] < f[k])
  BY <1>1, <1>4
<1>6. k = 1
  BY <1>2, <1>3, <1>5
<1> QED  BY <1>1, <1>3, <1>6

(* A sequence of which every member is kept is kept whole.                 *)
LEMMA KeptAll ==
    ASSUME NEW S, NEW s \in Seq(S), NEW set, ToSet(s) \subseteq set
    PROVE  Kept(s, set) = s
<1> DEFINE n == Len(s)
           P == 1 .. n
           R == Increasing(P)
<1>1. n \in Nat /\ DOMAIN s = P /\ s \in [P -> S]
  BY LenProperties
<1>2. Places(s, set) = P
  BY <1>1 DEF Places, ToSet
<1>3. IsFiniteSet(P) /\ Cardinality(P) = n /\ StrictOrder(R, P)
  <2>1. IsFiniteSet(P) /\ StrictOrder(R, P)
    BY <1>2, PlacesOrdered
  <2> HIDE DEF n
  <2>2. Cardinality(P) = n
    BY <1>1, FS_Interval
  <2> QED  BY <2>1, <2>2
<1>4. \A x \in P : Before(x, P, R) = x - 1
  <2> SUFFICES ASSUME NEW x \in P  PROVE Before(x, P, R) = x - 1
    OBVIOUS
  <2>1. Ahead(x, P, R) = 1 .. (x - 1)
    BY <1>1 DEF Ahead, Increasing
  <2>2. Cardinality(1 .. (x - 1)) = x - 1
    <3>1. x \in Int /\ x >= 1
      BY <1>1
    <3> HIDE DEF P
    <3>2. x - 1 \in Int
      BY <3>1
    <3>3. Cardinality(1 .. (x - 1)) = IF 1 > x - 1 THEN 0 ELSE (x - 1) - 1 + 1
      BY <3>2, FS_Interval
    <3> QED  BY <3>1, <3>3
  <2> QED  BY <2>1, <2>2 DEF Before
<1>5. \A k \in P : InOrder(P, R)[k] = k
  <2> SUFFICES ASSUME NEW k \in P  PROVE InOrder(P, R)[k] = k
    OBVIOUS
  <2>1. InOrder(P, R)[k] = CHOOSE x \in P : Before(x, P, R) = k - 1
    BY <1>3 DEF InOrder, Before, Ahead
  <2>2. \A x \in P : Before(x, P, R) = k - 1 => x = k
    <3> SUFFICES ASSUME NEW x \in P, x - 1 = k - 1  PROVE x = k
      BY <1>4
    <3> QED  BY <1>1
  <2>3. Before(k, P, R) = k - 1
    BY <1>4
  <2> HIDE DEF P, R
  <2> QED  BY <2>1, <2>2, <2>3
<1>6. DOMAIN InOrder(P, R) = P
  BY <1>3 DEF InOrder
<1>7. From(s, set) = InOrder(P, R)
  BY <1>2 DEF From
<1>8. Kept(s, set) = [k \in DOMAIN From(s, set) |-> s[From(s, set)[k]]]
  BY DEF Kept, From, Places, Increasing
<1> HIDE DEF P, R
<1> QED  BY <1>1, <1>5, <1>6, <1>7, <1>8
---------------------------------------------------------------------------
(* Ranks *)

\* Tuples of as many numbers, and what they rank.
Tuples(n) == [1 .. n -> Int]
Ranked(S, n) ==
    /\ IsFiniteSet(S) /\ n \in Nat
    /\ \A c \in S : c.rank \in Tuples(n)
    /\ \A c, d \in S : c.rank = d.rank => c = d
ByRank(S) == {p \in S \X S : Lex(p[1].rank, p[2].rank)}
Image(f) == {f[x] : x \in DOMAIN f}

(* The lexical order of tuples of one length is strict and total.          *)
LEMMA LexOrder ==
    ASSUME NEW n \in Nat
    PROVE  /\ \A k \in Tuples(n) : ~ Lex(k, k)
           /\ \A k, l, m \in Tuples(n) : Lex(k, l) /\ Lex(l, m) => Lex(k, m)
           /\ \A k, l \in Tuples(n) : k # l => Lex(k, l) \/ Lex(l, k)
<1>1. ASSUME NEW k \in Tuples(n)  PROVE ~ Lex(k, k)
  BY <1>1 DEF Tuples, Lex
<1>2. ASSUME NEW k \in Tuples(n), NEW l \in Tuples(n), NEW m \in Tuples(n), Lex(k, l), Lex(l, m)
      PROVE  Lex(k, m)
  <2>1. PICK i \in 1 .. n : k[i] < l[i] /\ \A h \in 1 .. (i - 1) : k[h] = l[h]
    BY <1>2 DEF Lex, Tuples
  <2>2. PICK j \in 1 .. n : l[j] < m[j] /\ \A h \in 1 .. (j - 1) : l[h] = m[h]
    BY <1>2 DEF Lex, Tuples
  <2>3. \A h \in 1 .. n : k[h] \in Int /\ l[h] \in Int /\ m[h] \in Int
    BY DEF Tuples
  <2>4. DOMAIN k = 1 .. n
    BY DEF Tuples
  <2>5. CASE i <= j
    <3>1. k[i] < m[i]
      <4>1. CASE i = j
        BY <2>1, <2>2, <2>3, <4>1
      <4>2. CASE i # j
        <5>1. i \in 1 .. (j - 1)
          BY <2>5, <4>2
        <5> QED  BY <2>1, <2>2, <5>1
      <4> QED  BY <4>1, <4>2
    <3>2. \A h \in 1 .. (i - 1) : k[h] = m[h]
      <4>1. \A h \in 1 .. (i - 1) : h \in 1 .. (j - 1)
        BY <2>5
      <4> QED  BY <2>1, <2>2, <4>1
    <3> QED  BY <2>4, <3>1, <3>2 DEF Lex
  <2>6. CASE ~ (i <= j)
    <3>1. j \in 1 .. (i - 1)
      BY <2>6
    <3>2. k[j] < m[j]
      BY <2>1, <2>2, <3>1
    <3>3. \A h \in 1 .. (j - 1) : k[h] = m[h]
      <4>1. \A h \in 1 .. (j - 1) : h \in 1 .. (i - 1)
        BY <2>6
      <4> QED  BY <2>1, <2>2, <4>1
    <3> QED  BY <2>4, <3>2, <3>3 DEF Lex
  <2> QED  BY <2>5, <2>6
<1>3. ASSUME NEW k \in Tuples(n), NEW l \in Tuples(n), k # l  PROVE Lex(k, l) \/ Lex(l, k)
  <2> DEFINE D == {i \in 1 .. n : k[i] # l[i]}
  <2>1. D # {} /\ D \subseteq Nat
    <3>1. k = [i \in 1 .. n |-> k[i]] /\ l = [i \in 1 .. n |-> l[i]]
      BY DEF Tuples
    <3>2. \E i \in 1 .. n : k[i] # l[i]
      BY <1>3, <3>1
    <3> QED  BY <3>2
  <2> HIDE DEF D
  <2>2. PICK i \in D : \A j \in D : i <= j
    BY <2>1, LeastNumber
  <2>3. i \in 1 .. n /\ k[i] # l[i]
    BY <2>2 DEF D
  <2>4. \A h \in 1 .. (i - 1) : k[h] = l[h] /\ l[h] = k[h]
    <3> SUFFICES ASSUME NEW h \in 1 .. (i - 1), k[h] # l[h]  PROVE FALSE
      OBVIOUS
    <3>1. h \in 1 .. n
      BY <2>3
    <3>2. h \in D
      BY <3>1 DEF D
    <3> QED  BY <2>2, <2>3, <3>2
  <2>5. k[i] < l[i] \/ l[i] < k[i]
    BY <2>3 DEF Tuples
  <2>6. DOMAIN k = 1 .. n /\ DOMAIN l = 1 .. n
    BY DEF Tuples
  <2> QED  BY <2>3, <2>4, <2>5, <2>6 DEF Lex
<1> QED  BY <1>1, <1>2, <1>3

(* Sorted lists what is ranked, each once, by rank.                        *)
LEMMA SortedProperties ==
    ASSUME NEW S, NEW n, Ranked(S, n)
    PROVE  /\ StrictOrder(ByRank(S), S)
           /\ Sorted(S) = InOrder(S, ByRank(S))
           /\ Sorted(S) \in Seq(S) /\ Len(Sorted(S)) \in Nat
           /\ DOMAIN Sorted(S) = 1 .. Len(Sorted(S))
           /\ ToSet(Sorted(S)) = S
           /\ \A i, j \in DOMAIN Sorted(S) : i < j <=> Lex(Sorted(S)[i].rank, Sorted(S)[j].rank)
           /\ \A i, j \in DOMAIN Sorted(S) : Sorted(S)[i] = Sorted(S)[j] => i = j
<1> DEFINE R == ByRank(S)
           s == Sorted(S)
<1>1. StrictOrder(R, S)
  <2>1. \A c \in S : ~ Lex(c.rank, c.rank)
    BY LexOrder DEF Ranked
  <2>2. ASSUME NEW c \in S, NEW d \in S, NEW e \in S, Lex(c.rank, d.rank), Lex(d.rank, e.rank)
        PROVE  Lex(c.rank, e.rank)
    <3>1. c.rank \in Tuples(n) /\ d.rank \in Tuples(n) /\ e.rank \in Tuples(n) /\ n \in Nat
      BY DEF Ranked
    <3> QED  BY <2>2, <3>1, LexOrder
  <2>3. ASSUME NEW c \in S, NEW d \in S, c # d
        PROVE  Lex(c.rank, d.rank) \/ Lex(d.rank, c.rank)
    <3>1. c.rank \in Tuples(n) /\ d.rank \in Tuples(n) /\ n \in Nat /\ c.rank # d.rank
      BY <2>3 DEF Ranked
    <3> QED  BY <3>1, LexOrder
  <2>4. \A c, d \in S : <<c, d>> \in R <=> Lex(c.rank, d.rank)
    BY DEF ByRank
  <2> HIDE DEF R
  <2> QED  BY <2>1, <2>2, <2>3, <2>4 DEF StrictOrder
<1>2. s = InOrder(S, R)
  BY DEF Sorted, ByRank
<1>3. IsFiniteSet(S)
  BY DEF Ranked
<1>4. \A c, d \in S : <<c, d>> \in R <=> Lex(c.rank, d.rank)
  BY DEF ByRank
<1> HIDE DEF R, s
<1>5. /\ Cardinality(S) \in Nat
      /\ s \in Seq(S) /\ Len(s) = Cardinality(S)
      /\ DOMAIN s = 1 .. Cardinality(S)
      /\ \A k \in 1 .. Cardinality(S) : s[k] \in S
      /\ \A i, j \in 1 .. Cardinality(S) : i < j <=> <<s[i], s[j]>> \in R
      /\ \A i, j \in 1 .. Cardinality(S) : s[i] = s[j] => i = j
  BY <1>1, <1>2, <1>3, InOrderProperties
<1>6. \A x \in S : \E k \in 1 .. Cardinality(S) : s[k] = x
  BY <1>1, <1>2, <1>3, InOrderProperties
<1>7. ToSet(s) = S
  BY <1>5, <1>6 DEF ToSet
<1>8. \A i, j \in DOMAIN s : i < j <=> Lex(s[i].rank, s[j].rank)
  BY <1>4, <1>5
<1> QED  BY <1>1, <1>2, <1>5, <1>7, <1>8 DEF R, s

(* A first rank that is not the least is not followed by a lower one.      *)
LEMMA LexHead ==
    ASSUME NEW n \in Nat, n # 0, NEW k \in Tuples(n), NEW l \in Tuples(n), Lex(k, l)
    PROVE  k[1] <= l[1]
<1>1. PICK i \in 1 .. n : k[i] < l[i] /\ \A h \in 1 .. (i - 1) : k[h] = l[h]
  BY DEF Lex, Tuples
<1>2. k[1] \in Int /\ l[1] \in Int
  BY DEF Tuples
<1>3. CASE i = 1
  BY <1>1, <1>2, <1>3
<1>4. CASE i # 1
  <2>1. 1 \in 1 .. (i - 1)
    BY <1>4
  <2> QED  BY <1>1, <1>2, <2>1
<1> QED  BY <1>3, <1>4

(* Two orders that agree under a one-to-one map list the members alike.    *)
LEMMA InOrderImage ==
    ASSUME NEW f, IsFiniteSet(DOMAIN f), \A x, y \in DOMAIN f : f[x] = f[y] => x = y,
           NEW Q, StrictOrder(Q, DOMAIN f),
           NEW R, \A x, y \in DOMAIN f : <<f[x], f[y]>> \in R <=> <<x, y>> \in Q
    PROVE  InOrder(Image(f), R) = [k \in DOMAIN InOrder(DOMAIN f, Q) |-> f[InOrder(DOMAIN f, Q)[k]]]
<1> DEFINE X == DOMAIN f
           Y == Image(f)
           n == Cardinality(X)
<1>1. IsFiniteSet(Y) /\ Cardinality(Y) = n
  <2> DEFINE g == [x \in X |-> f[x]]
  <2>1. g \in Bijection(X, Y)
    <3>1. g \in [X -> Y]
      BY DEF Image
    <3>2. \A y \in Y : \E x \in X : g[x] = y
      BY DEF Image
    <3> QED  BY <3>1, <3>2 DEF Bijection, Injection, Surjection, IsInjective
  <2> QED  BY <2>1, FS_Bijection DEF ExistsBijection
<1>2. StrictOrder(R, Y)
  BY DEF StrictOrder, Image
<1>3. ASSUME NEW x \in X  PROVE Before(f[x], Y, R) = Before(x, X, Q)
  <2> DEFINE A == Ahead(x, X, Q)
             B == Ahead(f[x], Y, R)
             g == [y \in A |-> f[y]]
  <2>1. g \in Bijection(A, B)
    <3>1. \A y \in A : y \in X /\ f[y] \in B
      BY DEF Ahead, Image
    <3>2. \A z \in B : \E y \in A : f[y] = z
      BY DEF Ahead, Image
    <3> HIDE DEF A, B
    <3> QED  BY <3>1, <3>2 DEF Bijection, Injection, Surjection, IsInjective
  <2>2. A \in SUBSET X
    BY DEF Ahead
  <2>3. IsFiniteSet(A)
    BY <2>2, FS_Subset
  <2> HIDE DEF A, B
  <2>4. Cardinality(B) = Cardinality(A)
    BY <2>1, <2>3, FS_Bijection DEF ExistsBijection
  <2> QED  BY <2>4 DEF Before, A, B
<1>4. n \in Nat
  BY FS_CardinalityType
<1>5. DOMAIN InOrder(Y, R) = 1 .. n /\ DOMAIN InOrder(X, Q) = 1 .. n
  BY <1>1 DEF InOrder
<1>6. ASSUME NEW k \in 1 .. n  PROVE InOrder(Y, R)[k] = f[InOrder(X, Q)[k]]
  <2> DEFINE x == InOrder(X, Q)[k]
             y == InOrder(Y, R)[k]
  <2>1. x \in X /\ Before(x, X, Q) = k - 1
    <3>1. x = CHOOSE z \in X : Before(z, X, Q) = k - 1
      BY DEF InOrder, Before, Ahead
    <3>2. k - 1 \in 0 .. n - 1
      BY <1>4
    <3>3. \E z \in X : Before(z, X, Q) = k - 1
      BY <3>2, BeforeProperties
    <3> HIDE DEF x
    <3> QED  BY <3>1, <3>3
  <2>2. y = CHOOSE z \in Y : Before(z, Y, R) = k - 1
    BY <1>1 DEF InOrder, Before, Ahead
  <2> HIDE DEF x, y
  <2>3. f[x] \in Y /\ Before(f[x], Y, R) = k - 1
    BY <1>3, <2>1 DEF Image
  <2> HIDE DEF Y
  <2>4. y \in Y /\ Before(y, Y, R) = k - 1
    BY <2>2, <2>3
  <2>5. PICK z \in X : f[z] = y
    BY <2>4 DEF Y, Image
  <2>6. z = x
    <3> SUFFICES ASSUME z # x  PROVE FALSE
      OBVIOUS
    <3>1. <<z, x>> \in Q \/ <<x, z>> \in Q
      BY <2>1 DEF StrictOrder
    <3>2. Before(z, X, Q) = k - 1
      BY <1>3, <2>4, <2>5
    <3>3. Before(z, X, Q) < Before(x, X, Q) \/ Before(x, X, Q) < Before(z, X, Q)
      BY <2>1, <3>1, BeforeProperties
    <3> QED  BY <2>1, <3>2, <3>3
  <2> QED  BY <2>5, <2>6 DEF x, y
<1>7. InOrder(Y, R) \in [1 .. n -> Y]
  <2> HIDE DEF Y
  <2> QED  BY <1>1, <1>2, InOrderProperties, LenProperties
<1> HIDE DEF X, Y, n
<1> QED  BY <1>5, <1>6, <1>7 DEF X, Y
---------------------------------------------------------------------------
(* What is configured and asked *)

\* The state a create starts from: what the configuration and the request are
\* among, and a store with an entry for every account that may be asked.
Asked ==
    /\ world \in Worlds /\ request \in Requests
    /\ request.model # "auto" => RealModel \in DOMAIN world.catalogue
Health == [score : Scores, latency : Latencies, cooling : BOOLEAN, tried : BOOLEAN]
Stored ==
    /\ store \in [DOMAIN store -> Health]
    /\ \A b \in ToSet(world.backends) : \A a \in ToSet(At(b).accounts) : \A m \in Reached(b) :
          Key(b, a, m) \in DOMAIN store
Distinct(s) == \A i, j \in DOMAIN s : s[i] = s[j] => i = j

(* A cap is an amount or none, and no policy tag is set by a named profile.*)
LEMMA PolicyType ==
    ASSUME request \in Requests
    PROVE  Policy.cap \in Nat \cup {NoCap}
<1>1. request.directive.cap \in Nat \cup {NoCap}
  BY RoutingAssumption DEF RoutingAssumption
<1>2. \A p \in DOMAIN Profiles : Profiles[p].cap \in Nat \cup {NoCap}
  BY RoutingAssumption DEF RoutingAssumption
<1>3. Policy.cap = IF request.directive.cap # NoCap THEN request.directive.cap
                   ELSE IF request.directive.profile \in DOMAIN Profiles
                             /\ Profiles[request.directive.profile].cap # NoCap
                        THEN Profiles[request.directive.profile].cap ELSE NoCap
  BY DEF Policy
<1> QED  BY <1>1, <1>2, <1>3

(* What a deployment is known to be.                                       *)
LEMMA WorldType ==
    ASSUME world \in Worlds
    PROVE  /\ world.backends \in Seq(DOMAIN world.at)
           /\ Distinct(world.backends)
           /\ \A b \in DOMAIN world.at : /\ At(b).accounts \in Seq(STRING) /\ At(b).accounts # <<>>
                                        /\ Models(b) \in Seq(STRING)
           /\ IsFiniteSet(DOMAIN world.catalogue) /\ Unset \notin DOMAIN world.catalogue
           /\ \A m \in DOMAIN world.catalogue : Limits(m).price \in Prices /\ Limits(m).hits \in Nat
           /\ world.plugins \in Seq({"open", "closed"})
  BY RoutingAssumption DEF RoutingAssumption, At, Limits, Models, Distinct

(* A place of a member of a sequence.                                      *)
LEMMA PositionProperties ==
    ASSUME NEW S, NEW s \in Seq(S), NEW x \in ToSet(s)
    PROVE  /\ Position(s, x) \in DOMAIN s /\ Position(s, x) \in Int
           /\ s[Position(s, x)] = x
<1>1. PICK i \in DOMAIN s : s[i] = x
  BY DEF ToSet
<1>2. Position(s, x) \in DOMAIN s /\ s[Position(s, x)] = x
  BY <1>1 DEF Position
<1>3. DOMAIN s = 1 .. Len(s) /\ Len(s) \in Nat
  BY LenProperties
<1> QED  BY <1>2, <1>3

(* The members of a sequence are finitely many and of its set.             *)
LEMMA ToSetProperties ==
    ASSUME NEW S, NEW s \in Seq(S)
    PROVE  /\ ToSet(s) \subseteq S /\ IsFiniteSet(ToSet(s))
           /\ s \in Seq(ToSet(s))
           /\ ToSet(s) = {} <=> s = <<>>
<1>1. Len(s) \in Nat /\ DOMAIN s = 1 .. Len(s) /\ s \in [1 .. Len(s) -> S]
  BY LenProperties
<1>2. ToSet(s) \subseteq S
  BY <1>1 DEF ToSet
<1>3. IsFiniteSet(DOMAIN s)
  BY <1>1, FS_Interval
<1>4. IsFiniteSet(ToSet(s))
  BY <1>3, ImageFinite DEF ToSet
<1>5. s \in [1 .. Len(s) -> ToSet(s)]
  BY <1>1 DEF ToSet
<1>6. s \in Seq(ToSet(s))
  BY <1>1, <1>5, SeqDef
<1>7. s # <<>> => ToSet(s) # {}
  <2> SUFFICES ASSUME s # <<>>  PROVE ToSet(s) # {}
    OBVIOUS
  <2>1. Len(s) \in Nat \ {0}
    BY EmptySeq
  <2>2. 1 \in DOMAIN s
    BY <1>1, <2>1
  <2> QED  BY <2>2 DEF ToSet
<1>8. s = <<>> => ToSet(s) = {}
  BY DEF ToSet
<1> QED  BY <1>2, <1>4, <1>6, <1>7, <1>8

(* The usable backends are listed in the configuration, once.              *)
LEMMA UsableType ==
    ASSUME world \in Worlds
    PROVE  /\ Usable \in Seq(DOMAIN world.at) /\ Distinct(Usable)
           /\ UsableForModality \in Seq(DOMAIN world.at) /\ Distinct(UsableForModality)
           /\ ToSet(Usable) \subseteq ToSet(world.backends)
           /\ ToSet(UsableForModality) \subseteq ToSet(Usable)
           /\ ToSet(world.backends) \subseteq DOMAIN world.at
<1>1. world.backends \in Seq(DOMAIN world.at) /\ Distinct(world.backends)
  BY WorldType
<1>2. PICK set : Usable = Kept(world.backends, set)
  BY DEF Usable
<1>3. Usable \in Seq(DOMAIN world.at) /\ Distinct(Usable) /\ ToSet(Usable) \subseteq ToSet(world.backends)
  BY <1>1, <1>2, KeptProperties, KeptMembers DEF Distinct
<1>4. PICK serving : UsableForModality = Kept(Usable, serving)
  BY DEF UsableForModality
<1>5. /\ UsableForModality \in Seq(DOMAIN world.at) /\ Distinct(UsableForModality)
      /\ ToSet(UsableForModality) \subseteq ToSet(Usable)
  BY <1>3, <1>4, KeptProperties, KeptMembers DEF Distinct
<1>6. ToSet(world.backends) \subseteq DOMAIN world.at
  BY <1>1, ToSetProperties
<1> QED  BY <1>3, <1>5, <1>6

(* Tuples put together make a longer one, its parts in their places.       *)
LEMMA TuplesConcat ==
    ASSUME NEW m \in Nat, NEW n \in Nat, NEW s \in Tuples(m), NEW t \in Tuples(n)
    PROVE  /\ s \o t \in Tuples(m + n)
           /\ \A i \in 1 .. m : (s \o t)[i] = s[i]
           /\ \A i \in 1 .. n : (s \o t)[m + i] = t[i]
<1>1. s \in Seq(Int) /\ Len(s) = m /\ t \in Seq(Int) /\ Len(t) = n
  BY SeqDef, LenProperties DEF Tuples
<1>2. /\ s \o t \in Seq(Int) /\ Len(s \o t) = m + n
      /\ \A i \in 1 .. m + n : (s \o t)[i] = IF i <= m THEN s[i] ELSE t[i - m]
  BY <1>1, ConcatProperties
<1>3. s \o t \in Tuples(m + n)
  BY <1>2, LenProperties DEF Tuples
<1>4. ASSUME NEW i \in 1 .. m  PROVE (s \o t)[i] = s[i]
  BY <1>2
<1>5. ASSUME NEW i \in 1 .. n  PROVE (s \o t)[m + i] = t[i]
  <2>1. m + i \in 1 .. m + n /\ ~ (m + i <= m) /\ (m + i) - m = i
    OBVIOUS
  <2> QED  BY <1>2, <2>1
<1> QED  BY <1>3, <1>4, <1>5

(* A tuple before the static part of a rank.                               *)
LEMMA HeadedTuple ==
    ASSUME NEW m \in Nat, m # 0, NEW s \in Tuples(m), NEW t \in Tuples(6),
           NEW n \in Nat, n = m + 6
    PROVE  /\ s \o t \in Tuples(n)
           /\ (s \o t)[1] = s[1] /\ (s \o t)[n - 1] = t[5] /\ (s \o t)[n] = t[6]
<1> DEFINE l == 6
<1>1. l \in Nat /\ t \in Tuples(l)
  OBVIOUS
<1>2. n = m + l /\ 1 \in 1 .. m /\ 5 \in 1 .. l /\ 6 \in 1 .. l /\ m + 5 = n - 1 /\ m + 6 = n
  OBVIOUS
<1> HIDE DEF l
<1>3. /\ s \o t \in Tuples(m + l)
      /\ \A i \in 1 .. m : (s \o t)[i] = s[i]
      /\ \A i \in 1 .. l : (s \o t)[m + i] = t[i]
  BY <1>1, TuplesConcat
<1>4. (s \o t)[m + 5] = t[5] /\ (s \o t)[m + 6] = t[6]
  BY <1>2, <1>3
<1> QED  BY <1>2, <1>3, <1>4

(* A number behind a tuple is its last.                                    *)
LEMMA LengthenedTuple ==
    ASSUME NEW n \in Nat, NEW s \in Tuples(n), NEW e \in Int
    PROVE  /\ s \o <<e>> \in Tuples(n + 1) /\ (s \o <<e>>)[n + 1] = e
           /\ \A i \in 1 .. n : (s \o <<e>>)[i] = s[i]
<1> DEFINE t == <<e>>
           l == 1
<1>1. l \in Nat /\ t \in Tuples(l) /\ t[1] = e /\ 1 \in 1 .. l /\ n + 1 = n + l
  BY DEF Tuples
<1> HIDE DEF t, l
<1>2. /\ s \o t \in Tuples(n + l)
      /\ \A i \in 1 .. n : (s \o t)[i] = s[i]
      /\ \A i \in 1 .. l : (s \o t)[n + i] = t[i]
  BY <1>1, TuplesConcat
<1>3. (s \o t)[n + 1] = e
  BY <1>1, <1>2
<1> QED  BY <1>1, <1>2, <1>3 DEF t

(* A key's health ranks by whole numbers.                                  *)
LEMMA HealthType ==
    ASSUME Stored, NEW k \in DOMAIN store
    PROVE  Bit(store[k].cooling) \in Int /\ Score(k) \in Int /\ -Score(k) \in Int /\ store[k].latency \in Int
<1>1. store[k] \in Health
  BY DEF Stored
<1>2. store[k].score \in Int /\ store[k].latency \in Int
  BY <1>1 DEF Health, Scores, Latencies
<1> QED  BY <1>2 DEF Score, Bit
---------------------------------------------------------------------------
(* Candidates are ranked *)

Places3 == {x \in ToSet(UsableForModality) \X (DOMAIN world.catalogue) \X Nat :
              x[2] \in ToSet(Models(x[1])) /\ x[3] \in DOMAIN At(x[1]).accounts}
RankLength == IF Policy.optimize = "cost" THEN 12 ELSE IF Policy.optimize = "latency" THEN 10 ELSE 9
Rank(x) == AutoCandidate(x[1], x[2], x[3]).rank

(* The account of a place is one of its backend's, which serves the model. *)
LEMMA PlaceType ==
    ASSUME Asked, Stored, NEW x \in Places3
    PROVE  /\ x[1] \in DOMAIN world.at /\ x[1] \in ToSet(world.backends) /\ x[1] \in ToSet(UsableForModality)
           /\ x[2] \in DOMAIN world.catalogue /\ x[2] \in ToSet(Models(x[1]))
           /\ x[3] \in Int /\ x[3] \in DOMAIN At(x[1]).accounts
           /\ x = <<x[1], x[2], x[3]>>
           /\ Key(x[1], At(x[1]).accounts[x[3]], x[2]) \in DOMAIN store
           /\ Limits(x[2]).price \in Prices /\ Limits(x[2]).price \in Int
           /\ -Limits(x[2]).hits \in Int
<1>1. /\ x[1] \in ToSet(UsableForModality) /\ x[2] \in DOMAIN world.catalogue /\ x[3] \in Nat
      /\ x[2] \in ToSet(Models(x[1])) /\ x[3] \in DOMAIN At(x[1]).accounts
      /\ x = <<x[1], x[2], x[3]>>
  BY DEF Places3
<1>2. x[1] \in ToSet(world.backends) /\ x[1] \in DOMAIN world.at
  BY <1>1, UsableType DEF Asked
<1>3. x[2] \in Reached(x[1])
  BY <1>1 DEF Reached
<1>4. At(x[1]).accounts[x[3]] \in ToSet(At(x[1]).accounts)
  BY <1>1 DEF ToSet
<1>5. Key(x[1], At(x[1]).accounts[x[3]], x[2]) \in DOMAIN store
  BY <1>2, <1>3, <1>4 DEF Stored
<1>6. Limits(x[2]).price \in Prices /\ Limits(x[2]).hits \in Nat
  BY <1>1, WorldType DEF Asked
<1>7. Limits(x[2]).price \in Int /\ -Limits(x[2]).hits \in Int
  BY <1>6 DEF Prices, NoBudget
<1> QED  BY <1>1, <1>2, <1>5, <1>6, <1>7

(* What ranks an account whatever its health.                              *)
LEMMA StaticType ==
    ASSUME Asked, Stored, NEW x \in Places3
    PROVE  /\ Static(x[1], x[2]) \in Tuples(6)
           /\ Static(x[1], x[2])[5] = Position(UsableForModality, x[1])
           /\ Static(x[1], x[2])[6] = Position(Models(x[1]), x[2])
<1>1. Position(UsableForModality, x[1]) \in Int
  BY PlaceType, UsableType, PositionProperties DEF Asked
<1>2. Position(Models(x[1]), x[2]) \in Int
  <2>1. Models(x[1]) \in Seq(STRING)
    BY PlaceType, WorldType DEF Asked
  <2> QED  BY <2>1, PlaceType, PositionProperties
<1>3. -Limits(x[2]).hits \in Int
  BY PlaceType
<1>4. /\ Bit(x[1] # world.key.backend) \in Int
      /\ Bit(world.key.tag \notin At(x[1]).tags) \in Int
      /\ Bit(Limits(x[2]).lifecycle = "deprecated") \in Int
  BY DEF Bit
<1>5. ASSUME NEW a \in Int, NEW b \in Int, NEW c \in Int, NEW d \in Int, NEW e \in Int, NEW f \in Int
      PROVE  <<a, b, c, d, e, f>> \in Tuples(6)
  BY DEF Tuples
<1>6. Static(x[1], x[2]) \in Tuples(6)
  BY <1>1, <1>2, <1>3, <1>4, <1>5 DEF Static
<1> QED  BY <1>6 DEF Static

(* The order key starts with the cooldown, and ends with what is static.   *)
LEMMA OrderKeyType ==
    ASSUME Asked, Stored, NEW x \in Places3, NEW k \in DOMAIN store
    PROVE  LET rank == OrderKey(k, Static(x[1], x[2]), Limits(x[2]).price,
                                Bit(Limits(x[2]).lifecycle = "deprecated"))
               n == RankLength - 1
           IN  /\ rank \in Tuples(n) /\ n \in Nat
               /\ rank[1] = Bit(store[k].cooling)
               /\ rank[n - 1] = Position(UsableForModality, x[1])
               /\ rank[n] = Position(Models(x[1]), x[2])
<1> DEFINE static == Static(x[1], x[2])
           cooling == Bit(store[k].cooling)
           deprecated == Bit(Limits(x[2]).lifecycle = "deprecated")
           price == Limits(x[2]).price
           rank == OrderKey(k, static, price, deprecated)
           n == RankLength - 1
           p == n - 1
<1>1. /\ static \in Tuples(6)
      /\ static[5] = Position(UsableForModality, x[1])
      /\ static[6] = Position(Models(x[1]), x[2])
  BY StaticType
<1>2. /\ cooling \in Int /\ -Score(k) \in Int /\ store[k].latency \in Int /\ deprecated \in Int
      /\ price \in Int /\ Bit(price = Unpriced) \in Int
  BY HealthType, PlaceType DEF Bit
<1> HIDE DEF static, cooling, deprecated, price
<1>3. /\ rank \in Tuples(n) /\ n \in Nat
      /\ rank[1] = cooling
      /\ rank[p] = Position(UsableForModality, x[1])
      /\ rank[n] = Position(Models(x[1]), x[2])
  <2>1. CASE Policy.optimize = "cost"
    <3> DEFINE s == <<cooling, Bit(price = Unpriced), price, deprecated, -Score(k)>>
    <3>1. s \in Tuples(5) /\ s[1] = cooling
      BY <1>2 DEF Tuples
    <3>2. rank = s \o static
      BY <2>1 DEF OrderKey, cooling
    <3> HIDE DEF s, rank, n, p
    <3>3. /\ s \o static \in Tuples(11) /\ (s \o static)[1] = s[1]
          /\ (s \o static)[10] = static[5] /\ (s \o static)[11] = static[6]
      <4> DEFINE m == 5
                 l == 11
      <4>1. m \in Nat /\ m # 0 /\ l \in Nat /\ l = m + 6 /\ s \in Tuples(m) /\ l - 1 = 10
        BY <3>1
      <4> HIDE DEF m, l
      <4>2. /\ s \o static \in Tuples(l) /\ (s \o static)[1] = s[1]
            /\ (s \o static)[l - 1] = static[5] /\ (s \o static)[l] = static[6]
        BY ZenonT(30), <1>1, <4>1, HeadedTuple
      <4> QED  BY <4>1, <4>2 DEF l
    <3>4. n = 11 /\ p = 10
      BY <2>1 DEF RankLength, n, p
    <3> QED  BY <1>1, <3>1, <3>2, <3>3, <3>4
  <2>2. CASE Policy.optimize = "latency"
    <3> DEFINE s == <<cooling, store[k].latency, -Score(k)>>
    <3>1. s \in Tuples(3) /\ s[1] = cooling
      BY <1>2 DEF Tuples
    <3>2. rank = s \o static
      BY <2>2 DEF OrderKey, cooling
    <3> HIDE DEF s, rank, n, p
    <3>3. /\ s \o static \in Tuples(9) /\ (s \o static)[1] = s[1]
          /\ (s \o static)[8] = static[5] /\ (s \o static)[9] = static[6]
      <4> DEFINE m == 3
                 l == 9
      <4>1. m \in Nat /\ m # 0 /\ l \in Nat /\ l = m + 6 /\ s \in Tuples(m) /\ l - 1 = 8
        BY <3>1
      <4> HIDE DEF m, l
      <4>2. /\ s \o static \in Tuples(l) /\ (s \o static)[1] = s[1]
            /\ (s \o static)[l - 1] = static[5] /\ (s \o static)[l] = static[6]
        BY ZenonT(30), <1>1, <4>1, HeadedTuple
      <4> QED  BY <4>1, <4>2 DEF l
    <3>4. n = 9 /\ p = 8
      BY <2>2 DEF RankLength, n, p
    <3> QED  BY <1>1, <3>1, <3>2, <3>3, <3>4
  <2>3. CASE Policy.optimize \notin {"cost", "latency"}
    <3> DEFINE s == <<cooling, -Score(k)>>
    <3>1. s \in Tuples(2) /\ s[1] = cooling
      BY <1>2 DEF Tuples
    <3>2. rank = s \o static
      BY <2>3 DEF OrderKey, cooling
    <3> HIDE DEF s, rank, n, p
    <3>3. /\ s \o static \in Tuples(8) /\ (s \o static)[1] = s[1]
          /\ (s \o static)[7] = static[5] /\ (s \o static)[8] = static[6]
      <4> DEFINE m == 2
                 l == 8
      <4>1. m \in Nat /\ m # 0 /\ l \in Nat /\ l = m + 6 /\ s \in Tuples(m) /\ l - 1 = 7
        BY <3>1
      <4> HIDE DEF m, l
      <4>2. /\ s \o static \in Tuples(l) /\ (s \o static)[1] = s[1]
            /\ (s \o static)[l - 1] = static[5] /\ (s \o static)[l] = static[6]
        BY ZenonT(30), <1>1, <4>1, HeadedTuple
      <4> QED  BY <4>1, <4>2 DEF l
    <3>4. n = 8 /\ p = 7
      BY <2>3 DEF RankLength, n, p
    <3> QED  BY <1>1, <3>1, <3>2, <3>3, <3>4
  <2> QED  BY <2>1, <2>2, <2>3
<1> QED  BY <1>3 DEF n, p, rank, static, cooling, price, deprecated

(* A rank is a tuple of numbers: the cooldown first, the account last.     *)
LEMMA RankType ==
    ASSUME Asked, Stored, NEW x \in Places3
    PROVE  /\ RankLength \in Nat /\ RankLength # 0 /\ Rank(x) \in Tuples(RankLength)
           /\ Rank(x)[1] = Bit(store[Key(x[1], At(x[1]).accounts[x[3]], x[2])].cooling)
           /\ Rank(x)[RankLength - 2] = Position(UsableForModality, x[1])
           /\ Rank(x)[RankLength - 1] = Position(Models(x[1]), x[2])
           /\ Rank(x)[RankLength] = x[3]
<1> DEFINE k == Key(x[1], At(x[1]).accounts[x[3]], x[2])
           r == OrderKey(k, Static(x[1], x[2]), Limits(x[2]).price, Bit(Limits(x[2]).lifecycle = "deprecated"))
           n == RankLength - 1
           p == Position(UsableForModality, x[1])
           q == Position(Models(x[1]), x[2])
<1>1. k \in DOMAIN store /\ x[3] \in Int
  BY PlaceType
<1>2. RankLength \in {12, 10, 9}
  BY DEF RankLength
<1>3. Rank(x) = r \o <<x[3]>>
  BY DEF Rank, AutoCandidate
<1>4. n \in Nat /\ n + 1 = RankLength /\ 1 \in 1 .. n /\ n - 1 \in 1 .. n /\ n \in 1 .. n
  BY <1>2
<1>5. /\ r \in Tuples(n) /\ r[1] = Bit(store[k].cooling)
      /\ r[n - 1] = p /\ r[n] = q
  BY <1>1, OrderKeyType
<1> HIDE DEF r, n, p, q, k
<1>7. /\ r \o <<x[3]>> \in Tuples(n + 1)
      /\ (r \o <<x[3]>>)[1] = r[1]
      /\ (r \o <<x[3]>>)[n - 1] = r[n - 1]
      /\ (r \o <<x[3]>>)[n] = r[n]
      /\ (r \o <<x[3]>>)[n + 1] = x[3]
  <2>1. /\ r \o <<x[3]>> \in Tuples(n + 1) /\ (r \o <<x[3]>>)[n + 1] = x[3]
        /\ \A i \in 1 .. n : (r \o <<x[3]>>)[i] = r[i]
    BY <1>1, <1>4, <1>5, LengthenedTuple
  <2> QED  BY <1>4, <2>1
<1>8. RankLength - 2 = n - 1 /\ RankLength - 1 = n /\ RankLength \in Nat /\ RankLength # 0
  BY <1>2, <1>4 DEF n
<1>9. Rank(x) \in Tuples(RankLength)
  BY <1>3, <1>4, <1>7
<1>10. Rank(x)[RankLength - 2] = p /\ Rank(x)[RankLength - 1] = q /\ Rank(x)[RankLength] = x[3]
  BY <1>3, <1>4, <1>5, <1>7, <1>8
<1>11. Rank(x)[1] = Bit(store[k].cooling)
  BY <1>3, <1>5, <1>7
<1> QED  BY <1>8, <1>9, <1>10, <1>11 DEF p, q, k

(* Two accounts never have the same rank.                                  *)
LEMMA RankTells ==
    ASSUME Asked, Stored, NEW x \in Places3, NEW y \in Places3, Rank(x) = Rank(y)
    PROVE  x = y
<1>1. x[3] = y[3]
  BY RankType
<1>2. x[1] = y[1]
  <2>1. Position(UsableForModality, x[1]) = Position(UsableForModality, y[1])
    BY RankType
  <2>2. /\ UsableForModality \in Seq(DOMAIN world.at)
        /\ x[1] \in ToSet(UsableForModality) /\ y[1] \in ToSet(UsableForModality)
    BY UsableType, PlaceType DEF Asked
  <2>3. /\ UsableForModality[Position(UsableForModality, x[1])] = x[1]
        /\ UsableForModality[Position(UsableForModality, y[1])] = y[1]
    BY <2>2, PositionProperties
  <2> QED  BY <2>1, <2>3
<1>3. x[2] = y[2]
  <2>1. Position(Models(x[1]), x[2]) = Position(Models(x[1]), y[2])
    BY <1>2, RankType
  <2>2. /\ Models(x[1]) \in Seq(STRING)
        /\ x[2] \in ToSet(Models(x[1])) /\ y[2] \in ToSet(Models(x[1]))
    BY <1>2, WorldType, PlaceType DEF Asked
  <2>3. /\ Models(x[1])[Position(Models(x[1]), x[2])] = x[2]
        /\ Models(x[1])[Position(Models(x[1]), y[2])] = y[2]
    BY <2>2, PositionProperties
  <2> QED  BY <2>1, <2>3
<1>4. x = <<x[1], x[2], x[3]>> /\ y = <<y[1], y[2], y[3]>>
  BY PlaceType
<1> QED  BY <1>1, <1>2, <1>3, <1>4
---------------------------------------------------------------------------
(* The automatic candidates *)

AutoPlaces(except) == SpokenFor(Admitted(except))
AutoSet(except) == {AutoCandidate(x[1], x[2], x[3]) : x \in AutoPlaces(except)}

\* What every candidate of a plan keeps, whoever reorders or drops some.
Allowed(c) ==
    /\ c.key # <<>> /\ c.key[3] \in DOMAIN world.catalogue
    /\ c.estimate = Limits(c.key[3]).price /\ c.estimate \in Prices
    /\ Limits(c.key[3]).lifecycle # "retired" /\ WithinCap(c.key[3]) /\ TagOk(c.key[1])
    /\ request.audio => /\ Limits(c.key[3]).says /\ Limits(c.key[3]).fits
                        /\ request.voice \in {<<>>, <<c.key[1], c.key[2]>>}

\* A candidate cooling down is followed by others cooling down.
Sinking(s) ==
    \A i, j \in DOMAIN s : i < j /\ store[s[i].key].cooling => store[s[j].key].cooling
DistinctKeys(s) == \A i, j \in DOMAIN s : s[i].key = s[j].key => i = j

(* Finitely many finite sets have finitely many members.                   *)
LEMMA FamilyFinite ==
    ASSUME NEW f, IsFiniteSet(DOMAIN f), \A x \in DOMAIN f : IsFiniteSet(f[x])
    PROVE  IsFiniteSet(UNION Image(f))
<1>1. IsFiniteSet(Image(f))
  BY ImageFinite DEF Image
<1>2. \A T \in Image(f) : IsFiniteSet(T)
  BY DEF Image
<1> QED  BY <1>1, <1>2, FS_UNION

(* There are finitely many accounts.                                       *)
LEMMA PlacesFinite ==
    ASSUME Asked
    PROVE  IsFiniteSet(Places3)
<1> DEFINE O == ToSet(UsableForModality) \X DOMAIN world.catalogue
           g(o) == [i \in DOMAIN At(o[1]).accounts |-> <<o[1], o[2], i>>]
           f == [o \in O |-> Image(g(o))]
<1>1. IsFiniteSet(ToSet(UsableForModality)) /\ IsFiniteSet(DOMAIN world.catalogue)
  BY UsableType, ToSetProperties, WorldType DEF Asked
<1>2. IsFiniteSet(O)
  BY <1>1, FS_Product
<1>3. ASSUME NEW o \in O  PROVE IsFiniteSet(f[o])
  <2>1. o[1] \in DOMAIN world.at
    BY UsableType DEF Asked
  <2>2. At(o[1]).accounts \in Seq(STRING)
    BY <2>1, WorldType DEF Asked
  <2> DEFINE n == Len(At(o[1]).accounts)
  <2>3. n \in Nat /\ DOMAIN At(o[1]).accounts = 1 .. n
    BY <2>2, LenProperties
  <2> HIDE DEF n
  <2>4. IsFiniteSet(1 .. n)
    BY <2>3, FS_Interval
  <2>5. DOMAIN g(o) = 1 .. n
    BY <2>3
  <2> HIDE DEF g
  <2>6. IsFiniteSet(Image(g(o)))
    BY <2>4, <2>5, ImageFinite DEF Image
  <2> QED  BY <2>6
<1>4. Places3 \subseteq UNION Image(f)
  <2> SUFFICES ASSUME NEW x \in Places3  PROVE x \in UNION Image(f)
    OBVIOUS
  <2> DEFINE o == <<x[1], x[2]>>
  <2>1. o \in O /\ x[3] \in DOMAIN At(o[1]).accounts /\ x = <<o[1], o[2], x[3]>>
    BY DEF Places3
  <2>2. x \in Image(g(o))
    BY <2>1 DEF Image
  <2>3. f[o] \in Image(f)
    <3> HIDE DEF o, g
    <3> QED  BY <2>1 DEF Image
  <2>4. f[o] = Image(g(o))
    BY <2>1
  <2> QED  BY <2>2, <2>3, <2>4
<1>5. IsFiniteSet(UNION Image(f))
  <2>1. DOMAIN f = O
    OBVIOUS
  <2> HIDE DEF f, O
  <2> QED  BY <1>2, <1>3, <2>1, FamilyFinite
<1> HIDE DEF f
<1> QED  BY <1>4, <1>5, FS_Subset

(* The accounts planned are places whose model passes the gates and whose  *)
(* account can speak the request.                                          *)
LEMMA AutoPlacesType ==
    ASSUME Asked, NEW except
    PROVE  AutoPlaces(except) =
             {x \in Places3 : /\ TagOk(x[1]) /\ x[2] # except /\ AutoReason(x[2]) = Unset
                              /\ Speaks(x[1], At(x[1]).accounts[x[3]], x[2])}
<1> DEFINE Right(x) == /\ TagOk(x[1]) /\ x[2] # except /\ AutoReason(x[2]) = Unset
                       /\ Speaks(x[1], At(x[1]).accounts[x[3]], x[2])
           Set == {x \in Places3 : Right(x)}
<1>1. ASSUME NEW x \in AutoPlaces(except)  PROVE x \in Set
  <2>1. PICK o \in Admitted(except) :
             x \in {<<o[1], o[2], i>> : i \in {i \in DOMAIN At(o[1]).accounts :
                                                 Speaks(o[1], At(o[1]).accounts[i], o[2])}}
    BY DEF AutoPlaces, SpokenFor
  <2>2. PICK i \in DOMAIN At(o[1]).accounts :
             x = <<o[1], o[2], i>> /\ Speaks(o[1], At(o[1]).accounts[i], o[2])
    BY <2>1
  <2>3. /\ o \in ToSet(UsableForModality) \X DOMAIN world.catalogue
        /\ TagOk(o[1]) /\ o[2] \in ToSet(Models(o[1])) /\ o[2] # except /\ AutoReason(o[2]) = Unset
    BY DEF Admitted, Offered
  <2>4. o[1] \in DOMAIN world.at
    BY <2>3, UsableType DEF Asked
  <2>5. i \in Nat
    <3>1. At(o[1]).accounts \in Seq(STRING)
      BY <2>4, WorldType DEF Asked
    <3>2. DOMAIN At(o[1]).accounts = 1 .. Len(At(o[1]).accounts) /\ Len(At(o[1]).accounts) \in Nat
      BY <3>1, LenProperties
    <3> QED  BY <3>2
  <2>6. x[1] = o[1] /\ x[2] = o[2] /\ x[3] = i
    BY <2>2
  <2>7. x \in Places3
    BY <2>2, <2>3, <2>5, <2>6 DEF Places3
  <2>8. Right(x)
    BY <2>2, <2>3, <2>6
  <2> QED  BY <2>7, <2>8
<1>2. ASSUME NEW x \in Places3, Right(x)  PROVE x \in AutoPlaces(except)
  <2> DEFINE o == <<x[1], x[2]>>
  <2>1. /\ o \in ToSet(UsableForModality) \X DOMAIN world.catalogue
        /\ o[2] \in ToSet(Models(o[1])) /\ x[3] \in DOMAIN At(o[1]).accounts /\ x = <<o[1], o[2], x[3]>>
    BY DEF Places3
  <2>2. o \in Admitted(except)
    BY <1>2, <2>1 DEF Admitted, Offered
  <2>3. x \in {<<o[1], o[2], i>> : i \in {i \in DOMAIN At(o[1]).accounts :
                                            Speaks(o[1], At(o[1]).accounts[i], o[2])}}
    BY <1>2, <2>1
  <2> HIDE DEF o
  <2> QED  BY <2>2, <2>3 DEF AutoPlaces, SpokenFor
<1> HIDE DEF Right
<1> QED
  <2>1. AutoPlaces(except) = Set
    BY <1>1, <1>2
  <2> QED  BY <2>1 DEF Right
(* The gates of the cap and the budget, for any price, cap and room.       *)
LEMMA AdmitCases ==
    ASSUME NEW price \in Int, NEW cap \in Int, NEW left \in Int, price >= -1, left >= 0,
           NEW free \in BOOLEAN, NEW none, none \notin {"unpriced", "max_cost", "budget"}, NEW R,
           R = IF cap # -1 /\ price = -1 THEN "unpriced"
               ELSE IF cap # -1 /\ price > cap THEN "max_cost"
               ELSE IF left = 1000 THEN none
               ELSE IF price = -1 /\ ~free THEN "unpriced"
               ELSE IF (IF price = -1 THEN 0 ELSE price) > left THEN "budget" ELSE none
    PROVE  /\ R = none <=> /\ (cap # -1 => price # -1 /\ price <= cap)
                         /\ (left # 1000 => IF price # -1 THEN price <= left ELSE free)
           /\ R \in {none, "unpriced", "max_cost", "budget"}
           /\ R = "unpriced" => price = -1
           /\ R = "max_cost" => ~ (cap # -1 => price # -1 /\ price <= cap)
           /\ R = "budget" => /\ price # -1 /\ (cap # -1 => price # -1 /\ price <= cap)
                              /\ ~ (left # 1000 => IF price # -1 THEN price <= left ELSE free)
<1>1. /\ R \in {none, "unpriced", "max_cost", "budget"}
      /\ R = "unpriced" => price = -1
  OBVIOUS
<1>2. R = "max_cost" => ~ (cap # -1 => price # -1 /\ price <= cap)
  OBVIOUS
<1>3. R = "budget" => price # -1 /\ (cap # -1 => price # -1 /\ price <= cap)
  OBVIOUS
<1>4. R = "budget" => ~ (left # 1000 => IF price # -1 THEN price <= left ELSE free)
  OBVIOUS
<1>5. R = none <=> /\ (cap # -1 => price # -1 /\ price <= cap)
                 /\ (left # 1000 => IF price # -1 THEN price <= left ELSE free)
  OBVIOUS
<1> QED  BY <1>1, <1>2, <1>3, <1>4, <1>5

(* A model is admitted exactly when it is within the cap and the budget.   *)
LEMMA AdmitProperties ==
    ASSUME Asked, room \in 0 .. NoBudget, NEW m \in DOMAIN world.catalogue
    PROVE  /\ AdmitReason(m) = Unset <=> WithinCap(m) /\ WithinBudget(m, room)
           /\ AdmitReason(m) \in {Unset, "unpriced", "max_cost", "budget"}
           /\ AdmitReason(m) = "unpriced" => ~ Known(m)
           /\ AdmitReason(m) = "max_cost" => ~ WithinCap(m)
           /\ AdmitReason(m) = "budget" => Known(m) /\ WithinCap(m) /\ ~ WithinBudget(m, room)
<1> DEFINE price == Limits(m).price
           cap == Policy.cap
           R == AdmitReason(m)
           none == Unset
<1>1. price \in Int /\ price >= -1
  <2>1. price \in Prices
    BY WorldType DEF Asked
  <2> HIDE DEF price
  <2> QED  BY <2>1 DEF Prices, NoBudget
<1>2. cap \in Int /\ room \in Int /\ room >= 0
  BY PolicyType DEF Asked, NoCap, NoBudget
<1>3. AllowUnpriced \in BOOLEAN
  BY RoutingAssumption DEF RoutingAssumption
<1>4. R = IF cap # -1 /\ price = -1 THEN "unpriced"
          ELSE IF cap # -1 /\ price > cap THEN "max_cost"
          ELSE IF room = 1000 THEN none
          ELSE IF price = -1 /\ ~AllowUnpriced THEN "unpriced"
          ELSE IF (IF price = -1 THEN 0 ELSE price) > room THEN "budget" ELSE none
  BY DEF AdmitReason, NoCap, NoBudget, Unpriced
<1>5. /\ WithinCap(m) <=> (cap # -1 => price # -1 /\ price <= cap)
      /\ Known(m) <=> price # -1
      /\ WithinBudget(m, room) <=> (room # 1000 => IF price # -1 THEN price <= room ELSE AllowUnpriced)
  BY DEF WithinCap, WithinBudget, Known, NoCap, NoBudget, Unpriced
<1>0. none \notin {"unpriced", "max_cost", "budget"}
  BY DEF Unset
<1> HIDE DEF price, cap, R, none
<1>6. /\ R = none <=> /\ (cap # -1 => price # -1 /\ price <= cap)
                    /\ (room # 1000 => IF price # -1 THEN price <= room ELSE AllowUnpriced)
      /\ R \in {none, "unpriced", "max_cost", "budget"}
      /\ R = "unpriced" => price = -1
      /\ R = "max_cost" => ~ (cap # -1 => price # -1 /\ price <= cap)
      /\ R = "budget" => /\ price # -1 /\ (cap # -1 => price # -1 /\ price <= cap)
                         /\ ~ (room # 1000 => IF price # -1 THEN price <= room ELSE AllowUnpriced)
  BY <1>0, <1>1, <1>2, <1>3, <1>4, AdmitCases
<1>7. /\ R = none <=> WithinCap(m) /\ WithinBudget(m, room)
      /\ R \in {none, "unpriced", "max_cost", "budget"}
      /\ R = "unpriced" => ~ Known(m)
      /\ R = "max_cost" => ~ WithinCap(m)
      /\ R = "budget" => Known(m) /\ WithinCap(m) /\ ~ WithinBudget(m, room)
  BY <1>5, <1>6
<1> QED  BY <1>7 DEF R, none

(* The automatic candidates are ranked, one for every place.               *)
LEMMA AutoRanked ==
    ASSUME Asked, Stored, NEW except
    PROVE  /\ Ranked(AutoSet(except), RankLength) /\ RankLength \in Nat /\ RankLength # 0
           /\ AutoPlaces(except) \subseteq Places3
           /\ \A x \in AutoPlaces(except) : AutoCandidate(x[1], x[2], x[3]) \in AutoSet(except)
           /\ \A c \in AutoSet(except) : \E x \in AutoPlaces(except) : c = AutoCandidate(x[1], x[2], x[3])
<1>1. AutoPlaces(except) \subseteq Places3
  BY AutoPlacesType
<1>2. IsFiniteSet(AutoPlaces(except))
  BY <1>1, PlacesFinite, FS_Subset
<1>3. IsFiniteSet(AutoSet(except))
  <2> DEFINE f == [x \in AutoPlaces(except) |-> AutoCandidate(x[1], x[2], x[3])]
  <2>1. IsFiniteSet({f[x] : x \in DOMAIN f})
    BY <1>2, ImageFinite
  <2>2. AutoSet(except) = {f[x] : x \in DOMAIN f}
    BY DEF AutoSet
  <2> QED  BY <2>1, <2>2
<1>4. ASSUME NEW c \in AutoSet(except)
      PROVE  \E x \in AutoPlaces(except) : c = AutoCandidate(x[1], x[2], x[3])
  BY DEF AutoSet
<1>5. \A x \in AutoPlaces(except) : AutoCandidate(x[1], x[2], x[3]) \in AutoSet(except)
  BY DEF AutoSet
<1>6. RankLength \in Nat /\ RankLength # 0
  BY DEF RankLength
<1>7. \A c \in AutoSet(except) : c.rank \in Tuples(RankLength)
  <2> SUFFICES ASSUME NEW c \in AutoSet(except)  PROVE c.rank \in Tuples(RankLength)
    OBVIOUS
  <2>1. PICK x \in AutoPlaces(except) : c = AutoCandidate(x[1], x[2], x[3])
    BY <1>4
  <2>2. c.rank = Rank(x) /\ x \in Places3
    BY <1>1, <2>1 DEF Rank
  <2> QED  BY <2>2, RankType
<1>8. \A c, d \in AutoSet(except) : c.rank = d.rank => c = d
  <2> SUFFICES ASSUME NEW c \in AutoSet(except), NEW d \in AutoSet(except), c.rank = d.rank  PROVE c = d
    OBVIOUS
  <2>1. PICK x \in AutoPlaces(except) : c = AutoCandidate(x[1], x[2], x[3])
    BY <1>4
  <2>2. PICK y \in AutoPlaces(except) : d = AutoCandidate(y[1], y[2], y[3])
    BY <1>4
  <2>3. x \in Places3 /\ y \in Places3 /\ Rank(x) = Rank(y)
    BY <1>1, <2>1, <2>2 DEF Rank
  <2>4. x = y
    BY <2>3, RankTells
  <2> QED  BY <2>1, <2>2, <2>4
<1> QED  BY <1>1, <1>3, <1>4, <1>5, <1>6, <1>7, <1>8 DEF Ranked

(* What an automatic candidate is.                                         *)
LEMMA AutoMember ==
    ASSUME Asked, Stored, room \in 0 .. NoBudget, NEW except, NEW c \in AutoSet(except)
    PROVE  /\ c.kind = "auto" /\ c.key[3] # except /\ Allowed(c)
           /\ c.rank[1] = Bit(store[c.key].cooling)
           /\ c = [key |-> c.key, kind |-> c.kind, estimate |-> c.estimate, rank |-> c.rank]
           /\ DOMAIN c = {"key", "kind", "estimate", "rank"}
<1>1. PICK x \in AutoPlaces(except) : c = AutoCandidate(x[1], x[2], x[3])
  BY AutoRanked
<1> DEFINE a == At(x[1]).accounts[x[3]]
           k == Key(x[1], a, x[2])
           r == Rank(x)
<1>2. x \in Places3 /\ TagOk(x[1]) /\ x[2] # except /\ AutoReason(x[2]) = Unset /\ Speaks(x[1], a, x[2])
  BY AutoPlacesType
<1>3. x[2] \in DOMAIN world.catalogue /\ Limits(x[2]).price \in Prices
  BY <1>2, PlaceType
<1>4. c.rank = r /\ r[1] = Bit(store[k].cooling)
  BY <1>1, <1>2, RankType DEF Rank
<1>5. c.key = k /\ c.kind = "auto" /\ c.estimate = Limits(x[2]).price
  BY <1>1 DEF AutoCandidate
<1>6. c.key[1] = x[1] /\ c.key[2] = a /\ c.key[3] = x[2] /\ c.key # <<>>
  BY <1>5 DEF Key
<1>7. Limits(x[2]).fits /\ Limits(x[2]).lifecycle # "retired" /\ WithinCap(x[2])
  <2>1. /\ Limits(x[2]).fits /\ Limits(x[2]).lifecycle # "retired" /\ AdmitReason(x[2]) = Unset
    BY <1>2, Zenon DEF AutoReason, Unset
  <2> QED  BY <1>3, <2>1, AdmitProperties
<1>8. request.audio => Limits(x[2]).says /\ request.voice \in {<<>>, <<x[1], a>>}
  BY <1>2 DEF Speaks
<1>9. Allowed(c)
  BY <1>2, <1>3, <1>5, <1>6, <1>7, <1>8 DEF Allowed
<1>10. /\ c = [key |-> c.key, kind |-> c.kind, estimate |-> c.estimate, rank |-> c.rank]
       /\ DOMAIN c = {"key", "kind", "estimate", "rank"}
  BY <1>1 DEF AutoCandidate
<1> HIDE DEF a, k, r
<1> QED  BY <1>2, <1>4, <1>5, <1>6, <1>9, <1>10

(* No two automatic candidates are for one account and model.              *)
LEMMA AutoKeys ==
    ASSUME Asked, Stored, DistinctAccounts, NEW except,
           NEW c \in AutoSet(except), NEW d \in AutoSet(except), c.key = d.key
    PROVE  c = d
<1>1. PICK x \in AutoPlaces(except) : c = AutoCandidate(x[1], x[2], x[3])
  BY AutoRanked
<1>2. PICK y \in AutoPlaces(except) : d = AutoCandidate(y[1], y[2], y[3])
  BY AutoRanked
<1>3. /\ c.key = <<x[1], At(x[1]).accounts[x[3]], x[2]>>
      /\ d.key = <<y[1], At(y[1]).accounts[y[3]], y[2]>>
  BY <1>1, <1>2 DEF AutoCandidate, Key
<1>4. x[1] = y[1] /\ x[2] = y[2] /\ At(x[1]).accounts[x[3]] = At(y[1]).accounts[y[3]]
  <2> DEFINE a == At(x[1]).accounts[x[3]]
             b == At(y[1]).accounts[y[3]]
             k == c.key
  <2>1. k = <<x[1], a, x[2]>> /\ k = <<y[1], b, y[2]>>
    BY <1>3
  <2> HIDE DEF a, b, k
  <2>2. /\ k[1] = x[1] /\ k[2] = a /\ k[3] = x[2]
        /\ k[1] = y[1] /\ k[2] = b /\ k[3] = y[2]
    BY <2>1
  <2> QED  BY <2>2 DEF a, b
<1>5. x \in Places3 /\ y \in Places3
  BY AutoRanked
<1>6. x[1] \in DOMAIN world.at /\ x[3] \in DOMAIN At(x[1]).accounts /\ y[3] \in DOMAIN At(x[1]).accounts
  BY <1>4, <1>5, PlaceType
<1>7. x[3] = y[3]
  BY <1>4, <1>6 DEF DistinctAccounts, Asked, At
<1> QED  BY <1>1, <1>2, <1>4, <1>7

(* The automatic part of a plan: every candidate allowed, none twice, and  *)
(* those cooling down last.                                                *)
LEMMA AutoListed ==
    ASSUME Asked, Stored, room \in 0 .. NoBudget, NEW except
    PROVE  LET s == AutoCandidates(except).candidates
           IN  /\ s = Sorted(AutoSet(except))
               /\ s \in Seq(AutoSet(except)) /\ ToSet(s) = AutoSet(except) /\ Len(s) \in Nat
               /\ DOMAIN s = 1 .. Len(s)
               /\ \A i \in DOMAIN s : s[i] \in AutoSet(except)
               /\ Distinct(s) /\ Sinking(s)
<1> DEFINE s == Sorted(AutoSet(except))
<1>1. AutoCandidates(except).candidates = s
  BY DEF AutoCandidates, AutoSet, AutoPlaces
<1>2. Ranked(AutoSet(except), RankLength) /\ RankLength \in Nat /\ RankLength # 0
  BY AutoRanked
<1>3. /\ s \in Seq(AutoSet(except)) /\ ToSet(s) = AutoSet(except) /\ Len(s) \in Nat /\ Distinct(s)
      /\ DOMAIN s = 1 .. Len(s)
      /\ \A i, j \in DOMAIN s : i < j <=> Lex(s[i].rank, s[j].rank)
  BY <1>2, SortedProperties DEF Distinct
<1> HIDE DEF s
<1>4. \A i \in DOMAIN s : s[i] \in AutoSet(except)
  BY <1>3 DEF ToSet
<1>5. Sinking(s)
  <2> SUFFICES ASSUME NEW i \in DOMAIN s, NEW j \in DOMAIN s, i < j, store[s[i].key].cooling
               PROVE  store[s[j].key].cooling
    BY DEF Sinking
  <2>1. s[i] \in AutoSet(except) /\ s[j] \in AutoSet(except) /\ Lex(s[i].rank, s[j].rank)
    BY <1>3, <1>4
  <2>2. s[i].rank \in Tuples(RankLength) /\ s[j].rank \in Tuples(RankLength)
    BY <1>2, <2>1 DEF Ranked
  <2>3. s[i].rank[1] <= s[j].rank[1]
    BY <1>2, <2>1, <2>2, LexHead
  <2>4. Bit(store[s[i].key].cooling) <= Bit(store[s[j].key].cooling)
    <3>1. s[i].rank[1] = Bit(store[s[i].key].cooling) /\ s[j].rank[1] = Bit(store[s[j].key].cooling)
      BY <2>1, AutoMember
    <3> QED  BY <2>3, <3>1
  <2> QED  BY <2>4 DEF Bit
<1> QED  BY <1>1, <1>3, <1>4, <1>5 DEF s
---------------------------------------------------------------------------
(* The pinned candidates *)

PreferredOrder(serving) ==
    {p \in ToSet(serving) \X ToSet(serving) : Lex(Preference(p[1], serving), Preference(p[2], serving))}
PinnedRow(model, chosen, i) ==
    [j \in DOMAIN PinnedAccounts(chosen[i], model) |->
        PinnedCandidate(chosen[i], PinnedAccounts(chosen[i], model)[j], model, i, j)]
PinnedRows(model, chosen) == [i \in DOMAIN chosen |-> Image(PinnedRow(model, chosen, i))]
PinnedSet(model, chosen) == UNION Image(PinnedRows(model, chosen))

(* The serving backends are preferred in a strict order.                   *)
LEMMA PreferredOrdered ==
    ASSUME NEW S, NEW serving \in Seq(S)
    PROVE  /\ StrictOrder(PreferredOrder(serving), ToSet(serving))
           /\ IsFiniteSet(ToSet(serving))
           /\ \A b \in ToSet(serving) : Preference(b, serving) \in Tuples(3)
<1> DEFINE B == ToSet(serving)
<1>1. ASSUME NEW b \in B
      PROVE  /\ Preference(b, serving) \in Tuples(3)
             /\ serving[Preference(b, serving)[3]] = b
  <2>1. Position(serving, b) \in Int /\ serving[Position(serving, b)] = b
    BY PositionProperties
  <2>2. Bit(world.key.backend # b) \in Int /\ Bit(world.key.tag \notin At(b).tags) \in Int
    BY DEF Bit
  <2>3. ASSUME NEW p \in Int, NEW q \in Int, NEW r \in Int
        PROVE  <<p, q, r>> \in Tuples(3) /\ <<p, q, r>>[3] = r
    BY DEF Tuples
  <2>4. Preference(b, serving) \in Tuples(3) /\ Preference(b, serving)[3] = Position(serving, b)
    BY <2>1, <2>2, <2>3 DEF Preference
  <2> QED  BY <2>1, <2>4
<1>2. \A b, c \in B : Preference(b, serving) = Preference(c, serving) => b = c
  BY <1>1
<1>3. IsFiniteSet(B)
  BY ToSetProperties
<1>4. \A b, c \in B : <<b, c>> \in PreferredOrder(serving) <=> Lex(Preference(b, serving), Preference(c, serving))
  BY DEF PreferredOrder
<1> HIDE DEF B
<1> DEFINE n == 3
<1>5. n \in Nat /\ \A b \in B : Preference(b, serving) \in Tuples(n)
  BY <1>1
<1> HIDE DEF n
<1>6. /\ \A k \in Tuples(n) : ~ Lex(k, k)
      /\ \A k, l, m \in Tuples(n) : Lex(k, l) /\ Lex(l, m) => Lex(k, m)
      /\ \A k, l \in Tuples(n) : k # l => Lex(k, l) \/ Lex(l, k)
  BY <1>5, LexOrder
<1>7. StrictOrder(PreferredOrder(serving), B)
  <2>1. \A b \in B : <<b, b>> \notin PreferredOrder(serving)
    BY <1>4, <1>5, <1>6
  <2>2. \A b, c, d \in B : <<b, c>> \in PreferredOrder(serving) /\ <<c, d>> \in PreferredOrder(serving)
                              => <<b, d>> \in PreferredOrder(serving)
    BY <1>4, <1>5, <1>6
  <2>3. \A b, c \in B : b # c => <<b, c>> \in PreferredOrder(serving) \/ <<c, b>> \in PreferredOrder(serving)
    BY <1>2, <1>4, <1>5, <1>6
  <2> QED  BY <2>1, <2>2, <2>3 DEF StrictOrder
<1> QED  BY <1>1, <1>3, <1>7 DEF B

(* Preferred lists the serving backends once.                              *)
LEMMA PreferredProperties ==
    ASSUME NEW S, NEW serving \in Seq(S)
    PROVE  LET s == Preferred(serving)
           IN  /\ s = InOrder(ToSet(serving), PreferredOrder(serving))
               /\ s \in Seq(S) /\ ToSet(s) = ToSet(serving) /\ Distinct(s)
               /\ DOMAIN s = 1 .. Len(s) /\ Len(s) \in Nat
               /\ \A i, j \in DOMAIN s : i < j <=> <<s[i], s[j]>> \in PreferredOrder(serving)
<1> DEFINE B == ToSet(serving)
           R == PreferredOrder(serving)
           s == Preferred(serving)
<1>1. s = InOrder(B, R)
  BY DEF Preferred, PreferredOrder
<1>2. StrictOrder(R, B) /\ IsFiniteSet(B) /\ B \subseteq S
  BY PreferredOrdered, ToSetProperties
<1> HIDE DEF B, R, s
<1>3. /\ Cardinality(B) \in Nat
      /\ s \in Seq(B) /\ Len(s) = Cardinality(B)
      /\ DOMAIN s = 1 .. Cardinality(B)
      /\ \A k \in 1 .. Cardinality(B) : s[k] \in B
      /\ \A i, j \in 1 .. Cardinality(B) : i < j <=> <<s[i], s[j]>> \in R
      /\ \A i, j \in 1 .. Cardinality(B) : s[i] = s[j] => i = j
  BY <1>1, <1>2, InOrderProperties
<1>4. \A x \in B : \E k \in 1 .. Cardinality(B) : s[k] = x
  BY <1>1, <1>2, InOrderProperties
<1>5. ToSet(s) = B
  BY <1>3, <1>4 DEF ToSet
<1>6. s \in Seq(S)
  BY <1>2, <1>3, SeqMonotonic
<1> QED  BY <1>1, <1>3, <1>5, <1>6 DEF B, R, s, Distinct

(* The first of a sequence, if any.                                        *)
LEMMA FirstProperties ==
    ASSUME NEW S, NEW s \in Seq(S)
    PROVE  /\ First(s) \in Seq(S) /\ ToSet(First(s)) \subseteq ToSet(s) /\ Distinct(First(s))
           /\ DOMAIN First(s) \subseteq {1}
           /\ s # <<>> => DOMAIN First(s) = {1} /\ First(s)[1] = s[1] /\ 1 \in DOMAIN s
<1>1. CASE s = <<>>
  BY <1>1 DEF First, ToSet, Distinct
<1>2. CASE s # <<>>
  <2>1. First(s) = <<s[1]>>
    BY <1>2 DEF First
  <2>2. 1 \in DOMAIN s /\ s[1] \in S
    <3>1. Len(s) \in Nat \ {0} /\ DOMAIN s = 1 .. Len(s)
      BY <1>2, EmptySeq, LenProperties
    <3>2. 1 \in 1 .. Len(s)
      BY <3>1
    <3> QED  BY <3>1, <3>2, ElementOfSeq
  <2>3. First(s) \in Seq(S) /\ DOMAIN First(s) = {1} /\ First(s)[1] = s[1]
    BY <2>1, <2>2
  <2>4. ToSet(First(s)) \subseteq ToSet(s)
    BY <2>2, <2>3 DEF ToSet
  <2>5. Distinct(First(s))
    BY <2>3 DEF Distinct
  <2> QED  BY <2>2, <2>3, <2>4, <2>5
<1> QED  BY <1>1, <1>2

(* The accounts asked for a pinned model are its backend's, and speak.     *)
LEMMA PinnedAccountsType ==
    ASSUME Asked, NEW b \in DOMAIN world.at, NEW model
    PROVE  LET s == PinnedAccounts(b, model)
           IN  /\ s \in Seq(STRING) /\ DOMAIN s = 1 .. Len(s) /\ Len(s) \in Nat
               /\ \A j \in DOMAIN s : s[j] \in ToSet(At(b).accounts) /\ Speaks(b, s[j], model)
               /\ DistinctAccounts => Distinct(s)
               /\ SingleChoice => DOMAIN s \subseteq {1}
<1> DEFINE set == {a \in ToSet(At(b).accounts) : Speaks(b, a, model)}
           spoken == Kept(At(b).accounts, set)
           s == PinnedAccounts(b, model)
<1>1. At(b).accounts \in Seq(STRING)
  BY WorldType DEF Asked
<1>2. /\ spoken \in Seq(STRING) /\ ToSet(spoken) \subseteq set
      /\ Distinct(At(b).accounts) => Distinct(spoken)
  <2> HIDE DEF set
  <2> QED  BY <1>1, KeptProperties, KeptMembers DEF Distinct
<1>3. s = IF SingleChoice THEN First(spoken) ELSE spoken
  BY DEF PinnedAccounts
<1>4. DistinctAccounts => Distinct(At(b).accounts)
  BY DEF DistinctAccounts, Asked, At, Distinct
<1> HIDE DEF s, spoken
<1>5. /\ s \in Seq(STRING) /\ ToSet(s) \subseteq set
      /\ DistinctAccounts => Distinct(s)
      /\ SingleChoice => DOMAIN s \subseteq {1}
  BY <1>2, <1>3, <1>4, FirstProperties
<1>6. DOMAIN s = 1 .. Len(s) /\ Len(s) \in Nat
  BY <1>5, LenProperties
<1>7. \A j \in DOMAIN s : s[j] \in set
  BY <1>5 DEF ToSet
<1> QED  BY <1>5, <1>6, <1>7 DEF s
\* Backends that may be asked for a model, each once.
Reachable(model, chosen) ==
    /\ chosen \in Seq(DOMAIN world.at) /\ Distinct(chosen)
    /\ \A i \in DOMAIN chosen : chosen[i] \in ToSet(world.backends) /\ model \in Reached(chosen[i])
    /\ model \in DOMAIN world.catalogue

(* A pinned candidate is an account of a chosen backend, in its place.     *)
LEMMA PinnedMember ==
    ASSUME NEW model, NEW chosen, NEW c \in PinnedSet(model, chosen)
    PROVE  \E i \in DOMAIN chosen : \E j \in DOMAIN PinnedAccounts(chosen[i], model) :
             c = PinnedCandidate(chosen[i], PinnedAccounts(chosen[i], model)[j], model, i, j)
<1>1. PICK i \in DOMAIN chosen : c \in Image(PinnedRow(model, chosen, i))
  BY DEF PinnedSet, PinnedRows, Image
<1>2. PICK j \in DOMAIN PinnedRow(model, chosen, i) : c = PinnedRow(model, chosen, i)[j]
  BY <1>1 DEF Image
<1>3. j \in DOMAIN PinnedAccounts(chosen[i], model)
  BY <1>2 DEF PinnedRow
<1>4. c = PinnedCandidate(chosen[i], PinnedAccounts(chosen[i], model)[j], model, i, j)
  BY <1>2, <1>3 DEF PinnedRow
<1> QED  BY <1>3, <1>4

(* What is planned for a pinned model is the set of all of them, sorted.   *)
LEMMA PinnedSorted ==
    ASSUME NEW model, NEW chosen
    PROVE  PinnedCandidates(model, chosen) = Sorted(PinnedSet(model, chosen))
<1> DEFINE Row(i) == {PinnedCandidate(chosen[i], PinnedAccounts(chosen[i], model)[j], model, i, j)
                        : j \in DOMAIN PinnedAccounts(chosen[i], model)}
<1>1. \A i \in DOMAIN chosen : PinnedRows(model, chosen)[i] = Row(i)
  BY DEF PinnedRows, PinnedRow, Image
<1>2. DOMAIN PinnedRows(model, chosen) = DOMAIN chosen
  BY DEF PinnedRows
<1> HIDE DEF Row
<1>3. Image(PinnedRows(model, chosen)) = {Row(i) : i \in DOMAIN chosen}
  BY <1>1, <1>2 DEF Image
<1>4. PinnedSet(model, chosen) = UNION {Row(i) : i \in DOMAIN chosen}
  BY <1>3 DEF PinnedSet
<1> QED  BY <1>4 DEF Row, PinnedCandidates

(* Pinned candidates are ranked by health and then by their place.         *)
LEMMA PinnedRanked ==
    ASSUME Asked, Stored, NEW model, NEW chosen, Reachable(model, chosen)
    PROVE  /\ Ranked(PinnedSet(model, chosen), 4)
           /\ \A c \in PinnedSet(model, chosen) : c.rank[1] = Bit(store[c.key].cooling)
<1> DEFINE P == PinnedSet(model, chosen)
           Acc(i) == PinnedAccounts(chosen[i], model)
<1>1. ASSUME NEW i \in DOMAIN chosen
      PROVE  /\ i \in Int /\ chosen[i] \in DOMAIN world.at
             /\ DOMAIN Acc(i) = 1 .. Len(Acc(i)) /\ Len(Acc(i)) \in Nat
             /\ \A j \in DOMAIN Acc(i) : Acc(i)[j] \in ToSet(At(chosen[i]).accounts)
  <2>1. chosen[i] \in DOMAIN world.at /\ i \in Int
    <3>1. DOMAIN chosen = 1 .. Len(chosen) /\ Len(chosen) \in Nat
      BY LenProperties DEF Reachable
    <3>2. chosen[i] \in DOMAIN world.at
      BY <3>1, ElementOfSeq DEF Reachable
    <3> QED  BY <3>1, <3>2
  <2>2. /\ DOMAIN Acc(i) = 1 .. Len(Acc(i)) /\ Len(Acc(i)) \in Nat
        /\ \A j \in DOMAIN Acc(i) : Acc(i)[j] \in ToSet(At(chosen[i]).accounts)
    BY <2>1, PinnedAccountsType
  <2> QED  BY <2>1, <2>2
<1>2. ASSUME NEW i \in DOMAIN chosen, NEW j \in DOMAIN Acc(i), NEW c,
             c = PinnedCandidate(chosen[i], Acc(i)[j], model, i, j)
      PROVE  /\ c.rank \in Tuples(4) /\ c.rank[3] = i /\ c.rank[4] = j
             /\ c.rank[1] = Bit(store[c.key].cooling)
  <2> DEFINE k == Key(chosen[i], Acc(i)[j], model)
  <2>1. chosen[i] \in ToSet(world.backends) /\ model \in Reached(chosen[i])
    BY DEF Reachable
  <2>2. Acc(i)[j] \in ToSet(At(chosen[i]).accounts) /\ i \in Int /\ j \in Int
    BY <1>1
  <2>3. k \in DOMAIN store
    BY <2>1, <2>2 DEF Stored
  <2>4. c.key = k /\ c.rank = <<Bit(store[k].cooling), -Score(k), i, j>>
    BY <1>2 DEF PinnedCandidate
  <2> HIDE DEF k
  <2>5. Bit(store[k].cooling) \in Int /\ -Score(k) \in Int
    BY <2>3, HealthType
  <2>6. ASSUME NEW p \in Int, NEW q \in Int, NEW r \in Int, NEW s \in Int
        PROVE  /\ <<p, q, r, s>> \in Tuples(4) /\ <<p, q, r, s>>[1] = p
               /\ <<p, q, r, s>>[3] = r /\ <<p, q, r, s>>[4] = s
    BY DEF Tuples
  <2> QED  BY <2>2, <2>4, <2>5, <2>6
<1>3. IsFiniteSet(P)
  <2> DEFINE f == PinnedRows(model, chosen)
  <2>1. DOMAIN f = DOMAIN chosen
    BY DEF PinnedRows
  <2>2. IsFiniteSet(DOMAIN chosen)
    <3>1. DOMAIN chosen = 1 .. Len(chosen) /\ Len(chosen) \in Nat
      BY LenProperties DEF Reachable
    <3> QED  BY <3>1, FS_Interval
  <2>3. ASSUME NEW i \in DOMAIN chosen  PROVE IsFiniteSet(f[i])
    <3>1. DOMAIN PinnedRow(model, chosen, i) = 1 .. Len(Acc(i)) /\ Len(Acc(i)) \in Nat
      BY <1>1 DEF PinnedRow
    <3>2. IsFiniteSet(DOMAIN PinnedRow(model, chosen, i))
      BY <3>1, FS_Interval
    <3>3. IsFiniteSet(Image(PinnedRow(model, chosen, i)))
      BY <3>2, ImageFinite DEF Image
    <3> QED  BY <3>3 DEF PinnedRows
  <2> HIDE DEF f
  <2>4. IsFiniteSet(UNION Image(f))
    BY <2>1, <2>2, <2>3, FamilyFinite
  <2> QED  BY <2>4 DEF f, PinnedSet
<1>4. \A c \in P : c.rank \in Tuples(4) /\ c.rank[1] = Bit(store[c.key].cooling)
  <2> SUFFICES ASSUME NEW c \in P
               PROVE  c.rank \in Tuples(4) /\ c.rank[1] = Bit(store[c.key].cooling)
    OBVIOUS
  <2>1. PICK i \in DOMAIN chosen : \E j \in DOMAIN Acc(i) :
               c = PinnedCandidate(chosen[i], Acc(i)[j], model, i, j)
    BY PinnedMember
  <2> QED  BY <1>2, <2>1
<1>5. ASSUME NEW c \in P, NEW d \in P, c.rank = d.rank  PROVE c = d
  <2>1. PICK i \in DOMAIN chosen : \E j \in DOMAIN Acc(i) :
               c = PinnedCandidate(chosen[i], Acc(i)[j], model, i, j)
    BY PinnedMember
  <2>2. PICK j \in DOMAIN Acc(i) : c = PinnedCandidate(chosen[i], Acc(i)[j], model, i, j)
    BY <2>1
  <2>3. PICK g \in DOMAIN chosen : \E h \in DOMAIN Acc(g) :
               d = PinnedCandidate(chosen[g], Acc(g)[h], model, g, h)
    BY PinnedMember
  <2>4. PICK h \in DOMAIN Acc(g) : d = PinnedCandidate(chosen[g], Acc(g)[h], model, g, h)
    BY <2>3
  <2>5. c.rank[3] = i /\ c.rank[4] = j /\ d.rank[3] = g /\ d.rank[4] = h
    BY <1>2, <2>2, <2>4
  <2>6. i = g /\ j = h
    BY <1>5, <2>5
  <2> QED  BY <2>2, <2>4, <2>6
<1> HIDE DEF P
<1> QED  BY <1>3, <1>4, <1>5 DEF P, Ranked

(* A pinned candidate is of the model and of a chosen backend, and speaks. *)
LEMMA PinnedFacts ==
    ASSUME Asked, NEW model, NEW chosen, Reachable(model, chosen), NEW c \in PinnedSet(model, chosen)
    PROVE  /\ c.kind = "pinned" /\ c.key # <<>> /\ c.key[3] = model /\ c.estimate = Limits(model).price
           /\ c.key[1] \in ToSet(chosen) /\ Speaks(c.key[1], c.key[2], model)
<1>1. PICK i \in DOMAIN chosen : \E j \in DOMAIN PinnedAccounts(chosen[i], model) :
             c = PinnedCandidate(chosen[i], PinnedAccounts(chosen[i], model)[j], model, i, j)
  BY PinnedMember
<1> DEFINE s == PinnedAccounts(chosen[i], model)
<1>2. PICK j \in DOMAIN s : c = PinnedCandidate(chosen[i], s[j], model, i, j)
  BY <1>1
<1>3. chosen[i] \in DOMAIN world.at
  BY LenProperties, ElementOfSeq DEF Reachable
<1>4. Speaks(chosen[i], s[j], model)
  BY <1>3, PinnedAccountsType
<1> HIDE DEF s
<1>5. c.kind = "pinned" /\ c.estimate = Limits(model).price /\ c.key = <<chosen[i], s[j], model>>
  BY <1>2 DEF PinnedCandidate, Key
<1>6. c.key[1] = chosen[i] /\ c.key[2] = s[j] /\ c.key[3] = model /\ c.key # <<>>
  BY <1>5
<1>7. chosen[i] \in ToSet(chosen)
  BY DEF ToSet
<1> QED  BY <1>4, <1>5, <1>6, <1>7

(* No two pinned candidates are for one account.                           *)
LEMMA PinnedKeys ==
    ASSUME Asked, DistinctAccounts, NEW model, NEW chosen, Reachable(model, chosen),
           NEW c \in PinnedSet(model, chosen), NEW d \in PinnedSet(model, chosen), c.key = d.key
    PROVE  c = d
<1> DEFINE Acc(i) == PinnedAccounts(chosen[i], model)
<1>1. PICK i \in DOMAIN chosen : \E j \in DOMAIN Acc(i) :
             c = PinnedCandidate(chosen[i], Acc(i)[j], model, i, j)
  BY PinnedMember
<1>2. PICK j \in DOMAIN Acc(i) : c = PinnedCandidate(chosen[i], Acc(i)[j], model, i, j)
  BY <1>1
<1>3. PICK g \in DOMAIN chosen : \E h \in DOMAIN Acc(g) :
             d = PinnedCandidate(chosen[g], Acc(g)[h], model, g, h)
  BY PinnedMember
<1>4. PICK h \in DOMAIN Acc(g) : d = PinnedCandidate(chosen[g], Acc(g)[h], model, g, h)
  BY <1>3
<1> DEFINE a == Acc(i)[j]
           b == Acc(g)[h]
           k == c.key
<1>5. k = <<chosen[i], a, model>> /\ k = <<chosen[g], b, model>>
  BY <1>2, <1>4 DEF PinnedCandidate, Key
<1> HIDE DEF a, b, k
<1>6. chosen[i] = chosen[g] /\ a = b
  <2>1. k[1] = chosen[i] /\ k[2] = a /\ k[1] = chosen[g] /\ k[2] = b
    BY <1>5
  <2> QED  BY <2>1
<1>7. i = g
  BY <1>6 DEF Reachable, Distinct
<1>8. chosen[i] \in DOMAIN world.at
  BY LenProperties, ElementOfSeq DEF Reachable
<1>9. Distinct(Acc(i))
  BY <1>8, PinnedAccountsType
<1>10. j = h
  BY <1>6, <1>7, <1>9 DEF Distinct, a, b
<1> QED  BY <1>2, <1>4, <1>7, <1>10

(* With a single choice there is at most one.                              *)
LEMMA PinnedSingle ==
    ASSUME Asked, SingleChoice, NEW model, NEW chosen, Reachable(model, chosen), DOMAIN chosen \subseteq {1},
           NEW c \in PinnedSet(model, chosen), NEW d \in PinnedSet(model, chosen)
    PROVE  c = d /\ 1 \in DOMAIN chosen /\ c.key[1] = chosen[1]
<1> DEFINE Acc(i) == PinnedAccounts(chosen[i], model)
<1>1. PICK i \in DOMAIN chosen : \E j \in DOMAIN Acc(i) :
             c = PinnedCandidate(chosen[i], Acc(i)[j], model, i, j)
  BY PinnedMember
<1>2. PICK j \in DOMAIN Acc(i) : c = PinnedCandidate(chosen[i], Acc(i)[j], model, i, j)
  BY <1>1
<1>3. PICK g \in DOMAIN chosen : \E h \in DOMAIN Acc(g) :
             d = PinnedCandidate(chosen[g], Acc(g)[h], model, g, h)
  BY PinnedMember
<1>4. PICK h \in DOMAIN Acc(g) : d = PinnedCandidate(chosen[g], Acc(g)[h], model, g, h)
  BY <1>3
<1>5. i = 1 /\ g = 1
  OBVIOUS
<1>6. chosen[1] \in DOMAIN world.at
  BY <1>5, LenProperties, ElementOfSeq DEF Reachable
<1>7. DOMAIN Acc(1) \subseteq {1}
  BY <1>6, PinnedAccountsType
<1>8. j = 1 /\ h = 1
  BY <1>5, <1>7
<1>9. c = d
  BY <1>2, <1>4, <1>5, <1>8
<1>10. c.key[1] = chosen[1]
  BY <1>2, <1>5 DEF PinnedCandidate, Key
<1> QED  BY <1>5, <1>9, <1>10
(* The pinned part of a plan: no account twice, those cooling down last,   *)
(* and one candidate when there is a single choice.                        *)
LEMMA PinnedListed ==
    ASSUME Asked, Stored, NEW model, NEW chosen, Reachable(model, chosen)
    PROVE  LET s == PinnedCandidates(model, chosen)
               P == PinnedSet(model, chosen)
           IN  /\ s \in Seq(P) /\ ToSet(s) = P /\ Len(s) \in Nat /\ DOMAIN s = 1 .. Len(s)
               /\ \A i \in DOMAIN s : s[i] \in P
               /\ Distinct(s) /\ Sinking(s)
               /\ SingleChoice /\ DOMAIN chosen \subseteq {1} => Len(s) <= 1
<1> DEFINE P == PinnedSet(model, chosen)
           s == PinnedCandidates(model, chosen)
           n == 4
<1>1. s = Sorted(P)
  BY PinnedSorted
<1>2. /\ Ranked(P, n) /\ n \in Nat /\ n # 0
      /\ \A c \in P : c.rank[1] = Bit(store[c.key].cooling)
  BY PinnedRanked
<1>3. SingleChoice /\ DOMAIN chosen \subseteq {1} => \A c, d \in P : c = d
  BY PinnedSingle
<1> HIDE DEF P, s, n
<1>4. /\ s \in Seq(P) /\ ToSet(s) = P /\ Len(s) \in Nat /\ Distinct(s)
      /\ DOMAIN s = 1 .. Len(s)
      /\ \A i, j \in DOMAIN s : i < j <=> Lex(s[i].rank, s[j].rank)
  BY <1>1, <1>2, SortedProperties DEF Distinct
<1>5. \A i \in DOMAIN s : s[i] \in P
  BY <1>4 DEF ToSet
<1>6. Sinking(s)
  <2> SUFFICES ASSUME NEW i \in DOMAIN s, NEW j \in DOMAIN s, i < j, store[s[i].key].cooling
               PROVE  store[s[j].key].cooling
    BY DEF Sinking
  <2>1. s[i] \in P /\ s[j] \in P /\ Lex(s[i].rank, s[j].rank)
    BY <1>4, <1>5
  <2>2. s[i].rank \in Tuples(n) /\ s[j].rank \in Tuples(n)
    BY <1>2, <2>1 DEF Ranked
  <2>3. s[i].rank[1] <= s[j].rank[1]
    BY <1>2, <2>1, <2>2, LexHead
  <2>4. Bit(store[s[i].key].cooling) <= Bit(store[s[j].key].cooling)
    BY <1>2, <2>1, <2>3
  <2> QED  BY <2>4 DEF Bit
<1>7. ASSUME SingleChoice, DOMAIN chosen \subseteq {1}  PROVE Len(s) <= 1
  <2> SUFFICES ASSUME ~ (Len(s) <= 1)  PROVE FALSE
    OBVIOUS
  <2>1. 1 \in DOMAIN s /\ 2 \in DOMAIN s
    BY <1>4
  <2>2. s[1] = s[2]
    BY <1>3, <1>5, <1>7, <2>1
  <2> QED  BY <1>4, <2>1, <2>2 DEF Distinct
<1> QED  BY <1>4, <1>5, <1>6, <1>7 DEF P, s

---------------------------------------------------------------------------
(* The replacement comes first *)

Split(s, set) == Kept(s, set) \o Kept(s, ToSet(s) \ set)
Origin(s, set) ==
    [k \in DOMAIN Split(s, set) |->
        IF k <= Len(Kept(s, set)) THEN From(s, set)[k]
        ELSE From(s, ToSet(s) \ set)[k - Len(Kept(s, set))]]

(* Splitting a sequence keeps its members, each once, first those in the   *)
(* set, and the order on either side.                                      *)
LEMMA SplitProperties ==
    ASSUME NEW S, NEW s \in Seq(S), NEW set
    PROVE  LET r == Split(s, set)
               g == Origin(s, set)
           IN  /\ r \in Seq(S) /\ Len(r) \in Nat /\ DOMAIN r = 1 .. Len(r)
               /\ \A k \in DOMAIN r : g[k] \in DOMAIN s /\ r[k] = s[g[k]]
               /\ \A i, j \in DOMAIN r : i < j /\ (r[i] \in set <=> r[j] \in set) => g[i] < g[j]
               /\ \A i, j \in DOMAIN r : i < j /\ r[j] \in set => r[i] \in set
               /\ \A i, j \in DOMAIN r : g[i] = g[j] => i = j
<1> DEFINE rest == ToSet(s) \ set
           a == Kept(s, set)
           b == Kept(s, rest)
           r == Split(s, set)
           g == Origin(s, set)
           m == Len(a)
           n == Len(b)
<1> HIDE DEF rest
<1>1. /\ a \in Seq(S) /\ m \in Nat /\ DOMAIN a = 1 .. m
      /\ \A k \in 1 .. m : /\ From(s, set)[k] \in DOMAIN s /\ From(s, set)[k] \in Int
                           /\ a[k] = s[From(s, set)[k]] /\ a[k] \in set
      /\ \A k, l \in 1 .. m : k < l <=> From(s, set)[k] < From(s, set)[l]
  BY KeptProperties
<1>2. /\ b \in Seq(S) /\ n \in Nat /\ DOMAIN b = 1 .. n
      /\ \A k \in 1 .. n : /\ From(s, rest)[k] \in DOMAIN s /\ From(s, rest)[k] \in Int
                           /\ b[k] = s[From(s, rest)[k]] /\ b[k] \in rest
      /\ \A k, l \in 1 .. n : k < l <=> From(s, rest)[k] < From(s, rest)[l]
  BY KeptProperties
<1>3. r = a \o b
  BY DEF Split, rest
<1>4. g = [k \in DOMAIN r |-> IF k <= m THEN From(s, set)[k] ELSE From(s, rest)[k - m]]
  BY DEF Origin, rest
<1>5. \A x \in rest : x \notin set
  BY DEF rest
<1> DEFINE f == From(s, set)
           h == From(s, rest)
<1> HIDE DEF a, b, r, g, m, n, f, h
<1>6. /\ r \in Seq(S) /\ Len(r) = m + n
      /\ \A i \in 1 .. m + n : r[i] = IF i <= m THEN a[i] ELSE b[i - m]
  BY <1>1, <1>2, <1>3, ConcatProperties DEF m, n
<1>7. m + n \in Nat /\ DOMAIN r = 1 .. m + n
  BY <1>1, <1>2, <1>6, LenProperties
<1>8. ASSUME NEW k \in 1 .. m
      PROVE  /\ k \in DOMAIN r /\ g[k] = f[k] /\ f[k] \in DOMAIN s /\ f[k] \in Int
             /\ r[k] = s[f[k]] /\ r[k] \in set
  <2>1. k \in 1 .. m + n /\ k <= m
    BY <1>1, <1>2
  <2> QED  BY <1>1, <1>4, <1>6, <1>7, <2>1 DEF f
<1>9. ASSUME NEW k \in 1 .. m + n, ~ (k <= m)
      PROVE  /\ k - m \in 1 .. n /\ g[k] = h[k - m] /\ h[k - m] \in DOMAIN s /\ h[k - m] \in Int
             /\ r[k] = s[h[k - m]] /\ r[k] \notin set
  <2>1. k - m \in 1 .. n
    BY <1>1, <1>2, <1>9
  <2>2. b[k - m] = s[h[k - m]] /\ b[k - m] \in rest /\ h[k - m] \in DOMAIN s /\ h[k - m] \in Int
    BY <1>2, <2>1 DEF h
  <2>3. g[k] = h[k - m] /\ r[k] = b[k - m]
    BY <1>4, <1>6, <1>7, <1>9 DEF h
  <2> QED  BY <1>5, <2>1, <2>2, <2>3
<1>10. ASSUME NEW i \in 1 .. m + n, NEW j \in 1 .. m + n, i < j
       PROVE  /\ (r[i] \in set <=> r[j] \in set) => g[i] < g[j]
              /\ r[j] \in set => r[i] \in set
  <2>1. CASE j <= m
    <3>1. i \in 1 .. m /\ j \in 1 .. m
      BY <1>1, <1>2, <1>10, <2>1
    <3>2. f[i] < f[j]
      BY <1>1, <1>10, <3>1 DEF f
    <3> QED  BY <1>8, <3>1, <3>2
  <2>2. CASE ~ (j <= m) /\ i <= m
    <3>1. i \in 1 .. m
      BY <1>1, <1>2, <2>2
    <3> QED  BY <1>8, <1>9, <2>2, <3>1
  <2>3. CASE ~ (i <= m)
    <3>1. ~ (j <= m)
      BY <1>1, <1>2, <1>10, <2>3
    <3>2. i - m \in 1 .. n /\ j - m \in 1 .. n /\ i - m < j - m
      BY <1>1, <1>2, <1>9, <1>10, <2>3, <3>1
    <3>3. h[i - m] < h[j - m]
      BY <1>2, <3>2 DEF h
    <3> QED  BY <1>9, <2>3, <3>1, <3>3
  <2> QED  BY <2>1, <2>2, <2>3
<1>11. \A k \in 1 .. m + n : g[k] \in DOMAIN s /\ g[k] \in Int /\ r[k] = s[g[k]]
  <2> SUFFICES ASSUME NEW k \in 1 .. m + n  PROVE g[k] \in DOMAIN s /\ g[k] \in Int /\ r[k] = s[g[k]]
    OBVIOUS
  <2>1. CASE k <= m
    <3>1. k \in 1 .. m
      BY <1>1, <1>2, <2>1
    <3> QED  BY <1>8, <3>1
  <2>2. CASE ~ (k <= m)
    BY <1>9, <2>2
  <2> QED  BY <2>1, <2>2
<1>12. ASSUME NEW i \in 1 .. m + n, NEW j \in 1 .. m + n, g[i] = g[j]  PROVE i = j
  <2>1. r[i] = r[j]
    BY <1>11, <1>12
  <2>2. ~ (g[i] < g[j]) /\ ~ (g[j] < g[i])
    BY <1>11, <1>12
  <2>3. ~ (i < j) /\ ~ (j < i)
    BY <1>10, <2>1, <2>2
  <2> QED  BY <1>7, <2>3
<1> QED  BY <1>6, <1>7, <1>10, <1>11, <1>12 DEF r, g
Mark(c, successor) ==
    IF successor # Unset /\ c.key[3] = successor THEN [c EXCEPT !.kind = "replacement"] ELSE c
MarkedAll(others, successor) == [i \in DOMAIN others |-> Mark(others[i], successor)]
Replacing(others, successor) == {c \in ToSet(MarkedAll(others, successor)) : c.kind = "replacement"}
KindOf(model, successor) == IF successor # Unset /\ model = successor THEN "replacement" ELSE "auto"

(* Marking a replacement changes its kind alone.                           *)
LEMMA MarkFacts ==
    ASSUME Asked, Stored, room \in 0 .. NoBudget, NEW except, NEW c \in AutoSet(except), NEW successor
    PROVE  LET d == Mark(c, successor)
           IN  /\ d.key = c.key /\ d.estimate = c.estimate /\ d.kind = KindOf(c.key[3], successor)
               /\ Allowed(d) /\ d.key[3] # except
<1> DEFINE d == Mark(c, successor)
<1>1. /\ c.kind = "auto" /\ c.key[3] # except /\ Allowed(c)
      /\ DOMAIN c = {"key", "kind", "estimate", "rank"}
  BY AutoMember
<1>2. /\ d.key = c.key /\ d.estimate = c.estimate /\ d.kind = KindOf(c.key[3], successor)
  <2>1. c = [i \in DOMAIN c |-> c[i]]
    <3>1. c = [key |-> c.key, kind |-> c.kind, estimate |-> c.estimate, rank |-> c.rank]
      BY AutoMember
    <3> QED  BY <3>1
  <2>2. CASE successor # Unset /\ c.key[3] = successor
    <3>1. d = [c EXCEPT !.kind = "replacement"]
      BY <2>2 DEF Mark
    <3> HIDE DEF d
    <3>2. d.key = c.key /\ d.estimate = c.estimate /\ d.kind = "replacement"
      BY <1>1, <3>1
    <3> QED  BY <2>2, <3>2 DEF KindOf
  <2>3. CASE ~ (successor # Unset /\ c.key[3] = successor)
    BY <1>1, <2>3 DEF Mark, KindOf
  <2> QED  BY <2>2, <2>3
<1> HIDE DEF d
<1>3. Allowed(d)
  BY <1>1, <1>2 DEF Allowed
<1> QED  BY <1>1, <1>2, <1>3 DEF d

(* Behind the pinned model come its replacement and then the others, each  *)
(* once, every candidate allowed and those cooling down last of their kind.*)
LEMMA ReplacementListed ==
    ASSUME Asked, Stored, room \in 0 .. NoBudget, NEW except, NEW successor,
           NEW others \in Seq(AutoSet(except)), Distinct(others), Sinking(others)
    PROVE  LET r == ReplacementFirst(others, successor)
           IN  /\ r \in Seq(ToSet(r)) /\ Len(r) \in Nat /\ DOMAIN r = 1 .. Len(r)
               /\ \A k \in DOMAIN r : /\ Allowed(r[k]) /\ r[k].key[3] # except
                                      /\ r[k].kind = KindOf(r[k].key[3], successor)
               /\ DistinctAccounts => DistinctKeys(r)
               /\ \A i, j \in DOMAIN r :
                     i < j /\ r[i].kind = r[j].kind /\ store[r[i].key].cooling => store[r[j].key].cooling
               /\ \A i, j \in DOMAIN r : i < j /\ r[j].kind = "replacement" => r[i].kind = "replacement"
               /\ others = <<>> => r = <<>>
<1> DEFINE s == MarkedAll(others, successor)
           set == Replacing(others, successor)
           r == ReplacementFirst(others, successor)
           g == Origin(s, set)
           T == ToSet(s)
<1>1. r = Split(s, set)
  BY DEF ReplacementFirst, MarkedAll, Mark, Replacing, Split
<1>2. /\ Len(others) \in Nat /\ DOMAIN others = 1 .. Len(others)
      /\ \A i \in DOMAIN others : others[i] \in AutoSet(except)
  BY LenProperties, ElementOfSeq
<1>3. /\ DOMAIN s = DOMAIN others
      /\ \A i \in DOMAIN s : /\ s[i] = Mark(others[i], successor) /\ s[i] \in T
                             /\ s[i].key = others[i].key
                             /\ s[i].kind = KindOf(s[i].key[3], successor)
                             /\ Allowed(s[i]) /\ s[i].key[3] # except
  <2>1. DOMAIN s = DOMAIN others
    BY DEF MarkedAll
  <2> SUFFICES ASSUME NEW i \in DOMAIN s
               PROVE  /\ s[i] = Mark(others[i], successor) /\ s[i] \in T
                      /\ s[i].key = others[i].key
                      /\ s[i].kind = KindOf(s[i].key[3], successor)
                      /\ Allowed(s[i]) /\ s[i].key[3] # except
    BY <2>1
  <2>2. s[i] = Mark(others[i], successor) /\ s[i] \in T
    BY <2>1 DEF MarkedAll, ToSet
  <2>3. others[i] \in AutoSet(except)
    BY <1>2, <2>1
  <2> HIDE DEF s
  <2>4. /\ s[i].key = others[i].key
        /\ s[i].kind = KindOf(others[i].key[3], successor)
        /\ Allowed(s[i]) /\ s[i].key[3] # except
    BY <2>2, <2>3, MarkFacts
  <2> QED  BY <2>2, <2>4
<1>4. s \in Seq(T)
  <2>1. s \in [1 .. Len(others) -> T]
    <3>1. s = [i \in 1 .. Len(others) |-> Mark(others[i], successor)]
      BY <1>2 DEF MarkedAll
    <3> HIDE DEF s
    <3> QED  BY <1>2, <1>3, <3>1
  <2> HIDE DEF s, T
  <2> QED  BY <1>2, <2>1, SeqDef
<1>5. \A i \in DOMAIN s : s[i] \in set <=> s[i].kind = "replacement"
  BY DEF Replacing, ToSet
<1> HIDE DEF s, set, r, g, T
<1>6. /\ r \in Seq(T) /\ Len(r) \in Nat /\ DOMAIN r = 1 .. Len(r)
      /\ \A k \in DOMAIN r : g[k] \in DOMAIN s /\ r[k] = s[g[k]]
      /\ \A i, j \in DOMAIN r : i < j /\ (r[i] \in set <=> r[j] \in set) => g[i] < g[j]
      /\ \A i, j \in DOMAIN r : i < j /\ r[j] \in set => r[i] \in set
      /\ \A i, j \in DOMAIN r : g[i] = g[j] => i = j
  BY <1>1, <1>4, SplitProperties DEF g
<1>7. r \in Seq(ToSet(r))
  BY <1>6, ToSetProperties
<1>8. ASSUME NEW k \in DOMAIN r
      PROVE  /\ Allowed(r[k]) /\ r[k].key[3] # except
             /\ r[k].kind = KindOf(r[k].key[3], successor)
             /\ r[k] \in set <=> r[k].kind = "replacement"
             /\ g[k] \in DOMAIN others /\ r[k].key = others[g[k]].key
  BY <1>3, <1>5, <1>6
<1>9. ASSUME DistinctAccounts  PROVE DistinctKeys(r)
  <2> SUFFICES ASSUME NEW i \in DOMAIN r, NEW j \in DOMAIN r, r[i].key = r[j].key  PROVE i = j
    BY DEF DistinctKeys
  <2>1. others[g[i]].key = others[g[j]].key /\ g[i] \in DOMAIN others /\ g[j] \in DOMAIN others
    BY <1>8
  <2>2. others[g[i]] = others[g[j]]
    BY <1>2, <1>9, <2>1, AutoKeys
  <2>3. g[i] = g[j]
    BY <2>1, <2>2 DEF Distinct
  <2> QED  BY <1>6, <2>3
<1>10. ASSUME NEW i \in DOMAIN r, NEW j \in DOMAIN r, i < j, r[i].kind = r[j].kind, store[r[i].key].cooling
       PROVE  store[r[j].key].cooling
  <2>1. g[i] < g[j]
    BY <1>6, <1>8, <1>10
  <2>2. /\ g[i] \in DOMAIN others /\ r[i].key = others[g[i]].key
        /\ g[j] \in DOMAIN others /\ r[j].key = others[g[j]].key
    BY <1>8
  <2> QED  BY <1>10, <2>1, <2>2 DEF Sinking
<1>11. \A i, j \in DOMAIN r : i < j /\ r[j].kind = "replacement" => r[i].kind = "replacement"
  BY <1>6, <1>8
<1>12. ASSUME others = <<>>  PROVE r = <<>>
  <2> SUFFICES ASSUME r # <<>>  PROVE FALSE
    OBVIOUS
  <2>1. Len(r) # 0
    BY <1>6, EmptySeq
  <2>2. 1 \in DOMAIN r
    BY <1>6, <2>1
  <2>3. g[1] \in DOMAIN others
    BY <1>8, <2>2
  <2> QED  BY <1>12, <2>3
<1> QED  BY <1>6, <1>7, <1>8, <1>9, <1>10, <1>11, <1>12 DEF r
---------------------------------------------------------------------------
(* The plan *)

\* What the plan of a create keeps to the end, whatever the plugins do.
CandidatesSound(s) ==
    /\ s \in Seq(ToSet(s))
    /\ \A i \in DOMAIN s : Allowed(s[i])
    /\ DistinctAccounts => DistinctKeys(s)
    /\ request.model # "auto" =>
         /\ \A i \in DOMAIN s : s[i].kind = "pinned" <=> s[i].key[3] = RealModel
         /\ Policy.fallback # "any" => \A i \in DOMAIN s : s[i].key[3] = RealModel
         /\ Policy.fallback = "none" => Len(s) <= 1

\* The pinned model, its replacement, the rest: in this order unless a plugin reorders.
StageOf(c) ==
    IF c.key[3] = RealModel THEN 1 ELSE IF c.key[3] = Limits(RealModel).replacement THEN 2 ELSE 3
StagesOrdered(s) ==
    request.model # "auto" => \A i, j \in DOMAIN s : i < j => StageOf(s[i]) <= StageOf(s[j])
KindsSink(s) ==
    \A i, j \in DOMAIN s : i < j /\ s[i].kind = s[j].kind /\ store[s[i].key].cooling => store[s[j].key].cooling

\* Why a pinned model is not served, if it is not.
WhyUnavailable(unavailable) ==
    IF request.model = "auto" THEN unavailable = Unset
    ELSE unavailable \in {Unset, IF Limits(RealModel).lifecycle = "retired" THEN "model_retired" ELSE "over_budget"}

\* The parts of a pinned plan.
PinBackends == Preferred(Serving(ResolveModelId(request.model)))
PinTagged == Tagged(SpeakingOf(PinBackends, RealModel))
PinnedPart ==
    IF PinnedGate(RealModel) = Unset THEN PinnedCandidates(RealModel, Chosen(PinTagged)) ELSE <<>>
AutoPart ==
    IF Policy.fallback = "any" THEN AutoCandidates(RealModel) ELSE [candidates |-> <<>>, excluded |-> {}]
OtherPart == ReplacementFirst(AutoPart.candidates, Limits(RealModel).replacement)

(* A pinned plan is refused, or made of its two parts.                     *)
LEMMA PlannedPinnedParts ==
    ASSUME NEW raising
    PROVE  PlannedPinned(raising) =
             IF PinBackends = <<>> THEN NoPlan("model_not_found")
             ELSE IF PinTagged = <<>> /\ (Policy.tag # Unset \/ Policy.tags # {})
                  THEN NoPlan("invalid_request_error")
             ELSE PinnedPlan(RealModel, PinnedGate(RealModel), PinnedPart, AutoPart,
                             Mute(PinBackends, RealModel), raising)
<1>1. BackendsServing.model = RealModel /\ BackendsServing.backends = PinBackends
  BY DEF BackendsServing, RealModel, PinBackends
<1> QED  BY <1>1 DEF PlannedPinned, PinTagged, PinnedPart, AutoPart

(* What the parts of a pinned plan come to.                                *)
LEMMA PinnedPlanParts ==
    ASSUME NEW raising, NEW unspoken, NEW S, PinnedPart \in Seq(S), OtherPart \in Seq(S)
    PROVE  LET p == PinnedPlan(RealModel, PinnedGate(RealModel), PinnedPart, AutoPart, unspoken, raising)
           IN  /\ p.candidates = PinnedPart \o OtherPart
               /\ p.unavailable \in {Unset, IF Limits(RealModel).lifecycle = "retired" THEN "model_retired" ELSE "over_budget"}
               /\ p.error = IF PinnedGate(RealModel) = "retired" /\ Policy.fallback # "any" /\ raising
                            THEN "model_retired"
                            ELSE IF p.candidates = <<>> THEN NoCandidateError(p.excluded) ELSE Unset
<1> DEFINE p == PinnedPlan(RealModel, PinnedGate(RealModel), PinnedPart, AutoPart, unspoken, raising)
           gate == PinnedGate(RealModel)
<1>1. p.candidates = PinnedPart \o OtherPart
  BY DEF PinnedPlan, OtherPart
<1>2. p.error = IF gate = "retired" /\ Policy.fallback # "any" /\ raising THEN "model_retired"
                ELSE IF p.candidates = <<>> THEN NoCandidateError(p.excluded) ELSE Unset
  BY DEF PinnedPlan
<1>3. p.unavailable = CASE gate = "retired" -> "model_retired"
                        [] gate \in {Unset, "limits"} -> Unset
                        [] OTHER -> "over_budget"
  BY DEF PinnedPlan
<1>4. gate = IF Limits(RealModel).lifecycle = "retired" THEN "retired"
             ELSE IF request.audio /\ ~Limits(RealModel).fits THEN "limits" ELSE AdmitReason(RealModel)
  BY DEF PinnedGate
<1>5. AdmitReason(RealModel) # "retired"
  BY DEF AdmitReason, Unset
<1> HIDE DEF p, gate
<1>6. gate = "retired" <=> Limits(RealModel).lifecycle = "retired"
  BY <1>4, <1>5
<1> DEFINE none == Unset
<1>7. none # "retired" /\ none # "limits"
  BY DEF Unset
<1>8. p.unavailable = CASE gate = "retired" -> "model_retired"
                        [] gate \in {none, "limits"} -> none
                        [] OTHER -> "over_budget"
  BY <1>3
<1> HIDE DEF none
<1>9. CASE gate = "retired"
  <2>1. gate \notin {none, "limits"}
    BY <1>7, <1>9
  <2>2. p.unavailable = "model_retired"
    BY <1>8, <1>9, <2>1
  <2> QED  BY <1>1, <1>2, <1>6, <1>9, <2>2 DEF p, gate
<1>10. CASE gate # "retired"
  <2>1. p.unavailable \in {none, "over_budget"}
    BY <1>8, <1>10
  <2>2. p.unavailable \in {Unset, "over_budget"}
    BY <2>1 DEF none
  <2> QED  BY <1>1, <1>2, <1>6, <1>10, <2>2 DEF p, gate
<1> QED  BY <1>9, <1>10

(* The backends a pinned create may ask.                                   *)
LEMMA PinReachable ==
    ASSUME Asked, request.model # "auto"
    PROVE  /\ Reachable(RealModel, Chosen(PinTagged))
           /\ SingleChoice => DOMAIN Chosen(PinTagged) \subseteq {1}
           /\ \A b \in ToSet(Chosen(PinTagged)) : TagOk(b)
           /\ PinBackends \in Seq(DOMAIN world.at) /\ PinTagged \in Seq(DOMAIN world.at)
           /\ \A b \in ToSet(PinBackends) : b \in DOMAIN world.at
<1> DEFINE id == ResolveModelId(request.model)
           serves == {b \in ToSet(Usable) : Serves(b, id)}
           serving == Serving(id)
<1>1. Usable \in Seq(DOMAIN world.at) /\ Distinct(Usable) /\ ToSet(Usable) \subseteq ToSet(world.backends)
  BY UsableType DEF Asked
<1>2. serving = Kept(Usable, serves)
  BY DEF Serving
<1>3. serving \in Seq(DOMAIN world.at) /\ ToSet(serving) \subseteq serves
  <2> HIDE DEF serves, serving
  <2> QED  BY <1>1, <1>2, KeptProperties, KeptMembers
<1>4. PinBackends = Preferred(serving)
  BY DEF PinBackends
<1> HIDE DEF serving
<1>5. /\ PinBackends \in Seq(DOMAIN world.at) /\ Distinct(PinBackends)
      /\ ToSet(PinBackends) \subseteq serves
  BY <1>3, <1>4, PreferredProperties
<1>6. PICK speaking : SpeakingOf(PinBackends, RealModel) = Kept(PinBackends, speaking)
  BY DEF SpeakingOf
<1>7. /\ SpeakingOf(PinBackends, RealModel) \in Seq(DOMAIN world.at)
      /\ Distinct(SpeakingOf(PinBackends, RealModel))
      /\ ToSet(SpeakingOf(PinBackends, RealModel)) \subseteq serves
  <2> HIDE DEF serves
  <2> QED  BY <1>5, <1>6, KeptProperties, KeptMembers DEF Distinct
<1> DEFINE spoken == SpeakingOf(PinBackends, RealModel)
           right == {b \in ToSet(spoken) : TagOk(b)}
<1>8. PinTagged = Kept(spoken, right)
  BY DEF PinTagged, Tagged
<1>9. \A b \in right : TagOk(b)
  OBVIOUS
<1> HIDE DEF spoken, right
<1>10. /\ PinTagged \in Seq(DOMAIN world.at) /\ Distinct(PinTagged)
       /\ ToSet(PinTagged) \subseteq serves /\ ToSet(PinTagged) \subseteq right
  <2> HIDE DEF serves
  <2> QED  BY <1>7, <1>8, KeptProperties, KeptMembers DEF Distinct, spoken
<1> DEFINE chosen == Chosen(PinTagged)
<1>11. chosen = IF SingleChoice THEN First(PinTagged) ELSE PinTagged
  BY DEF Chosen
<1> HIDE DEF chosen
<1>12. /\ chosen \in Seq(DOMAIN world.at) /\ Distinct(chosen) /\ ToSet(chosen) \subseteq ToSet(PinTagged)
       /\ SingleChoice => DOMAIN chosen \subseteq {1}
  BY <1>10, <1>11, FirstProperties
<1>13. RealModel \in DOMAIN world.catalogue /\ id.model = RealModel
  BY DEF Asked, RealModel
<1>14. ASSUME NEW b \in serves  PROVE b \in ToSet(world.backends) /\ RealModel \in Reached(b)
  <2>1. b \in ToSet(Usable) /\ Serves(b, id)
    OBVIOUS
  <2>2. b \in ToSet(world.backends)
    BY <1>1, <2>1
  <2>3. RealModel \in ToSet(Models(b)) \/ ~At(b).allowlist
    BY <1>13, <2>1 DEF Serves
  <2>4. RealModel \in Reached(b)
    BY <1>13, <2>3 DEF Reached
  <2> QED  BY <2>2, <2>4
<1>15. \A i \in DOMAIN chosen : chosen[i] \in ToSet(world.backends) /\ RealModel \in Reached(chosen[i])
  <2>1. \A i \in DOMAIN chosen : chosen[i] \in serves
    BY <1>10, <1>12 DEF ToSet
  <2> HIDE DEF serves
  <2> QED  BY <1>14, <2>1
<1>16. \A b \in ToSet(PinBackends) : b \in DOMAIN world.at
  BY <1>5, ToSetProperties
<1>17. \A b \in ToSet(chosen) : TagOk(b)
  BY <1>9, <1>10, <1>12
<1>18. Reachable(RealModel, chosen)
  BY <1>12, <1>13, <1>15 DEF Reachable
<1> QED  BY <1>5, <1>10, <1>12, <1>16, <1>17, <1>18 DEF chosen
(* Sequences put together.                                                 *)
LEMMA JoinProperties ==
    ASSUME NEW S, NEW s \in Seq(S), NEW t \in Seq(S)
    PROVE  /\ s \o t \in Seq(S) /\ Len(s) \in Nat /\ Len(t) \in Nat
           /\ DOMAIN s = 1 .. Len(s) /\ DOMAIN t = 1 .. Len(t)
           /\ DOMAIN (s \o t) = 1 .. Len(s) + Len(t) /\ Len(s \o t) = Len(s) + Len(t)
           /\ \A k \in DOMAIN (s \o t) :
                 \/ k \in DOMAIN s /\ (s \o t)[k] = s[k]
                 \/ k > Len(s) /\ k - Len(s) \in DOMAIN t /\ (s \o t)[k] = t[k - Len(s)]
  OBVIOUS

(* The pinned candidates of a plan: the model passed its gate, the backend *)
(* carries the tags, and the account speaks the request.                   *)
LEMMA PinnedPartFacts ==
    ASSUME Asked, Stored, room \in 0 .. NoBudget, request.model # "auto"
    PROVE  /\ PinnedPart \in Seq(ToSet(PinnedPart)) /\ Len(PinnedPart) \in Nat
           /\ DOMAIN PinnedPart = 1 .. Len(PinnedPart)
           /\ \A i \in DOMAIN PinnedPart :
                 Allowed(PinnedPart[i]) /\ PinnedPart[i].kind = "pinned" /\ PinnedPart[i].key[3] = RealModel
           /\ DistinctAccounts => DistinctKeys(PinnedPart)
           /\ Sinking(PinnedPart)
           /\ SingleChoice => Len(PinnedPart) <= 1
<1>1. CASE PinnedGate(RealModel) # Unset
  <2>1. PinnedPart = <<>>
    BY <1>1 DEF PinnedPart
  <2> QED  BY <2>1 DEF DistinctKeys, Sinking
<1>2. CASE PinnedGate(RealModel) = Unset
  <2> DEFINE chosen == Chosen(PinTagged)
             s == PinnedCandidates(RealModel, chosen)
             P == PinnedSet(RealModel, chosen)
  <2>1. PinnedPart = s
    BY <1>2 DEF PinnedPart
  <2>2. Reachable(RealModel, chosen) /\ (SingleChoice => DOMAIN chosen \subseteq {1})
        /\ \A b \in ToSet(chosen) : TagOk(b)
    BY PinReachable
  <2> HIDE DEF chosen
  <2>3. /\ s \in Seq(P) /\ ToSet(s) = P /\ Len(s) \in Nat /\ DOMAIN s = 1 .. Len(s)
        /\ \A i \in DOMAIN s : s[i] \in P
        /\ Distinct(s) /\ Sinking(s)
        /\ SingleChoice /\ DOMAIN chosen \subseteq {1} => Len(s) <= 1
    BY <2>2, PinnedListed
  <2>4. RealModel \in DOMAIN world.catalogue
    BY DEF Asked
  <2>5. Limits(RealModel).price \in Prices
    BY <2>4, WorldType DEF Asked
  <2>6. /\ Limits(RealModel).lifecycle # "retired"
        /\ request.audio => Limits(RealModel).fits
        /\ AdmitReason(RealModel) = Unset
    <3>1. "retired" # Unset /\ "limits" # Unset
      BY DEF Unset
    <3>2. Limits(RealModel).lifecycle # "retired"
      BY <1>2, <3>1 DEF PinnedGate
    <3>3. Unset = IF request.audio /\ ~Limits(RealModel).fits THEN "limits" ELSE AdmitReason(RealModel)
      BY <1>2, <3>2 DEF PinnedGate
    <3>4. ~ (request.audio /\ ~Limits(RealModel).fits)
      BY <3>1, <3>3
    <3>5. AdmitReason(RealModel) = Unset
      BY <3>3, <3>4
    <3> QED  BY <3>2, <3>4, <3>5, Zenon
  <2>7. WithinCap(RealModel)
    BY <2>4, <2>6, AdmitProperties
  <2>8. ASSUME NEW c \in P  PROVE Allowed(c) /\ c.kind = "pinned" /\ c.key[3] = RealModel
    <3>1. /\ c.kind = "pinned" /\ c.key # <<>> /\ c.key[3] = RealModel /\ c.estimate = Limits(RealModel).price
          /\ c.key[1] \in ToSet(chosen) /\ Speaks(c.key[1], c.key[2], RealModel)
      BY <2>2, PinnedFacts
    <3>2. TagOk(c.key[1])
      BY <2>2, <3>1
    <3>3. request.audio => Limits(RealModel).says /\ request.voice \in {<<>>, <<c.key[1], c.key[2]>>}
      BY <3>1, Zenon DEF Speaks
    <3> HIDE DEF P
    <3> QED  BY <2>4, <2>5, <2>6, <2>7, <3>1, <3>2, <3>3 DEF Allowed
  <2>9. ASSUME DistinctAccounts  PROVE DistinctKeys(s)
    <3>1. ASSUME NEW i \in DOMAIN s, NEW j \in DOMAIN s, s[i].key = s[j].key  PROVE i = j
      <4>1. s[i] \in P /\ s[j] \in P
        BY <2>3
      <4>2. s[i] = s[j]
        BY <2>2, <2>9, <3>1, <4>1, PinnedKeys
      <4> QED  BY <2>3, <4>2 DEF Distinct
    <3> QED  BY <3>1 DEF DistinctKeys
  <2>10. s \in Seq(ToSet(s))
    BY <2>3
  <2>11. \A i \in DOMAIN s : Allowed(s[i]) /\ s[i].kind = "pinned" /\ s[i].key[3] = RealModel
    <3> HIDE DEF s, P
    <3> QED  BY <2>3, <2>8
  <2> HIDE DEF s, P
  <2> QED  BY <2>1, <2>2, <2>3, <2>9, <2>10, <2>11
<1> QED  BY <1>1, <1>2

(* The others: none unless the fallback is any, and never the pinned model.*)
LEMMA OtherPartFacts ==
    ASSUME Asked, Stored, room \in 0 .. NoBudget
    PROVE  /\ OtherPart \in Seq(ToSet(OtherPart)) /\ Len(OtherPart) \in Nat
           /\ DOMAIN OtherPart = 1 .. Len(OtherPart)
           /\ \A k \in DOMAIN OtherPart :
                 /\ Allowed(OtherPart[k]) /\ OtherPart[k].key[3] # RealModel
                 /\ OtherPart[k].kind = KindOf(OtherPart[k].key[3], Limits(RealModel).replacement)
           /\ DistinctAccounts => DistinctKeys(OtherPart)
           /\ KindsSink(OtherPart)
           /\ \A i, j \in DOMAIN OtherPart :
                 i < j /\ OtherPart[j].kind = "replacement" => OtherPart[i].kind = "replacement"
           /\ Policy.fallback # "any" => OtherPart = <<>>
<1> DEFINE others == AutoPart.candidates
           successor == Limits(RealModel).replacement
<1>1. OtherPart = ReplacementFirst(others, successor)
  BY DEF OtherPart
<1>2. others \in Seq(AutoSet(RealModel)) /\ Distinct(others) /\ Sinking(others)
      /\ (Policy.fallback # "any" => others = <<>>)
  <2>1. CASE Policy.fallback = "any"
    <3>1. others = AutoCandidates(RealModel).candidates
      BY <2>1 DEF AutoPart
    <3> HIDE DEF others
    <3> QED  BY <2>1, <3>1, AutoListed
  <2>2. CASE Policy.fallback # "any"
    <3>1. others = <<>>
      BY <2>2 DEF AutoPart
    <3> HIDE DEF others
    <3> QED  BY <3>1 DEF Distinct, Sinking
  <2> QED  BY <2>1, <2>2
<1> HIDE DEF others, successor
<1> QED  BY <1>1, <1>2, ReplacementListed DEF KindsSink, successor
(* A pinned plan is sound: the pinned candidates, then the replacement,    *)
(* then the rest, every candidate allowed and none twice.                  *)
LEMMA PinnedPlanSound ==
    ASSUME Asked, Stored, room \in 0 .. NoBudget, request.model # "auto"
    PROVE  LET s == PinnedPart \o OtherPart
           IN  CandidatesSound(s) /\ StagesOrdered(s) /\ KindsSink(s)
<1> DEFINE a == PinnedPart
           b == OtherPart
           s == a \o b
           S == ToSet(a) \cup ToSet(b)
<1>1. /\ a \in Seq(ToSet(a)) /\ Len(a) \in Nat /\ DOMAIN a = 1 .. Len(a)
      /\ \A i \in DOMAIN a : Allowed(a[i]) /\ a[i].kind = "pinned" /\ a[i].key[3] = RealModel
      /\ DistinctAccounts => DistinctKeys(a)
      /\ Sinking(a)
      /\ SingleChoice => Len(a) <= 1
  BY PinnedPartFacts
<1>2. /\ b \in Seq(ToSet(b)) /\ Len(b) \in Nat /\ DOMAIN b = 1 .. Len(b)
      /\ \A k \in DOMAIN b : /\ Allowed(b[k]) /\ b[k].key[3] # RealModel
                             /\ b[k].kind = KindOf(b[k].key[3], Limits(RealModel).replacement)
      /\ DistinctAccounts => DistinctKeys(b)
      /\ KindsSink(b)
      /\ \A i, j \in DOMAIN b : i < j /\ b[j].kind = "replacement" => b[i].kind = "replacement"
      /\ Policy.fallback # "any" => b = <<>>
  BY OtherPartFacts
<1> HIDE DEF a, b
<1>3. a \in Seq(S) /\ b \in Seq(S)
  BY <1>1, <1>2
<1>4. /\ s \in Seq(S)
      /\ DOMAIN s = 1 .. Len(a) + Len(b) /\ Len(s) = Len(a) + Len(b)
      /\ \A k \in DOMAIN s :
            \/ k \in DOMAIN a /\ s[k] = a[k]
            \/ k > Len(a) /\ k - Len(a) \in DOMAIN b /\ s[k] = b[k - Len(a)]
  <2> HIDE DEF S
  <2> QED  BY <1>3, JoinProperties
<1> HIDE DEF s, S
<1>5. s \in Seq(ToSet(s))
  BY <1>4, ToSetProperties
<1>6. \A i \in DOMAIN s : Allowed(s[i])
  BY <1>1, <1>2, <1>4
<1>7. \A k \in DOMAIN b : b[k].kind \in {"replacement", "auto"}
  BY <1>2 DEF KindOf
<1>8. \A i \in DOMAIN s : s[i].kind = "pinned" <=> s[i].key[3] = RealModel
  <2>1. ASSUME NEW i \in DOMAIN s  PROVE s[i].kind = "pinned" <=> s[i].key[3] = RealModel
    <3>1. CASE i \in DOMAIN a /\ s[i] = a[i]
      BY <1>1, <3>1
    <3>2. CASE i - Len(a) \in DOMAIN b /\ s[i] = b[i - Len(a)]
      <4>1. s[i].key[3] # RealModel /\ s[i].kind \in {"replacement", "auto"}
        BY <1>2, <1>7, <3>2
      <4> QED  BY <4>1
    <3> QED  BY <1>4, <3>1, <3>2
  <2> QED  BY <2>1
<1>9. Policy.fallback # "any" => \A i \in DOMAIN s : s[i].key[3] = RealModel
  <2>1. ASSUME Policy.fallback # "any", NEW i \in DOMAIN s  PROVE s[i].key[3] = RealModel
    <3>1. DOMAIN b = {}
      BY <1>2, <2>1
    <3> QED  BY <1>1, <1>4, <3>1
  <2> QED  BY <2>1
<1>10. Policy.fallback = "none" => Len(s) <= 1
  <2>1. ASSUME Policy.fallback = "none"  PROVE Len(s) <= 1
    <3>1. SingleChoice /\ Policy.fallback # "any"
      BY <2>1 DEF SingleChoice
    <3>2. Len(b) = 0
      BY <1>2, <3>1
    <3> QED  BY <1>1, <1>2, <1>4, <3>1, <3>2
  <2> QED  BY <2>1
<1>11. ASSUME DistinctAccounts  PROVE DistinctKeys(s)
  <2>1. ASSUME NEW i \in DOMAIN s, NEW j \in DOMAIN s, s[i].key = s[j].key  PROVE i = j
    <3>1. (i \in DOMAIN a /\ s[i] = a[i]) \/ (i > Len(a) /\ i - Len(a) \in DOMAIN b /\ s[i] = b[i - Len(a)])
      BY <1>4
    <3>2. (j \in DOMAIN a /\ s[j] = a[j]) \/ (j > Len(a) /\ j - Len(a) \in DOMAIN b /\ s[j] = b[j - Len(a)])
      BY <1>4
    <3>3. i \in Int /\ j \in Int
      BY <1>1, <1>2, <1>4
    <3>4. CASE i \in DOMAIN a /\ s[i] = a[i] /\ j \in DOMAIN a /\ s[j] = a[j]
      BY <1>1, <1>11, <2>1, <3>4 DEF DistinctKeys
    <3>5. CASE /\ i > Len(a) /\ i - Len(a) \in DOMAIN b /\ s[i] = b[i - Len(a)]
               /\ j > Len(a) /\ j - Len(a) \in DOMAIN b /\ s[j] = b[j - Len(a)]
      <4>1. i - Len(a) = j - Len(a)
        BY <1>2, <1>11, <2>1, <3>5 DEF DistinctKeys
      <4> QED  BY <1>1, <3>3, <4>1
    <3>6. CASE i \in DOMAIN a /\ s[i] = a[i] /\ j - Len(a) \in DOMAIN b /\ s[j] = b[j - Len(a)]
      BY <1>1, <1>2, <2>1, <3>6
    <3>7. CASE j \in DOMAIN a /\ s[j] = a[j] /\ i - Len(a) \in DOMAIN b /\ s[i] = b[i - Len(a)]
      BY <1>1, <1>2, <2>1, <3>7
    <3> QED  BY <3>1, <3>2, <3>4, <3>5, <3>6, <3>7
  <2> QED  BY <2>1 DEF DistinctKeys
<1>12. CandidatesSound(s)
  BY <1>5, <1>6, <1>8, <1>9, <1>10, <1>11 DEF CandidatesSound
<1>13. \A i \in DOMAIN a : StageOf(a[i]) = 1
  BY <1>1 DEF StageOf
<1>14. \A k \in DOMAIN b : /\ StageOf(b[k]) \in {2, 3}
                           /\ StageOf(b[k]) = 2 <=> b[k].kind = "replacement"
  <2>1. ASSUME NEW k \in DOMAIN b
        PROVE /\ StageOf(b[k]) \in {2, 3}
              /\ StageOf(b[k]) = 2 <=> b[k].kind = "replacement"
    <3>1. /\ b[k].key[3] # RealModel /\ b[k].key[3] \in DOMAIN world.catalogue
          /\ b[k].kind = KindOf(b[k].key[3], Limits(RealModel).replacement)
      BY <1>2 DEF Allowed
    <3>2. b[k].key[3] # Unset
      BY <3>1, WorldType DEF Asked
    <3>3. b[k].kind = IF b[k].key[3] = Limits(RealModel).replacement THEN "replacement" ELSE "auto"
      BY <3>1, <3>2 DEF KindOf
    <3>4. StageOf(b[k]) = IF b[k].key[3] = Limits(RealModel).replacement THEN 2 ELSE 3
      BY <3>1 DEF StageOf
    <3>5. CASE b[k].key[3] = Limits(RealModel).replacement
      BY <3>3, <3>4, <3>5
    <3>6. CASE b[k].key[3] # Limits(RealModel).replacement
      BY <3>3, <3>4, <3>6
    <3> QED  BY <3>5, <3>6
  <2> QED  BY <2>1
<1>15. ASSUME NEW i \in DOMAIN s, NEW j \in DOMAIN s, i < j
       PROVE  \/ i \in DOMAIN a /\ s[i] = a[i] /\ j \in DOMAIN a /\ s[j] = a[j]
              \/ i \in DOMAIN a /\ s[i] = a[i] /\ j - Len(a) \in DOMAIN b /\ s[j] = b[j - Len(a)]
              \/ /\ i - Len(a) \in DOMAIN b /\ s[i] = b[i - Len(a)]
                 /\ j - Len(a) \in DOMAIN b /\ s[j] = b[j - Len(a)]
                 /\ i - Len(a) < j - Len(a)
  <2>1. i \in Int /\ j \in Int
    BY <1>1, <1>2, <1>4
  <2>2. i > Len(a) => j \notin DOMAIN a /\ i - Len(a) < j - Len(a)
    BY <1>1, <1>15, <2>1
  <2> QED  BY <1>4, <1>15, <2>2
<1>16. StagesOrdered(s)
  <2>1. ASSUME NEW i \in DOMAIN s, NEW j \in DOMAIN s, i < j  PROVE StageOf(s[i]) <= StageOf(s[j])
    <3>1. CASE i \in DOMAIN a /\ s[i] = a[i] /\ j \in DOMAIN a /\ s[j] = a[j]
      BY <1>13, <3>1
    <3>2. CASE i \in DOMAIN a /\ s[i] = a[i] /\ j - Len(a) \in DOMAIN b /\ s[j] = b[j - Len(a)]
      BY <1>13, <1>14, <3>2
    <3>3. CASE /\ i - Len(a) \in DOMAIN b /\ s[i] = b[i - Len(a)]
               /\ j - Len(a) \in DOMAIN b /\ s[j] = b[j - Len(a)]
               /\ i - Len(a) < j - Len(a)
      <4>1. StageOf(s[j]) = 2 => StageOf(s[i]) = 2
        BY <1>2, <1>14, <3>3
      <4> QED  BY <1>14, <3>3, <4>1
    <3> QED  BY <1>15, <2>1, <3>1, <3>2, <3>3
  <2> QED  BY <2>1 DEF StagesOrdered
<1>17. KindsSink(s)
  <2>1. ASSUME NEW i \in DOMAIN s, NEW j \in DOMAIN s, i < j, s[i].kind = s[j].kind, store[s[i].key].cooling
        PROVE  store[s[j].key].cooling
    <3>1. CASE i \in DOMAIN a /\ s[i] = a[i] /\ j \in DOMAIN a /\ s[j] = a[j]
      BY <1>1, <2>1, <3>1 DEF Sinking
    <3>2. CASE i \in DOMAIN a /\ s[i] = a[i] /\ j - Len(a) \in DOMAIN b /\ s[j] = b[j - Len(a)]
      BY <1>1, <1>7, <2>1, <3>2
    <3>3. CASE /\ i - Len(a) \in DOMAIN b /\ s[i] = b[i - Len(a)]
               /\ j - Len(a) \in DOMAIN b /\ s[j] = b[j - Len(a)]
               /\ i - Len(a) < j - Len(a)
      BY <1>2, <2>1, <3>3 DEF KindsSink
    <3> QED  BY <1>15, <2>1, <3>1, <3>2, <3>3
  <2> QED  BY <2>1 DEF KindsSink
<1> QED  BY <1>12, <1>16, <1>17 DEF a, b, s
(* A plan without candidates names an error, the one every gate calls for. *)
LEMMA ErrorNamed ==
    ASSUME NEW excluded
    PROVE  NoCandidateError(excluded) \in {"budget_exceeded", "cost_limit_exceeded", "validation_error"}
  BY DEF NoCandidateError

(* Nothing is a sound plan.                                                *)
LEMMA EmptyPlanSound ==
    CandidatesSound(<<>>) /\ StagesOrdered(<<>>) /\ KindsSink(<<>>)
<1> DEFINE none == <<>>
<1>1. none \in Seq(ToSet(none)) /\ DOMAIN none = {} /\ Len(none) = 0
  OBVIOUS
<1> HIDE DEF none
<1>2. CandidatesSound(none)
  BY <1>1 DEF CandidatesSound, DistinctKeys
<1>3. StagesOrdered(none) /\ KindsSink(none)
  BY <1>1 DEF StagesOrdered, KindsSink
<1> QED  BY <1>2, <1>3 DEF none

(* An automatic plan is sound.                                             *)
LEMMA AutoPlanSound ==
    ASSUME Asked, Stored, room \in 0 .. NoBudget, request.model = "auto"
    PROVE  LET s == AutoCandidates(Unset).candidates
           IN  CandidatesSound(s) /\ StagesOrdered(s) /\ KindsSink(s)
<1> DEFINE s == AutoCandidates(Unset).candidates
           P == AutoSet(Unset)
<1>1. /\ s \in Seq(P) /\ ToSet(s) = P
      /\ \A i \in DOMAIN s : s[i] \in P
      /\ Distinct(s) /\ Sinking(s)
  BY AutoListed
<1>2. \A c \in P : Allowed(c)
  BY AutoMember
<1>3. ASSUME DistinctAccounts  PROVE \A c, d \in P : c.key = d.key => c = d
  BY <1>3, AutoKeys
<1> HIDE DEF s, P
<1>4. DistinctAccounts => DistinctKeys(s)
  BY <1>1, <1>3 DEF DistinctKeys, Distinct
<1>5. CandidatesSound(s)
  BY <1>1, <1>2, <1>4 DEF CandidatesSound
<1>6. StagesOrdered(s) /\ KindsSink(s)
  BY <1>1 DEF StagesOrdered, KindsSink, Sinking
<1> QED  BY <1>5, <1>6 DEF s

\* What is known of a plan however it was made.
PlanFacts(p) ==
    /\ CandidatesSound(p.candidates) /\ StagesOrdered(p.candidates) /\ KindsSink(p.candidates)
    /\ WhyUnavailable(p.unavailable)
    /\ p.error = Unset <=> p.candidates # <<>>

(* A plan that is refused before any candidate is looked for.              *)
LEMMA NoPlanFacts ==
    ASSUME NEW error, error # Unset
    PROVE  PlanFacts(NoPlan(error))
<1> DEFINE p == NoPlan(error)
<1>1. p.candidates = <<>> /\ p.unavailable = Unset /\ p.error = error
  BY DEF NoPlan
<1> HIDE DEF p
<1>2. WhyUnavailable(p.unavailable)
  BY <1>1 DEF WhyUnavailable
<1> QED  BY <1>1, <1>2, EmptyPlanSound DEF PlanFacts, p

(* Every plan is sound, and has an error exactly when it has no candidate. *)
LEMMA PlannedSound ==
    ASSUME Asked, Stored, room \in 0 .. NoBudget, NEW raising
    PROVE  PlanFacts(Planned(raising))
<1>1. "forbidden" # Unset /\ "model_not_found" # Unset /\ "invalid_request_error" # Unset
      /\ "model_retired" # Unset /\ Unset \notin {"budget_exceeded", "cost_limit_exceeded", "validation_error"}
  BY DEF Unset
<1>2. CASE Usable = <<>>
  <2>1. Planned(raising) = NoPlan("forbidden")
    BY <1>2 DEF Planned
  <2> QED  BY <1>1, <2>1, NoPlanFacts
<1>3. CASE Usable # <<>> /\ request.model = "auto"
  <2> DEFINE p == PlannedAuto
             s == AutoCandidates(Unset).candidates
  <2>1. p.candidates = s /\ p.unavailable = Unset
        /\ p.error = IF s = <<>> THEN NoCandidateError(p.excluded) ELSE Unset
    BY DEF PlannedAuto
  <2>2. Planned(raising) = p
    BY <1>3 DEF Planned
  <2>3. CandidatesSound(s) /\ StagesOrdered(s) /\ KindsSink(s)
    BY <1>3, AutoPlanSound
  <2> HIDE DEF p, s
  <2>4. p.error = Unset <=> p.candidates # <<>>
    BY <1>1, <2>1, ErrorNamed
  <2>5. WhyUnavailable(p.unavailable)
    BY <1>3, <2>1 DEF WhyUnavailable
  <2> QED  BY <2>1, <2>2, <2>3, <2>4, <2>5 DEF PlanFacts
<1>4. CASE Usable # <<>> /\ request.model # "auto"
  <2>1. Planned(raising) = PlannedPinned(raising)
    BY <1>4 DEF Planned
  <2>2. CASE PinBackends = <<>>
    <3>1. Planned(raising) = NoPlan("model_not_found")
      BY <2>1, <2>2, PlannedPinnedParts
    <3> QED  BY <1>1, <3>1, NoPlanFacts
  <2>3. CASE PinBackends # <<>> /\ PinTagged = <<>> /\ (Policy.tag # Unset \/ Policy.tags # {})
    <3>1. Planned(raising) = NoPlan("invalid_request_error")
      BY <2>1, <2>3, PlannedPinnedParts
    <3> QED  BY <1>1, <3>1, NoPlanFacts
  <2>4. CASE PinBackends # <<>> /\ ~ (PinTagged = <<>> /\ (Policy.tag # Unset \/ Policy.tags # {}))
    <3> DEFINE p == PinnedPlan(RealModel, PinnedGate(RealModel), PinnedPart, AutoPart,
                               Mute(PinBackends, RealModel), raising)
               S == ToSet(PinnedPart) \cup ToSet(OtherPart)
               s == PinnedPart \o OtherPart
    <3>1. Planned(raising) = p
      BY <2>1, <2>4, PlannedPinnedParts
    <3>2. PinnedPart \in Seq(S) /\ OtherPart \in Seq(S)
      BY <1>4, PinnedPartFacts, OtherPartFacts
    <3>3. /\ p.candidates = s
          /\ p.unavailable \in {Unset, IF Limits(RealModel).lifecycle = "retired" THEN "model_retired" ELSE "over_budget"}
          /\ p.error = IF PinnedGate(RealModel) = "retired" /\ Policy.fallback # "any" /\ raising
                       THEN "model_retired"
                       ELSE IF p.candidates = <<>> THEN NoCandidateError(p.excluded) ELSE Unset
      <4> HIDE DEF S
      <4> QED  BY <3>2, PinnedPlanParts
    <3>4. PinnedGate(RealModel) = "retired" /\ Policy.fallback # "any" => s = <<>>
      <4>1. ASSUME PinnedGate(RealModel) = "retired", Policy.fallback # "any"  PROVE s = <<>>
        <5>1. "retired" # Unset
          BY DEF Unset
        <5>2. PinnedPart = <<>>
          BY <4>1, <5>1 DEF PinnedPart
        <5>3. OtherPart = <<>>
          BY <4>1, OtherPartFacts
        <5> QED  BY <5>2, <5>3
      <4> QED  BY <4>1
    <3>5. CandidatesSound(s) /\ StagesOrdered(s) /\ KindsSink(s)
      BY <1>4, PinnedPlanSound
    <3>6. WhyUnavailable(p.unavailable)
      BY <1>4, <3>3 DEF WhyUnavailable
    <3> HIDE DEF p, s
    <3>7. p.error = Unset <=> p.candidates # <<>>
      BY <1>1, <3>3, <3>4, ErrorNamed
    <3> QED  BY <3>1, <3>3, <3>5, <3>6, <3>7 DEF PlanFacts
  <2> QED  BY <2>2, <2>3, <2>4
<1> QED  BY <1>2, <1>3, <1>4
---------------------------------------------------------------------------
(* What a step leaves alone *)

(* What is configured and asked is read the same after a step.             *)
LEMMA Frozen ==
    ASSUME UNCHANGED <<world, request>>
    PROVE  /\ Policy' = Policy /\ RealModel' = RealModel
           /\ \A m : Limits(m)' = Limits(m)
           /\ \A b : At(b)' = At(b)
<1>1. world' = world /\ request' = request
  OBVIOUS
<1>2. Policy' = Policy
  BY <1>1 DEF Policy
<1>3. \A m : Limits(m)' = Limits(m)
  BY <1>1 DEF Limits
<1>4. \A b : At(b)' = At(b)
  BY <1>1 DEF At
<1>5. Usable' = Usable
  BY <1>1 DEF Usable, At
<1>6. ResolveModelId(request.model)' = ResolveModelId(request.model)
  BY <1>1, <1>5 DEF ResolveModelId, At, Models
<1>7. RealModel' = RealModel
  BY <1>6 DEF RealModel
<1> QED  BY <1>2, <1>3, <1>4, <1>7

(* So are the gates that a plan keeps.                                     *)
LEMMA SoundFrozen ==
    ASSUME UNCHANGED <<world, request>>, NEW s
    PROVE  /\ CandidatesSound(s)' <=> CandidatesSound(s)
           /\ StagesOrdered(s)' <=> StagesOrdered(s)
           /\ \A why : WhyUnavailable(why)' <=> WhyUnavailable(why)
<1>1. world' = world /\ request' = request
  OBVIOUS
<1>2. /\ Policy' = Policy /\ RealModel' = RealModel
      /\ \A m : Limits(m)' = Limits(m)
      /\ \A b : At(b)' = At(b)
  BY Frozen
<1>3. \A c : Allowed(c)' <=> Allowed(c)
  BY <1>1, <1>2 DEF Allowed, WithinCap, Known, TagOk
<1>4. CandidatesSound(s)' <=> CandidatesSound(s)
  BY <1>1, <1>2, <1>3 DEF CandidatesSound, DistinctKeys
<1>5. StagesOrdered(s)' <=> StagesOrdered(s)
  BY <1>1, <1>2 DEF StagesOrdered, StageOf
<1>6. \A why : WhyUnavailable(why)' <=> WhyUnavailable(why)
  BY <1>1, <1>2 DEF WhyUnavailable
<1> QED  BY <1>4, <1>5, <1>6
\* Members of a sequence, in any order, none of them twice.
PartOf(t, s, g) ==
    /\ t \in Seq(ToSet(s)) /\ Len(t) <= Len(s)
    /\ \A k \in DOMAIN t : g[k] \in DOMAIN s /\ t[k] = s[g[k]]
    /\ \A i, j \in DOMAIN t : g[i] = g[j] => i = j

(* Part of a sound plan, in any order, is sound.                           *)
LEMMA SoundPart ==
    ASSUME NEW s, CandidatesSound(s), NEW t, NEW g, PartOf(t, s, g)
    PROVE  CandidatesSound(t)
<1> USE DEF PartOf
<1>1. t \in Seq(ToSet(t)) /\ DOMAIN t = 1 .. Len(t) /\ Len(t) \in Nat
  BY ToSetProperties
<1>2. s \in Seq(ToSet(s)) /\ DOMAIN s = 1 .. Len(s) /\ Len(s) \in Nat
  BY DEF CandidatesSound
<1>3. \A i \in DOMAIN t : Allowed(t[i])
  BY DEF CandidatesSound
<1>4. ASSUME DistinctAccounts  PROVE DistinctKeys(t)
  <2>1. DistinctKeys(s)
    BY <1>4 DEF CandidatesSound
  <2> QED  BY <2>1 DEF DistinctKeys
<1>5. ASSUME request.model # "auto"
      PROVE  /\ \A i \in DOMAIN t : t[i].kind = "pinned" <=> t[i].key[3] = RealModel
             /\ Policy.fallback # "any" => \A i \in DOMAIN t : t[i].key[3] = RealModel
             /\ Policy.fallback = "none" => Len(t) <= 1
  <2>1. /\ \A i \in DOMAIN s : s[i].kind = "pinned" <=> s[i].key[3] = RealModel
        /\ Policy.fallback # "any" => \A i \in DOMAIN s : s[i].key[3] = RealModel
        /\ Policy.fallback = "none" => Len(s) <= 1
    BY <1>5 DEF CandidatesSound
  <2>2. \A i \in DOMAIN t : t[i].kind = "pinned" <=> t[i].key[3] = RealModel
    BY <2>1
  <2> QED  BY <1>1, <1>2, <2>1, <2>2
<1> QED  BY <1>1, <1>3, <1>4, <1>5 DEF CandidatesSound

(* What a route plugin leaves of a sound plan, in any order, is sound.      *)
LEMMA RoutedSound ==
    ASSUME NEW s, CandidatesSound(s), NEW n \in 0 .. Len(s), NEW g \in Injection(1 .. n, DOMAIN s)
    PROVE  CandidatesSound([k \in 1 .. n |-> s[g[k]]])
<1> DEFINE t == [k \in 1 .. n |-> s[g[k]]]
<1>1. s \in Seq(ToSet(s)) /\ DOMAIN s = 1 .. Len(s) /\ Len(s) \in Nat /\ n \in Nat
  BY DEF CandidatesSound
<1>2. /\ g \in [1 .. n -> DOMAIN s]
      /\ \A i, j \in 1 .. n : g[i] = g[j] => i = j
  BY DEF Injection, IsInjective
<1>3. t \in [1 .. n -> ToSet(s)]
  BY <1>1, <1>2 DEF ToSet
<1>4. t \in Seq(ToSet(s)) /\ Len(t) = n /\ DOMAIN t = 1 .. n
  BY <1>1, <1>3, SeqDef
<1>5. \A k \in 1 .. n : g[k] \in DOMAIN s /\ t[k] = s[g[k]]
  BY <1>2
<1> HIDE DEF t
<1>6. PartOf(t, s, g)
  BY <1>1, <1>2, <1>4, <1>5 DEF PartOf
<1>7. CandidatesSound(t)
  BY <1>6, SoundPart
<1> QED  BY <1>7 DEF t
---------------------------------------------------------------------------
(* The inductive invariant *)

Unanswered == [code |-> Unset, served |-> <<>>, fallback |-> FALSE, reason |-> Unset]
\* What moves an attempt on to the next candidate.
MovesOn == {"over_budget", "rate_limited", "provider_unavailable"}

\* The last attempt that reached a provider failed like this, if one did.
LastFailed(n) ==
    \/ lastFailure = Unset /\ \A i \in 1 .. n : tried[i].outcome = "over_budget"
    \/ \E i \in 1 .. n : /\ tried[i].outcome # "over_budget" /\ lastFailure = tried[i].outcome
                         /\ \A j \in 1 .. n : i < j => tried[j].outcome = "over_budget"

\* The candidates were tried in the order of the plan, each once.
InTurn ==
    /\ consulted \in Nat
    /\ tried \in Seq([candidate : ToSet(plan.candidates), outcome : MovesOn \cup {"success", "client_error"}])
    /\ Len(tried) <= Len(plan.candidates)
    /\ \A i \in DOMAIN tried : tried[i].candidate = plan.candidates[i]
    /\ phase \in {"new", "planned"} => next = 1 /\ lastFailure = Unset
    /\ phase = "new" => plan.unavailable = Unset
    /\ phase = "calling" => next <= Len(plan.candidates)
    /\ phase # "done" =>
         /\ Len(tried) = next - 1 /\ answer = Unanswered
         /\ \A i \in DOMAIN tried : tried[i].outcome \in MovesOn
         /\ reason = IF next = 1 THEN plan.unavailable ELSE tried[next - 1].outcome
         /\ LastFailed(next - 1)

\* What is held may be given back: a budget never grows into no budget.
Returnable == phase = "calling" /\ room # NoBudget => room + Charged(Current) < NoBudget

PlanRecord ==
    plan = [candidates |-> plan.candidates, excluded |-> plan.excluded, unavailable |-> plan.unavailable]

RouteInv ==
    /\ Asked /\ Stored /\ TypeOK /\ PlanRecord
    /\ CandidatesSound(plan.candidates)
    /\ world.plugins = <<>> => StagesOrdered(plan.candidates)
    /\ WhyUnavailable(plan.unavailable)
    /\ InTurn /\ Returnable
    /\ FallbackReported /\ CandidatesExhausted
---------------------------------------------------------------------------
(* The invariant holds at the start *)

(* No step changes what was asked, nor what the store is about.            *)
LEMMA AskedFrozen ==
    ASSUME UNCHANGED <<world, request>>, Asked
    PROVE  Asked'
  BY Frozen DEF Asked

(* A store with the entries it had still has one for every account.        *)
LEMMA StoredFrozen ==
    ASSUME UNCHANGED <<world, request>>, Stored,
           store' \in [DOMAIN store -> Health]
    PROVE  Stored'
<1>1. world' = world
  OBVIOUS
<1>2. \A b : At(b)' = At(b)
  BY Frozen
<1>3. \A b : Reached(b)' = Reached(b)
  BY <1>1, <1>2 DEF Reached, Models
<1>4. DOMAIN store' = DOMAIN store
  OBVIOUS
<1> QED  BY <1>1, <1>2, <1>3, <1>4 DEF Stored

(* Recording an outcome keeps the entries and their types.                 *)
LEMMA ObserveType ==
    ASSUME Stored, NEW k, NEW outcome, NEW latency \in Latencies, Observe(k, outcome, latency)
    PROVE  store' \in [DOMAIN store -> Health]
<1>1. store \in [DOMAIN store -> Health]
  BY DEF Stored
<1>2. PICK score \in Scores :
        store' = [store EXCEPT ![k] = [score |-> score, tried |-> TRUE,
                    latency |-> IF store[k].tried THEN store[k].latency ELSE latency,
                    cooling |-> store[k].cooling \/ outcome = "rate_limited"]]
  BY DEF Observe
<1> DEFINE entry == [score |-> score, tried |-> TRUE,
                     latency |-> IF store[k].tried THEN store[k].latency ELSE latency,
                     cooling |-> store[k].cooling \/ outcome = "rate_limited"]
<1>3. k \in DOMAIN store => entry \in Health
  BY <1>1 DEF Health
<1> HIDE DEF entry
<1>4. store' = [store EXCEPT ![k] = entry]
  BY <1>2 DEF entry
<1> QED  BY <1>1, <1>3, <1>4

(* While a create is open nothing is reported of it yet.                   *)
LEMMA OpenReports ==
    ASSUME phase # "done", answer = Unanswered
    PROVE  FallbackReported /\ CandidatesExhausted /\ answer.reason = Unset
  BY DEF FallbackReported, CandidatesExhausted, Unanswered

(* The same of the state a step leads to.                                  *)
LEMMA OpenReportsNext ==
    ASSUME phase' # "done", answer' = Unanswered
    PROVE  FallbackReported' /\ CandidatesExhausted' /\ answer'.reason = Unset
  BY DEF FallbackReported, CandidatesExhausted, Unanswered

(* The invariant holds initially.                                          *)
LEMMA RouteInit == Init => RouteInv
<1> SUFFICES ASSUME Init  PROVE RouteInv
  OBVIOUS
<1>1. Asked
  BY DEF Init, Asked
<1>2. Stored
  <2> DEFINE K == UNION {{Key(b, a, m) : a \in ToSet(At(b).accounts), m \in Reached(b)} : b \in ToSet(world.backends)}
  <2>1. store = [k \in K |-> Untried]
    BY DEF Init
  <2>2. Untried \in Health
    BY DEF Untried, Health, Scores, Latencies
  <2>3. \A b \in ToSet(world.backends) : \A a \in ToSet(At(b).accounts) : \A m \in Reached(b) : Key(b, a, m) \in K
    OBVIOUS
  <2> HIDE DEF K
  <2> QED  BY <2>1, <2>2, <2>3 DEF Stored
<1>3. plan.candidates = <<>> /\ plan.unavailable = Unset /\ tried = <<>> /\ phase = "new" /\ next = 1
      /\ consulted = 0 /\ answer = Unanswered /\ reason = Unset /\ lastFailure = Unset
  BY DEF Init, Unanswered
<1>4. room \in 0 .. NoBudget
  BY RoutingAssumption DEF Init, RoutingAssumption
<1>5. FallbackReported /\ CandidatesExhausted /\ answer.reason = Unset
  BY <1>3, OpenReports
<1>6. TypeOK
  BY <1>2, <1>3, <1>4, <1>5 DEF TypeOK, Stored, Health
<1>7. CandidatesSound(plan.candidates) /\ StagesOrdered(plan.candidates)
  BY <1>3, EmptyPlanSound
<1>8. WhyUnavailable(plan.unavailable)
  BY <1>3 DEF WhyUnavailable
<1>9. InTurn
  <2>1. LastFailed(next - 1)
    BY <1>3 DEF LastFailed
  <2> QED  BY <1>3, <2>1 DEF InTurn
<1>10. Returnable
  BY <1>3 DEF Returnable
<1>11. PlanRecord
  BY DEF Init, PlanRecord
<1> QED  BY <1>1, <1>2, <1>5, <1>6, <1>7, <1>8, <1>9, <1>10, <1>11 DEF RouteInv
---------------------------------------------------------------------------
(* Every step keeps the invariant: planning *)

(* The plan that is adopted.                                               *)
LEMMA PlanRouteFacts ==
    ASSUME PlanRoute
    PROVE  LET p == Planned(TRUE)
           IN  /\ plan' = [candidates |-> p.candidates, excluded |-> p.excluded, unavailable |-> p.unavailable]
               /\ plan'.candidates = p.candidates /\ plan'.unavailable = p.unavailable
               /\ reason' = p.unavailable
               /\ IF p.error # Unset THEN phase' = "done" /\ answer' = [answer EXCEPT !.code = p.error]
                  ELSE phase' = "planned" /\ answer' = answer
               /\ phase = "new"
               /\ UNCHANGED <<world, request, store, room, traffic, consulted, next, lastFailure, tried>>
  BY DEF PlanRoute, Refuse

(* An answer is refused by its code alone.                                 *)
LEMMA RefusedAnswer ==
    ASSUME answer = Unanswered, NEW code, answer' = [answer EXCEPT !.code = code]
    PROVE  answer'.served = <<>> /\ answer'.reason = Unset /\ answer'.code = code
  BY DEF Unanswered

(* The plan adopted is sound, or the create refused.                       *)
LEMMA PlanRouteKeeps ==
    ASSUME RouteInv, PlanRoute
    PROVE  RouteInv'
<1> DEFINE p == Planned(TRUE)
<1>1. /\ plan' = [candidates |-> p.candidates, excluded |-> p.excluded, unavailable |-> p.unavailable]
      /\ plan'.candidates = p.candidates /\ plan'.unavailable = p.unavailable
      /\ reason' = p.unavailable
      /\ IF p.error # Unset THEN phase' = "done" /\ answer' = [answer EXCEPT !.code = p.error]
         ELSE phase' = "planned" /\ answer' = answer
      /\ phase = "new"
      /\ UNCHANGED <<world, request, store, room, traffic, consulted, next, lastFailure, tried>>
  BY PlanRouteFacts
<1>2. Asked /\ Stored /\ TypeOK /\ InTurn /\ room \in 0 .. NoBudget
  BY DEF RouteInv, TypeOK
<1>3. PlanFacts(p)
  BY <1>2, PlannedSound
<1> HIDE DEF p
<1>4. /\ CandidatesSound(p.candidates) /\ StagesOrdered(p.candidates)
      /\ WhyUnavailable(p.unavailable)
  BY <1>3 DEF PlanFacts
<1>5. /\ next = 1 /\ tried = <<>> /\ answer = Unanswered /\ lastFailure = Unset /\ consulted \in Nat
  BY <1>1, <1>2 DEF InTurn
<1>6. Asked' /\ Stored'
  BY <1>1, <1>2, AskedFrozen, StoredFrozen DEF Stored
<1>7. answer'.served = <<>> /\ answer'.reason = Unset
  BY <1>1, <1>5, RefusedAnswer DEF Unanswered
<1>8. phase' \in {"planned", "done"} /\ (phase' # "done" => answer' = Unanswered)
  BY <1>1, <1>5
<1>9. CandidatesSound(plan.candidates)' /\ (world.plugins = <<>> => StagesOrdered(plan.candidates))'
      /\ WhyUnavailable(plan.unavailable)'
  <2>1. UNCHANGED <<world, request>>
    BY <1>1
  <2> QED  BY <1>1, <1>4, <2>1, SoundFrozen
<1>10. Len(plan'.candidates) \in Nat
  BY <1>1, <1>4 DEF CandidatesSound
<1>11. TypeOK'
  BY <1>1, <1>2, <1>5, <1>7, <1>8, <1>10 DEF TypeOK
<1>12. InTurn'
  <2>1. LastFailed(next - 1)'
    BY <1>1, <1>5 DEF LastFailed
  <2> QED  BY <1>1, <1>5, <1>8, <1>10, <2>1 DEF InTurn
<1>13. Returnable'
  BY <1>8 DEF Returnable
<1>14. FallbackReported' /\ CandidatesExhausted'
  BY <1>1, <1>5, <1>7 DEF FallbackReported, CandidatesExhausted
<1>15. PlanRecord'
  BY <1>1 DEF PlanRecord
<1> QED  BY <1>6, <1>9, <1>11, <1>12, <1>13, <1>14, <1>15 DEF RouteInv

(* The plan once a plugin answered with the candidates at some of its      *)
(* places, each at most once, in the order it likes.                       *)
Picked(n, result) ==
    [plan EXCEPT !.candidates = [k \in 1 .. n |-> plan.candidates[result[k]]],
                 !.excluded = @ \cup {[model |-> plan.candidates[i].key[3], reason |-> "plugin_policy"] :
                                       i \in DOMAIN plan.candidates \ Range(result)}]

(* What an answering plugin does to the plan.                              *)
LEMMA PluginRoutesFacts ==
    ASSUME PluginRoutes, PlanRecord, CandidatesSound(plan.candidates)
    PROVE  /\ CandidatesSound(plan'.candidates)
           /\ plan'.unavailable = plan.unavailable /\ PlanRecord'
           /\ phase = "planned" /\ consulted < Len(world.plugins) /\ consulted' = consulted + 1
           /\ UNCHANGED <<world, request, store, room, traffic, phase, next, reason, lastFailure,
                          tried, answer>>
<1> DEFINE s == plan.candidates
           Order(n, result) == [k \in 1 .. n |-> s[result[k]]]
<1>1. \E n \in 0 .. Len(s) : \E result \in Injection(1 .. n, DOMAIN s) : plan' = Picked(n, result)
  BY Zenon DEF PluginRoutes, Picked
<1>2. PICK n \in 0 .. Len(s) : \E result \in Injection(1 .. n, DOMAIN s) : plan' = Picked(n, result)
  BY Zenon, <1>1
<1>3. PICK result \in Injection(1 .. n, DOMAIN s) : plan' = Picked(n, result)
  BY Zenon, <1>2
<1>4. plan'.unavailable = plan.unavailable /\ plan'.candidates = Order(n, result)
      /\ plan' = [candidates |-> plan'.candidates, excluded |-> plan'.excluded, unavailable |-> plan'.unavailable]
  BY <1>3 DEF PlanRecord, Picked
<1>5. /\ phase = "planned" /\ consulted < Len(world.plugins) /\ consulted' = consulted + 1
      /\ UNCHANGED <<world, request, store, room, traffic, phase, next, reason, lastFailure, tried, answer>>
  BY Zenon DEF PluginRoutes
<1>6. CandidatesSound(plan'.candidates)
  BY <1>4, RoutedSound DEF Order
<1>7. PlanRecord'
  BY <1>4 DEF PlanRecord
<1> QED  BY <1>4, <1>5, <1>6, <1>7

(* A plugin that answers reorders the plan, or drops some of it.           *)
LEMMA PluginRoutesKeeps ==
    ASSUME RouteInv, PluginRoutes
    PROVE  RouteInv'
<1>1. PlanRecord /\ Asked /\ Stored /\ TypeOK /\ InTurn /\ CandidatesSound(plan.candidates)
  BY DEF RouteInv
<1>2. /\ CandidatesSound(plan'.candidates)
      /\ plan'.unavailable = plan.unavailable /\ PlanRecord'
      /\ phase = "planned" /\ consulted < Len(world.plugins) /\ consulted' = consulted + 1
      /\ UNCHANGED <<world, request, store, room, traffic, phase, next, reason, lastFailure,
                     tried, answer>>
  BY <1>1, PluginRoutesFacts
<1>3. CandidatesSound(plan'.candidates)
  BY <1>2
<1>4. CandidatesSound(plan.candidates)' /\ WhyUnavailable(plan.unavailable)'
  <2>1. UNCHANGED <<world, request>>
    BY <1>2
  <2> QED  BY <1>2, <1>3, <2>1, SoundFrozen DEF RouteInv
<1>5. (world.plugins = <<>> => StagesOrdered(plan.candidates))'
  <2>1. world.plugins # <<>>
    BY <1>1, <1>2 DEF InTurn
  <2> QED  BY <1>2, <2>1
<1>6. Asked' /\ Stored'
  BY <1>1, <1>2, AskedFrozen, StoredFrozen DEF Stored
<1>7. next = 1 /\ tried = <<>> /\ answer = Unanswered /\ lastFailure = Unset /\ consulted \in Nat
  BY <1>1, <1>2 DEF InTurn
<1>8. Len(plan'.candidates) \in Nat
  BY <1>3 DEF CandidatesSound
<1>9. TypeOK'
  BY <1>1, <1>2, <1>7, <1>8 DEF TypeOK
<1>10. InTurn'
  <2>1. LastFailed(next - 1)'
    BY <1>2, <1>7 DEF LastFailed
  <2>2. reason' = plan'.unavailable
    BY <1>1, <1>2, <1>7 DEF InTurn
  <2> QED  BY <1>2, <1>7, <1>8, <2>1, <2>2 DEF InTurn
<1>11. Returnable'
  BY <1>2 DEF Returnable
<1>12. FallbackReported' /\ CandidatesExhausted'
  BY <1>2, <1>7 DEF FallbackReported, CandidatesExhausted, Unanswered
<1> QED  BY <1>2, <1>4, <1>5, <1>6, <1>9, <1>10, <1>11, <1>12 DEF RouteInv

(* A planned create that ends, or goes on to be tried, tried nothing yet.  *)
LEMMA EndsUntried ==
    ASSUME RouteInv, phase = "planned", consulted' \in {consulted, consulted + 1},
           UNCHANGED <<world, request, store, room, traffic, plan, next, reason, lastFailure, tried>>,
           \/ phase' \in {"planned", "trying"} /\ answer' = answer
           \/ phase' = "done" /\ \E code : answer' = [answer EXCEPT !.code = code]
    PROVE  RouteInv'
<1>1. PlanRecord /\ Asked /\ Stored /\ TypeOK /\ InTurn
  BY DEF RouteInv
<1>2. UNCHANGED <<world, request>> /\ plan' = plan
  OBVIOUS
<1>3. CandidatesSound(plan.candidates)' /\ WhyUnavailable(plan.unavailable)'
      /\ (world.plugins = <<>> => StagesOrdered(plan.candidates))'
  BY <1>2, SoundFrozen DEF RouteInv
<1>4. Asked' /\ Stored' /\ PlanRecord'
  BY <1>1, <1>2, AskedFrozen, StoredFrozen DEF Stored, PlanRecord
<1>5. next = 1 /\ tried = <<>> /\ answer = Unanswered /\ lastFailure = Unset /\ consulted \in Nat
  BY <1>1 DEF InTurn
<1>6. answer'.served = <<>> /\ answer'.reason = Unset
  BY <1>5, RefusedAnswer DEF Unanswered
<1>7. TypeOK'
  BY <1>1, <1>6 DEF TypeOK
<1>8. InTurn'
  <2>1. LastFailed(next - 1)'
    BY <1>5 DEF LastFailed
  <2> QED  BY <1>1, <1>5, <2>1 DEF InTurn
<1>9. Returnable'
  BY DEF Returnable
<1>10. FallbackReported' /\ CandidatesExhausted'
  BY <1>5, <1>6 DEF FallbackReported, CandidatesExhausted
<1> QED  BY <1>3, <1>4, <1>7, <1>8, <1>9, <1>10 DEF RouteInv

(* A plugin that fails ends the create or is ignored.                      *)
LEMMA PluginFailsKeeps ==
    ASSUME RouteInv, PluginFails
    PROVE  RouteInv'
<1>1. /\ phase = "planned" /\ consulted' = consulted + 1
      /\ UNCHANGED <<world, request, store, room, traffic, plan, next, reason, lastFailure, tried>>
  BY DEF PluginFails
<1>2. \/ phase' = phase /\ answer' = answer
      \/ phase' = "done" /\ answer' = [answer EXCEPT !.code = "plugin_route_error"]
  BY DEF PluginFails, Refuse
<1> QED  BY <1>1, <1>2, EndsUntried

(* Without a candidate left the create ends, else they are tried in turn.  *)
LEMMA RouteSettledKeeps ==
    ASSUME RouteInv, RouteSettled
    PROVE  RouteInv'
<1>1. /\ phase = "planned" /\ consulted' = consulted
      /\ UNCHANGED <<world, request, store, room, traffic, plan, next, reason, lastFailure, tried>>
  BY DEF RouteSettled
<1>2. \/ phase' = "trying" /\ answer' = answer
      \/ phase' = "done" /\ answer' = [answer EXCEPT !.code = "plugin_route_rejected"]
  BY DEF RouteSettled, Refuse
<1> QED  BY <1>1, <1>2, EndsUntried
---------------------------------------------------------------------------
(* Every step keeps the invariant: the attempts *)

Outcomes == MovesOn \cup {"success", "client_error"}

(* The candidate in turn is one of the plan, and what it holds an amount.  *)
LEMMA CurrentFacts ==
    ASSUME RouteInv, next <= Len(plan.candidates)
    PROVE  /\ next \in Nat /\ next >= 1 /\ next \in DOMAIN plan.candidates /\ Len(plan.candidates) \in Nat
           /\ Current \in ToSet(plan.candidates) /\ Allowed(Current)
           /\ Charged(Current) \in 0 .. NoBudget - 1
<1>1. plan.candidates \in Seq(ToSet(plan.candidates)) /\ \A i \in DOMAIN plan.candidates : Allowed(plan.candidates[i])
  BY DEF RouteInv, CandidatesSound
<1>2. Len(plan.candidates) \in Nat /\ DOMAIN plan.candidates = 1 .. Len(plan.candidates)
  BY <1>1
<1>3. next \in Nat /\ next >= 1 /\ next \in DOMAIN plan.candidates
  BY <1>2 DEF RouteInv, TypeOK
<1>4. Current \in ToSet(plan.candidates) /\ Allowed(Current)
  BY <1>1, <1>3, Zenon DEF Current, ToSet
<1>5. Current.estimate \in -1 .. NoBudget - 1
  BY <1>4 DEF Allowed, Prices
<1>6. Charged(Current) \in 0 .. NoBudget - 1
  BY <1>5 DEF Charged, Unpriced, NoBudget
<1> QED  BY <1>2, <1>3, <1>4, <1>6

(* An attempt is put behind those made before it.                          *)
LEMMA TriedAppended ==
    ASSUME RouteInv, phase # "done", next <= Len(plan.candidates), NEW outcome \in Outcomes,
           Attempted(outcome), plan' = plan
    PROVE  /\ tried' \in Seq([candidate : ToSet(plan.candidates), outcome : Outcomes])
           /\ Len(tried') = next /\ DOMAIN tried' = 1 .. next
           /\ tried'[next].candidate = Current /\ tried'[next].outcome = outcome
           /\ \A i \in 1 .. next - 1 : tried'[i] = tried[i] /\ i \in DOMAIN tried
           /\ \A i \in DOMAIN tried' : tried'[i].candidate = plan.candidates[i]
           /\ next \in Nat /\ next >= 1
<1>1. /\ tried \in Seq([candidate : ToSet(plan.candidates), outcome : Outcomes])
      /\ Len(tried) = next - 1 /\ \A i \in DOMAIN tried : tried[i].candidate = plan.candidates[i]
  BY DEF RouteInv, InTurn, Outcomes
<1>2. next \in Nat /\ next >= 1 /\ Current \in ToSet(plan.candidates) /\ Current = plan.candidates[next]
  BY CurrentFacts DEF Current
<1> DEFINE R == [candidate : ToSet(plan.candidates), outcome : Outcomes]
           r == [candidate |-> Current, outcome |-> outcome]
<1>3. r \in R /\ r.candidate = Current /\ r.outcome = outcome
  BY <1>2
<1>4. tried' = Append(tried, r)
  BY DEF Attempted
<1> HIDE DEF R, r
<1>5. tried \in Seq(R)
  BY <1>1 DEF R
<1>6. /\ tried' \in Seq(R) /\ Len(tried') = next /\ DOMAIN tried' = 1 .. next /\ tried'[next] = r
      /\ \A i \in 1 .. next - 1 : tried'[i] = tried[i] /\ i \in DOMAIN tried
  BY <1>1, <1>2, <1>3, <1>4, <1>5
<1>7. \A i \in DOMAIN tried' : tried'[i].candidate = plan.candidates[i]
  BY <1>1, <1>2, <1>3, <1>6
<1> QED  BY <1>2, <1>3, <1>6, <1>7 DEF R

(* An attempt that moves on keeps the turns.                               *)
LEMMA TurnMoves ==
    ASSUME RouteInv, phase \in {"trying", "calling"}, next <= Len(plan.candidates), NEW outcome \in MovesOn,
           Attempted(outcome), UNCHANGED <<plan, answer, consulted>>, next' = next + 1, phase' = "trying",
           reason' = outcome, lastFailure' = IF outcome = "over_budget" THEN lastFailure ELSE outcome
    PROVE  InTurn'
<1>1. /\ tried' \in Seq([candidate : ToSet(plan.candidates), outcome : Outcomes])
      /\ Len(tried') = next /\ DOMAIN tried' = 1 .. next
      /\ tried'[next].candidate = Current /\ tried'[next].outcome = outcome
      /\ \A i \in 1 .. next - 1 : tried'[i] = tried[i] /\ i \in DOMAIN tried
      /\ \A i \in DOMAIN tried' : tried'[i].candidate = plan.candidates[i]
      /\ next \in Nat /\ next >= 1
  BY TriedAppended DEF Outcomes
<1>2. InTurn /\ LastFailed(next - 1) /\ \A i \in DOMAIN tried : tried[i].outcome \in MovesOn
  BY DEF RouteInv, InTurn
<1>3. \A i \in DOMAIN tried' : tried'[i].outcome \in MovesOn
  BY <1>1, <1>2
<1>4. \A i \in 1 .. next - 1 : tried'[i].outcome = tried[i].outcome
  BY <1>1
<1>5. LastFailed(next - 1)'
  <2>1. (next - 1)' = next
    BY <1>1
  <2>2. CASE outcome # "over_budget"
    <3>1. lastFailure' = tried'[next].outcome /\ tried'[next].outcome # "over_budget" /\ next \in 1 .. next
      BY <1>1, <2>2
    <3>2. \A j \in 1 .. next : next < j => tried'[j].outcome = "over_budget"
      BY <1>1
    <3> QED  BY <2>1, <3>1, <3>2 DEF LastFailed
  <2>3. CASE outcome = "over_budget"
    <3>1. lastFailure' = lastFailure /\ tried'[next].outcome = "over_budget"
      BY <1>1, <2>3
    <3>2. CASE lastFailure = Unset /\ \A i \in 1 .. next - 1 : tried[i].outcome = "over_budget"
      <4>1. \A i \in 1 .. next : tried'[i].outcome = "over_budget"
        BY <1>1, <1>4, <3>1, <3>2
      <4> QED  BY <2>1, <3>1, <3>2, <4>1 DEF LastFailed
    <3>3. CASE \E i \in 1 .. next - 1 : /\ tried[i].outcome # "over_budget" /\ lastFailure = tried[i].outcome
                                        /\ \A j \in 1 .. next - 1 : i < j => tried[j].outcome = "over_budget"
      <4>1. PICK i \in 1 .. next - 1 : /\ tried[i].outcome # "over_budget" /\ lastFailure = tried[i].outcome
                                       /\ \A j \in 1 .. next - 1 : i < j => tried[j].outcome = "over_budget"
        BY <3>3
      <4>2. i \in 1 .. next /\ tried'[i].outcome # "over_budget" /\ lastFailure' = tried'[i].outcome
        BY <1>1, <1>4, <3>1, <4>1
      <4>3. \A j \in 1 .. next : i < j => tried'[j].outcome = "over_budget"
        BY <1>1, <1>4, <3>1, <4>1
      <4> QED  BY <2>1, <4>2, <4>3 DEF LastFailed
    <3> QED  BY <1>2, <3>2, <3>3 DEF LastFailed
  <2> QED  BY <2>2, <2>3
<1>6. plan' = plan /\ answer' = Unanswered /\ consulted' \in Nat
  BY <1>2 DEF InTurn
<1>7. tried' \in Seq([candidate : ToSet(plan'.candidates), outcome : MovesOn \cup {"success", "client_error"}])
  BY <1>1, <1>6 DEF Outcomes
<1>8. next' # 1 /\ next' - 1 = next
  BY <1>1
<1> QED  BY <1>1, <1>3, <1>5, <1>6, <1>7, <1>8 DEF InTurn

(* So does the attempt that ends the create.                               *)
LEMMA TurnEnds ==
    ASSUME RouteInv, phase = "calling", NEW outcome \in Outcomes,
           Attempted(outcome), UNCHANGED <<plan, next, consulted>>, phase' = "done"
    PROVE  InTurn'
<1>1. next <= Len(plan.candidates) /\ consulted \in Nat
  BY DEF RouteInv, InTurn
<1>2. /\ tried' \in Seq([candidate : ToSet(plan.candidates), outcome : Outcomes])
      /\ Len(tried') = next
      /\ \A i \in DOMAIN tried' : tried'[i].candidate = plan.candidates[i]
  BY <1>1, TriedAppended
<1> QED  BY <1>1, <1>2 DEF InTurn, Outcomes

(* What no attempt changes of the invariant.                               *)
LEMMA PlanStays ==
    ASSUME RouteInv, UNCHANGED <<world, request, plan>>, store' \in [DOMAIN store -> Health]
    PROVE  /\ Asked' /\ Stored' /\ PlanRecord'
           /\ CandidatesSound(plan.candidates)' /\ WhyUnavailable(plan.unavailable)'
           /\ (world.plugins = <<>> => StagesOrdered(plan.candidates))'
<1>1. UNCHANGED <<world, request>> /\ plan' = plan
  OBVIOUS
<1>2. Asked' /\ Stored' /\ PlanRecord'
  BY <1>1, AskedFrozen, StoredFrozen DEF PlanRecord, RouteInv
<1>3. CandidatesSound(plan.candidates)' /\ WhyUnavailable(plan.unavailable)'
      /\ (world.plugins = <<>> => StagesOrdered(plan.candidates))'
  BY <1>1, SoundFrozen DEF RouteInv
<1> QED  BY <1>2, <1>3
(* The hold takes from the budget what may be given back.                  *)
LEMMA HoldEstimateKeeps ==
    ASSUME RouteInv, HoldEstimate
    PROVE  RouteInv'
<1>1. /\ phase = "trying" /\ next <= Len(plan.candidates) /\ Charged(Current) <= room
      /\ room' = Left(Current, -1) /\ phase' = "calling"
      /\ UNCHANGED <<world, request, store, traffic, plan, consulted, next, reason, lastFailure, tried, answer>>
  BY DEF HoldEstimate
<1>2. TypeOK /\ InTurn /\ room \in 0 .. NoBudget /\ Stored /\ answer = Unanswered
  BY <1>1 DEF RouteInv, TypeOK, InTurn
<1>3. /\ Asked' /\ Stored' /\ PlanRecord'
      /\ CandidatesSound(plan.candidates)' /\ WhyUnavailable(plan.unavailable)'
      /\ (world.plugins = <<>> => StagesOrdered(plan.candidates))'
  BY <1>1, <1>2, PlanStays DEF Stored
<1> DEFINE c == Charged(Current)
<1>4. c \in 0 .. NoBudget - 1 /\ c <= room
  BY <1>1, CurrentFacts
<1>5. Charged(Current)' = c
  BY <1>1 DEF Charged, Current
<1>6. room' = IF room = NoBudget THEN room ELSE room - c
  <2>1. room' = IF room = NoBudget THEN room ELSE room + (-1) * c
    BY <1>1 DEF Left
  <2>2. c \in Int
    BY <1>4 DEF NoBudget
  <2> HIDE DEF c
  <2> QED  BY <1>2, <2>1, <2>2 DEF NoBudget
<1> HIDE DEF c
<1>7. room' \in 0 .. NoBudget /\ (room' # NoBudget => room' + c < NoBudget)
  <2>1. room \in 0 .. NoBudget
    BY <1>2
  <2>2. CASE room = NoBudget
    BY <2>1, <2>2, <1>6
  <2>3. CASE room # NoBudget
    <3>1. room' = room - c /\ room < NoBudget /\ room \in Nat /\ c \in Nat
      BY <2>1, <2>3, <1>4, <1>6 DEF NoBudget
    <3> QED  BY <1>4, <3>1 DEF NoBudget
  <2> QED  BY <2>2, <2>3
<1>8. TypeOK'
  BY <1>1, <1>2, <1>7 DEF TypeOK
<1>9. InTurn'
  <2>1. LastFailed(next - 1)'
    BY <1>1, <1>2 DEF InTurn, LastFailed
  <2> QED  BY <1>1, <1>2, <2>1 DEF InTurn
<1>10. Returnable'
  BY <1>5, <1>7 DEF Returnable
<1>11. FallbackReported' /\ CandidatesExhausted'
  BY <1>1, <1>2, OpenReportsNext
<1> QED  BY <1>3, <1>8, <1>9, <1>10, <1>11 DEF RouteInv

(* A refused hold moves on.                                                *)
LEMMA HoldRefusedKeeps ==
    ASSUME RouteInv, HoldRefused
    PROVE  RouteInv'
<1>1. /\ phase = "trying" /\ next <= Len(plan.candidates)
      /\ reason' = "over_budget" /\ next' = next + 1 /\ Attempted("over_budget")
      /\ UNCHANGED <<world, request, store, room, traffic, phase, plan, consulted, lastFailure, answer>>
  BY DEF HoldRefused
<1>2. TypeOK /\ InTurn /\ Stored /\ answer = Unanswered
  BY <1>1 DEF RouteInv, InTurn
<1>3. /\ Asked' /\ Stored' /\ PlanRecord'
      /\ CandidatesSound(plan.candidates)' /\ WhyUnavailable(plan.unavailable)'
      /\ (world.plugins = <<>> => StagesOrdered(plan.candidates))'
  BY <1>1, <1>2, PlanStays DEF Stored
<1>4. "over_budget" \in MovesOn
  BY DEF MovesOn
<1>5. InTurn'
  BY <1>1, <1>4, TurnMoves
<1>6. TypeOK'
  <2>1. next \in Nat /\ next >= 1 /\ Len(plan.candidates) \in Nat
    BY <1>1, CurrentFacts
  <2>2. next' \in 1 .. (Len(plan'.candidates) + 1)
    BY <1>1, <2>1
  <2> QED  BY <1>1, <1>2, <2>2 DEF TypeOK
<1>7. Returnable'
  BY <1>1 DEF Returnable
<1>8. FallbackReported' /\ CandidatesExhausted'
  BY <1>1, <1>2, OpenReportsNext
<1> QED  BY <1>3, <1>5, <1>6, <1>7, <1>8 DEF RouteInv

(* The answer of an accepted attempt, and what it says of the fallback.    *)
LEMMA AcceptedAnswer ==
    ASSUME AttemptAccepted
    PROVE  LET fallback == \/ next > 1 \/ plan.unavailable # Unset
                           \/ request.model # "auto" /\ Current.kind # "pinned"
           IN  /\ answer'.fallback = fallback
               /\ answer'.reason = IF ~fallback THEN Unset
                                   ELSE IF reason = Unset THEN "provider_unavailable" ELSE reason
               /\ answer'.served = Current.key
  BY DEF AttemptAccepted

(* What was reported last before the attempt in turn.                      *)
LEMMA ReasonFacts ==
    ASSUME RouteInv, phase # "done"
    PROVE  /\ reason \in {Unset, "model_retired", "over_budget", "rate_limited", "provider_unavailable"}
           /\ next > 1 => reason = tried[next - 1].outcome /\ reason # Unset
           /\ next = 1 => reason = plan.unavailable
<1>1. /\ Len(tried) = next - 1 /\ \A i \in DOMAIN tried : tried[i].outcome \in MovesOn
      /\ reason = IF next = 1 THEN plan.unavailable ELSE tried[next - 1].outcome
      /\ tried \in Seq([candidate : ToSet(plan.candidates), outcome : Outcomes])
  BY DEF RouteInv, InTurn, Outcomes
<1>2. next \in Int /\ next >= 1
  BY DEF RouteInv, TypeOK
<1>3. plan.unavailable \in {Unset, "model_retired", "over_budget"}
  BY DEF RouteInv, WhyUnavailable
<1>4. ASSUME next > 1  PROVE reason = tried[next - 1].outcome /\ reason \in MovesOn
  <2>1. next - 1 \in DOMAIN tried /\ next # 1
    BY <1>1, <1>2, <1>4
  <2> QED  BY <1>1, <2>1
<1>5. Unset \notin MovesOn
  BY DEF Unset, MovesOn
<1>6. reason \in MovesOn \/ reason \in {Unset, "model_retired", "over_budget"}
  BY <1>1, <1>2, <1>3, <1>4
<1>7. reason \in {Unset, "model_retired", "over_budget", "rate_limited", "provider_unavailable"}
  <2> DEFINE none == Unset
  <2>1. reason \in MovesOn \/ reason \in {none, "model_retired", "over_budget"}
    BY <1>6
  <2> HIDE DEF none
  <2>2. reason \in {none, "model_retired", "over_budget", "rate_limited", "provider_unavailable"}
    BY <2>1 DEF MovesOn
  <2> QED  BY <2>2 DEF none
<1> QED  BY <1>1, <1>4, <1>5, <1>7
(* The reports of an accepted attempt are right.                           *)
LEMMA AcceptedReports ==
    ASSUME RouteInv, AttemptAccepted
    PROVE  FallbackReported' /\ CandidatesExhausted'
<1>1. /\ phase = "calling" /\ phase' = "done" /\ Attempted("success")
      /\ UNCHANGED <<world, request, room, traffic, plan, consulted, next, reason, lastFailure>>
  BY DEF AttemptAccepted
<1>2. next <= Len(plan.candidates) /\ "success" \in Outcomes /\ phase # "done"
  BY <1>1 DEF RouteInv, InTurn, Outcomes
<1>3. /\ Len(tried') = next /\ tried'[next].candidate = Current
      /\ \A i \in 1 .. next - 1 : tried'[i] = tried[i] /\ i \in DOMAIN tried
      /\ next \in Nat /\ next >= 1
  BY <1>1, <1>2, TriedAppended
<1>4. Allowed(Current) /\ next \in DOMAIN plan.candidates
  BY <1>2, CurrentFacts
<1>5. Current.key # <<>>
  BY <1>4 DEF Allowed
<1> DEFINE fallback == \/ next > 1 \/ plan.unavailable # Unset
                       \/ request.model # "auto" /\ Current.kind # "pinned"
<1>6. /\ answer'.fallback = fallback
      /\ answer'.reason = IF ~fallback THEN Unset
                          ELSE IF reason = Unset THEN "provider_unavailable" ELSE reason
      /\ answer'.served = Current.key
  BY AcceptedAnswer
<1>7. request.model # "auto" => (Current.kind = "pinned" <=> Current.key[3] = RealModel)
  BY <1>4 DEF RouteInv, CandidatesSound, Current
<1>8. fallback = (next > 1 \/ plan.unavailable # Unset \/ (request.model # "auto" /\ Current.key[3] # RealModel))
  BY <1>7
<1>9. /\ next > 1 => reason = tried[next - 1].outcome /\ reason # Unset
      /\ next = 1 => reason = plan.unavailable
  BY <1>2, ReasonFacts
<1>10. plan.unavailable # Unset => plan.unavailable = IF Limits(RealModel).lifecycle = "retired"
                                                      THEN "model_retired" ELSE "over_budget"
  BY DEF RouteInv, WhyUnavailable
<1>11. ASSUME next > 1  PROVE answer'.reason = tried'[next - 1].outcome
  <2>1. next - 1 \in 1 .. next - 1
    BY <1>3, <1>11
  <2>2. tried'[next - 1] = tried[next - 1]
    BY <1>3, <2>1
  <2>3. fallback
    BY <1>11
  <2> HIDE DEF fallback
  <2> QED  BY <1>6, <1>9, <1>11, <2>2, <2>3
<1>12. ASSUME next = 1, plan.unavailable # Unset
       PROVE answer'.reason = IF Limits(RealModel).lifecycle = "retired" THEN "model_retired" ELSE "over_budget"
  <2>1. fallback /\ reason = plan.unavailable
    BY <1>9, <1>12
  <2> HIDE DEF fallback
  <2> QED  BY <1>6, <1>10, <1>12, <2>1
<1>13. RealModel' = RealModel /\ \A m : Limits(m)' = Limits(m)
  BY <1>1, Frozen
<1>14. tried'[Len(tried')].candidate = Current /\ Len(tried') - 1 = next - 1 /\ plan' = plan /\ request' = request
  BY <1>1, <1>3
<1> HIDE DEF fallback
<1>15. FallbackReported'
  <2>1. answer'.fallback = (next - 1 > 0 \/ plan.unavailable # Unset
                              \/ (request.model # "auto" /\ Current.key[3] # RealModel))
    BY <1>3, <1>6, <1>8
  <2>2. next - 1 > 0 => answer'.reason = tried'[next - 1].outcome
    BY <1>3, <1>11
  <2>3. next - 1 = 0 /\ plan.unavailable # Unset =>
          answer'.reason = IF Limits(RealModel).lifecycle = "retired" THEN "model_retired" ELSE "over_budget"
    BY <1>3, <1>12
  <2> QED  BY <1>13, <1>14, <2>1, <2>2, <2>3 DEF FallbackReported
<1>16. CandidatesExhausted'
  BY <1>5, <1>6 DEF CandidatesExhausted
<1> QED  BY <1>15, <1>16

(* An accepted attempt ends the create.                                    *)
LEMMA AttemptAcceptedKeeps ==
    ASSUME RouteInv, AttemptAccepted
    PROVE  RouteInv'
<1>1. /\ phase = "calling" /\ phase' = "done" /\ Attempted("success")
      /\ Observe(Current.key, "success", Typical)
      /\ UNCHANGED <<world, request, room, traffic, plan, consulted, next, reason, lastFailure>>
  BY DEF AttemptAccepted
<1>2. TypeOK /\ Stored /\ Typical \in Latencies /\ "success" \in Outcomes /\ phase # "done"
  BY <1>1 DEF RouteInv, Typical, Latencies, Outcomes
<1>3. store' \in [DOMAIN store -> Health]
  BY <1>1, <1>2, ObserveType
<1>4. /\ Asked' /\ Stored' /\ PlanRecord'
      /\ CandidatesSound(plan.candidates)' /\ WhyUnavailable(plan.unavailable)'
      /\ (world.plugins = <<>> => StagesOrdered(plan.candidates))'
  BY <1>1, <1>3, PlanStays
<1>5. InTurn'
  BY <1>1, <1>2, TurnEnds
<1>6. TypeOK'
  <2>1. reason \in {Unset, "model_retired", "over_budget", "rate_limited", "provider_unavailable"}
    BY <1>2, ReasonFacts
  <2> DEFINE none == Unset
  <2>2. answer'.reason \in {none, "provider_unavailable"} \/ answer'.reason = reason
    BY AcceptedAnswer
  <2>3. reason \in {none, "model_retired", "over_budget", "rate_limited", "provider_unavailable"}
    BY <2>1
  <2> HIDE DEF none
  <2>4. answer'.reason \in {none, "model_retired", "over_budget"} \cup (Failures \ {"client_error"})
    BY <2>2, <2>3 DEF Failures
  <2>5. answer'.reason \in {Unset, "model_retired", "over_budget"} \cup (Failures \ {"client_error"})
    BY <2>4 DEF none
  <2>6. store' \in [DOMAIN store' -> [score : Scores, latency : Latencies, cooling : BOOLEAN, tried : BOOLEAN]]
    BY <1>3 DEF Health
  <2> QED  BY <1>1, <1>2, <2>5, <2>6 DEF TypeOK
<1>7. Returnable'
  BY <1>1 DEF Returnable
<1> QED  BY <1>4, <1>5, <1>6, <1>7, AcceptedReports DEF RouteInv
(* What is held is given back by an attempt that fails.                    *)
LEMMA GivenBack ==
    ASSUME RouteInv, phase = "calling", room' = Left(Current, 1)
    PROVE  room' \in 0 .. NoBudget
<1> DEFINE c == Charged(Current)
<1>1. c \in 0 .. NoBudget - 1
  BY CurrentFacts DEF RouteInv, InTurn
<1>2. room \in 0 .. NoBudget /\ (room # NoBudget => room + c < NoBudget)
  BY DEF RouteInv, TypeOK, Returnable
<1>3. room' = IF room = NoBudget THEN room ELSE room + c
  <2>1. room' = IF room = NoBudget THEN room ELSE room + 1 * c
    BY DEF Left
  <2>2. c \in Int
    BY <1>1 DEF NoBudget
  <2> HIDE DEF c
  <2> QED  BY <1>2, <2>1, <2>2 DEF NoBudget
<1> HIDE DEF c
<1>4. CASE room = NoBudget
  BY <1>2, <1>3, <1>4
<1>5. CASE room # NoBudget
  <2>1. room' = room + c /\ room + c < NoBudget
    BY <1>2, <1>3, <1>5
  <2>2. room \in Nat /\ c \in Nat /\ NoBudget \in Nat
    BY <1>1, <1>2 DEF NoBudget
  <2> QED  BY <2>1, <2>2
<1> QED  BY <1>4, <1>5

(* A failed attempt, taken apart.                                          *)
LEMMA AttemptFailedFacts ==
    ASSUME AttemptFailed
    PROVE  /\ phase = "calling" /\ room' = Left(Current, 1)
           /\ UNCHANGED <<world, request, traffic, plan, consulted>>
           /\ \E failure \in Failures :
                /\ Observe(Current.key, failure, Typical)
                /\ Attempted(failure) /\ lastFailure' = failure
                /\ \/ /\ failure = "client_error" \/ (request.model # "auto" /\ Policy.fallback = "none")
                      /\ phase' = "done" /\ answer' = [answer EXCEPT !.code = failure]
                      /\ UNCHANGED <<reason, next>>
                   \/ /\ failure # "client_error"
                      /\ reason' = failure /\ next' = next + 1
                      /\ phase' = "trying" /\ UNCHANGED answer
  BY DEF AttemptFailed, Refuse, Retryable

(* A failed attempt gives back what it held, and moves on or ends.         *)
LEMMA AttemptFailedKeeps ==
    ASSUME RouteInv, AttemptFailed
    PROVE  RouteInv'
<1>1. /\ phase = "calling" /\ room' = Left(Current, 1)
      /\ UNCHANGED <<world, request, traffic, plan, consulted>>
  BY AttemptFailedFacts
<1>2. PICK failure \in Failures :
        /\ Observe(Current.key, failure, Typical)
        /\ Attempted(failure) /\ lastFailure' = failure
        /\ \/ /\ failure = "client_error" \/ (request.model # "auto" /\ Policy.fallback = "none")
              /\ phase' = "done" /\ answer' = [answer EXCEPT !.code = failure]
              /\ UNCHANGED <<reason, next>>
           \/ /\ failure # "client_error"
              /\ reason' = failure /\ next' = next + 1
              /\ phase' = "trying" /\ UNCHANGED answer
  BY AttemptFailedFacts
<1>3. TypeOK /\ InTurn /\ Stored /\ Typical \in Latencies /\ answer = Unanswered
      /\ next <= Len(plan.candidates) /\ failure \in Outcomes
  BY <1>1 DEF RouteInv, InTurn, Typical, Latencies, Outcomes, Failures, MovesOn
<1>4. store' \in [DOMAIN store -> Health]
  BY <1>2, <1>3, ObserveType
<1>5. /\ Asked' /\ Stored' /\ PlanRecord'
      /\ CandidatesSound(plan.candidates)' /\ WhyUnavailable(plan.unavailable)'
      /\ (world.plugins = <<>> => StagesOrdered(plan.candidates))'
  BY <1>1, <1>4, PlanStays
<1>6. room' \in 0 .. NoBudget
  BY <1>1, GivenBack
<1>7. store' \in [DOMAIN store' -> [score : Scores, latency : Latencies, cooling : BOOLEAN, tried : BOOLEAN]]
  BY <1>4 DEF Health
<1>8. next \in Nat /\ next >= 1 /\ Len(plan.candidates) \in Nat
  BY <1>3, CurrentFacts
<1>9. CASE /\ failure = "client_error" \/ (request.model # "auto" /\ Policy.fallback = "none")
           /\ phase' = "done" /\ answer' = [answer EXCEPT !.code = failure]
           /\ UNCHANGED <<reason, next>>
  <2>1. InTurn'
    BY <1>1, <1>2, <1>3, <1>9, TurnEnds
  <2>2. answer'.served = <<>> /\ answer'.reason = Unset /\ answer'.code = failure
    BY <1>3, <1>9, RefusedAnswer
  <2>3. TypeOK'
    BY <1>1, <1>3, <1>6, <1>7, <1>8, <1>9, <2>2 DEF TypeOK
  <2>4. Returnable'
    BY <1>9 DEF Returnable
  <2>5. FallbackReported'
    BY <2>2 DEF FallbackReported
  <2>6. Len(tried') = next /\ tried'[next].outcome = failure
    BY <1>1, <1>2, <1>3, TriedAppended
  <2>7. Policy' = Policy /\ request' = request
    BY <1>1, Frozen
  <2>8. CandidatesExhausted'
    <3>1. CASE failure = "client_error"
      BY <2>2, <2>6, <3>1 DEF CandidatesExhausted
    <3>2. CASE request.model # "auto" /\ Policy.fallback = "none"
      BY <2>7, <3>2 DEF CandidatesExhausted
    <3> QED  BY <1>9, <3>1, <3>2
  <2> QED  BY <1>5, <2>1, <2>3, <2>4, <2>5, <2>8 DEF RouteInv
<1>10. CASE /\ failure # "client_error"
            /\ reason' = failure /\ next' = next + 1
            /\ phase' = "trying" /\ UNCHANGED answer
  <2>1. failure \in MovesOn /\ failure # "over_budget"
    BY <1>10 DEF Failures, MovesOn
  <2>2. InTurn'
    BY <1>1, <1>2, <1>3, <1>10, <2>1, TurnMoves
  <2>3. next' \in 1 .. (Len(plan'.candidates) + 1)
    BY <1>1, <1>3, <1>8, <1>10
  <2>4. TypeOK'
    BY <1>1, <1>3, <1>6, <1>7, <1>10, <2>3 DEF TypeOK
  <2>5. Returnable'
    BY <1>10 DEF Returnable
  <2>6. FallbackReported' /\ CandidatesExhausted'
    BY <1>3, <1>10, OpenReportsNext
  <2> QED  BY <1>5, <2>2, <2>4, <2>5, <2>6 DEF RouteInv
<1> QED  BY <1>2, <1>9, <1>10

(* The largest of the attempts that reached a provider.                    *)
LEMMA LastIs ==
    ASSUME NEW S, S \subseteq Nat, NEW i \in S, \A j \in S : j <= i
    PROVE  Max(S) = i
<1>1. \A j \in S : i >= j
  OBVIOUS
<1>2. Max(S) \in S /\ \A j \in S : Max(S) >= j
  BY <1>1 DEF Max
<1>3. Max(S) \in Nat /\ i \in Nat
  BY <1>2
<1> QED  BY <1>2, <1>3

(* An exhausted plan: all candidates were tried, and the last failure is   *)
(* the answer.                                                             *)
LEMMA ExhaustedKeeps ==
    ASSUME RouteInv, Exhausted
    PROVE  RouteInv'
<1> DEFINE code == IF lastFailure # Unset THEN lastFailure ELSE "budget_exceeded"
<1>1. /\ phase = "trying" /\ next > Len(plan.candidates)
      /\ phase' = "done" /\ answer' = [answer EXCEPT !.code = code]
      /\ UNCHANGED <<world, request, store, room, traffic, plan, consulted, next, reason, lastFailure, tried>>
  BY DEF Exhausted, Refuse
<1>2. /\ TypeOK /\ InTurn /\ Stored /\ answer = Unanswered /\ Len(tried) = next - 1
      /\ \A i \in DOMAIN tried : tried[i].outcome \in MovesOn /\ tried[i].candidate = plan.candidates[i]
      /\ LastFailed(next - 1)
  BY <1>1 DEF RouteInv, InTurn
<1>3. /\ Asked' /\ Stored' /\ PlanRecord'
      /\ CandidatesSound(plan.candidates)' /\ WhyUnavailable(plan.unavailable)'
      /\ (world.plugins = <<>> => StagesOrdered(plan.candidates))'
  BY <1>1, <1>2, PlanStays DEF Stored
<1>4. answer'.served = <<>> /\ answer'.reason = Unset /\ answer'.code = code
  BY <1>1, <1>2, RefusedAnswer
<1>5. TypeOK'
  BY <1>1, <1>2, <1>4 DEF TypeOK
<1>6. InTurn'
  BY <1>1, <1>2 DEF InTurn
<1>7. Returnable'
  BY <1>1 DEF Returnable
<1>8. FallbackReported'
  BY <1>4 DEF FallbackReported
<1>9. CandidatesExhausted'
  <2>1. plan.candidates \in Seq(ToSet(plan.candidates)) /\ next \in 1 .. (Len(plan.candidates) + 1)
    BY <1>2 DEF RouteInv, CandidatesSound, TypeOK
  <2>2. Len(plan.candidates) \in Nat /\ DOMAIN plan.candidates = 1 .. Len(plan.candidates)
    BY <2>1
  <2>3. next - 1 = Len(plan.candidates) /\ next - 1 \in Nat
    BY <1>1, <2>1, <2>2
  <2>4. DOMAIN tried = DOMAIN plan.candidates /\ DOMAIN tried = 1 .. next - 1
    <3>1. tried \in Seq([candidate : ToSet(plan.candidates), outcome : Outcomes])
      BY <1>2 DEF InTurn, Outcomes
    <3> QED  BY <1>2, <2>2, <2>3, <3>1
  <2>5. {tried[i].candidate : i \in DOMAIN tried} = ToSet(plan.candidates)
    BY <1>2, <2>4 DEF ToSet
  <2> DEFINE failed == {i \in DOMAIN tried : tried[i].outcome # "over_budget"}
  <2>6. code = IF failed = {} THEN "budget_exceeded" ELSE tried[Max(failed)].outcome
    <3>1. CASE lastFailure = Unset /\ \A i \in 1 .. next - 1 : tried[i].outcome = "over_budget"
      <4>1. failed = {}
        BY <2>4, <3>1
      <4> QED  BY <3>1, <4>1
    <3>2. CASE \E i \in 1 .. next - 1 : /\ tried[i].outcome # "over_budget" /\ lastFailure = tried[i].outcome
                                        /\ \A j \in 1 .. next - 1 : i < j => tried[j].outcome = "over_budget"
      <4>1. PICK i \in 1 .. next - 1 : /\ tried[i].outcome # "over_budget" /\ lastFailure = tried[i].outcome
                                       /\ \A j \in 1 .. next - 1 : i < j => tried[j].outcome = "over_budget"
        BY <3>2
      <4>2. i \in failed /\ failed \subseteq Nat /\ \A j \in failed : j <= i
        BY <2>3, <2>4, <4>1
      <4>3. Max(failed) = i
        <5> HIDE DEF failed
        <5> QED  BY <4>2, LastIs
      <4>4. lastFailure # Unset
        <5>1. tried[i].outcome \in MovesOn
          BY <1>2, <2>4
        <5>2. Unset \notin MovesOn
          BY DEF MovesOn, Unset
        <5> QED  BY <4>1, <5>1, <5>2
      <4> HIDE DEF failed
      <4> QED  BY <4>1, <4>2, <4>3, <4>4
    <3> QED  BY <1>2, <3>1, <3>2 DEF LastFailed
  <2>7. tried' = tried /\ plan' = plan
    BY <1>1
  <2> HIDE DEF code
  <2> QED  BY <1>4, <2>5, <2>6, <2>7 DEF CandidatesExhausted
<1> QED  BY <1>3, <1>5, <1>6, <1>7, <1>8, <1>9 DEF RouteInv
---------------------------------------------------------------------------
(* Every step keeps the invariant: everybody else *)

(* A change of the store before the plan is made.                          *)
LEMMA StoreMoves ==
    ASSUME RouteInv, phase = "new", store' \in [DOMAIN store -> Health],
           UNCHANGED <<world, request, room, phase, plan, consulted, next, reason, lastFailure, tried, answer>>
    PROVE  RouteInv'
<1>1. /\ Asked' /\ Stored' /\ PlanRecord'
      /\ CandidatesSound(plan.candidates)' /\ WhyUnavailable(plan.unavailable)'
      /\ (world.plugins = <<>> => StagesOrdered(plan.candidates))'
  BY PlanStays
<1>2. TypeOK /\ InTurn /\ answer = Unanswered
  BY DEF RouteInv, InTurn
<1>3. store' \in [DOMAIN store' -> [score : Scores, latency : Latencies, cooling : BOOLEAN, tried : BOOLEAN]]
  BY DEF Health
<1>4. TypeOK'
  BY <1>2, <1>3 DEF TypeOK
<1>5. InTurn'
  <2>1. LastFailed(next - 1)'
    BY <1>2 DEF InTurn, LastFailed
  <2> QED  BY <1>2, <2>1 DEF InTurn
<1>6. Returnable'
  BY DEF Returnable
<1>7. FallbackReported' /\ CandidatesExhausted'
  BY <1>2, OpenReportsNext
<1> QED  BY <1>1, <1>4, <1>5, <1>6, <1>7 DEF RouteInv

(* Other creates move the scores.                                          *)
LEMMA OthersObserveKeeps ==
    ASSUME RouteInv, OthersObserve
    PROVE  RouteInv'
<1>1. /\ phase = "new"
      /\ UNCHANGED <<world, request, room, phase, plan, consulted, next, reason, lastFailure, tried, answer>>
  BY DEF OthersObserve
<1>2. \E k \in DOMAIN store, outcome \in {"success", "rate_limited", "provider_unavailable"},
         latency \in {0, 2} : Observe(k, outcome, latency)
  BY DEF OthersObserve
<1>3. {0, 2} \subseteq Latencies
  BY DEF Latencies
<1>4. store' \in [DOMAIN store -> Health]
  BY <1>2, <1>3, ObserveType DEF RouteInv
<1> QED  BY <1>1, <1>4, StoreMoves

(* A cooldown ends.                                                        *)
LEMMA CooldownEndsKeeps ==
    ASSUME RouteInv, CooldownEnds
    PROVE  RouteInv'
<1>1. /\ phase = "new"
      /\ UNCHANGED <<world, request, room, phase, plan, consulted, next, reason, lastFailure, tried, answer>>
  BY DEF CooldownEnds
<1>2. PICK k \in DOMAIN store : store' = [store EXCEPT ![k].cooling = FALSE]
  BY DEF CooldownEnds
<1>3. store \in [DOMAIN store -> Health]
  BY DEF RouteInv, Stored
<1>4. store' \in [DOMAIN store -> Health]
  BY <1>2, <1>3 DEF Health
<1> QED  BY <1>1, <1>4, StoreMoves

(* Other creates spend what was left: what is held is less than a budget.  *)
LEMMA OthersSpendKeeps ==
    ASSUME RouteInv, OthersSpend
    PROVE  RouteInv'
<1>1. /\ phase # "done" /\ room # NoBudget /\ room' = 0
      /\ UNCHANGED <<world, request, store, phase, plan, consulted, next, reason, lastFailure, tried, answer>>
  BY DEF OthersSpend
<1>2. TypeOK /\ InTurn /\ Stored /\ answer = Unanswered
  BY <1>1 DEF RouteInv, InTurn
<1>3. /\ Asked' /\ Stored' /\ PlanRecord'
      /\ CandidatesSound(plan.candidates)' /\ WhyUnavailable(plan.unavailable)'
      /\ (world.plugins = <<>> => StagesOrdered(plan.candidates))'
  BY <1>1, <1>2, PlanStays DEF Stored
<1>4. TypeOK'
  <2>1. room' \in 0 .. NoBudget
    BY <1>1 DEF NoBudget
  <2> QED  BY <1>1, <1>2, <2>1 DEF TypeOK
<1>5. InTurn'
  <2>1. LastFailed(next - 1)'
    BY <1>1, <1>2 DEF InTurn, LastFailed
  <2> QED  BY <1>1, <1>2, <2>1 DEF InTurn
<1>6. Returnable'
  <2>1. ASSUME phase = "calling"  PROVE 0 + Charged(Current)' < NoBudget
    <3>1. next <= Len(plan.candidates)
      BY <1>2, <2>1 DEF InTurn
    <3>2. Charged(Current)' = Charged(Current)
      BY <1>1 DEF Charged, Current
    <3>3. Charged(Current) \in 0 .. NoBudget - 1
      BY <3>1, CurrentFacts
    <3> QED  BY <3>2, <3>3 DEF NoBudget
  <2> QED  BY <1>1, <2>1 DEF Returnable
<1>7. FallbackReported' /\ CandidatesExhausted'
  BY <1>1, <1>2, OpenReportsNext
<1> QED  BY <1>3, <1>4, <1>5, <1>6, <1>7 DEF RouteInv

(* Nothing happens.                                                        *)
LEMMA RouteStutters ==
    ASSUME RouteInv, UNCHANGED vars
    PROVE  RouteInv'
<1>1. UNCHANGED <<world, request, store, room, traffic, phase, plan, consulted, next,
                  reason, lastFailure, tried, answer>>
  BY DEF vars
<1>2. TypeOK /\ InTurn /\ Stored
  BY DEF RouteInv
<1>3. /\ Asked' /\ Stored' /\ PlanRecord'
      /\ CandidatesSound(plan.candidates)' /\ WhyUnavailable(plan.unavailable)'
      /\ (world.plugins = <<>> => StagesOrdered(plan.candidates))'
  BY <1>1, <1>2, PlanStays DEF Stored
<1>4. TypeOK'
  BY <1>1, <1>2 DEF TypeOK
<1>5. InTurn'
  <2>1. LastFailed(next - 1)' <=> LastFailed(next - 1)
    BY <1>1 DEF LastFailed
  <2> QED  BY <1>1, <1>2, <2>1 DEF InTurn
<1>6. Returnable'
  BY <1>1 DEF Returnable, RouteInv, Charged, Current
<1>7. /\ Policy' = Policy /\ RealModel' = RealModel /\ \A m : Limits(m)' = Limits(m)
  BY <1>1, Frozen
<1>8. FallbackReported'
  BY <1>1, <1>7 DEF RouteInv, FallbackReported
<1>9. CandidatesExhausted'
  BY <1>1, <1>7 DEF RouteInv, CandidatesExhausted
<1> QED  BY <1>3, <1>4, <1>5, <1>6, <1>8, <1>9 DEF RouteInv

(* The invariant is inductive.                                             *)
LEMMA RouteStep == RouteInv /\ [Next]_vars => RouteInv'
<1> SUFFICES ASSUME RouteInv, [Next]_vars  PROVE RouteInv'
  OBVIOUS
<1>1. CASE UNCHANGED vars
  BY <1>1, RouteStutters
<1>2. CASE PlanRoute
  BY <1>2, PlanRouteKeeps
<1>3. CASE PluginRoutes
  BY <1>3, PluginRoutesKeeps
<1>4. CASE PluginFails
  BY <1>4, PluginFailsKeeps
<1>5. CASE RouteSettled
  BY <1>5, RouteSettledKeeps
<1>6. CASE HoldEstimate
  BY <1>6, HoldEstimateKeeps
<1>7. CASE HoldRefused
  BY <1>7, HoldRefusedKeeps
<1>8. CASE AttemptAccepted
  BY <1>8, AttemptAcceptedKeeps
<1>9. CASE AttemptFailed
  BY <1>9, AttemptFailedKeeps
<1>10. CASE Exhausted
  BY <1>10, ExhaustedKeeps
<1>11. CASE OthersObserve
  BY <1>11, OthersObserveKeeps
<1>12. CASE OthersSpend
  BY <1>12, OthersSpendKeeps
<1>13. CASE CooldownEnds
  BY <1>13, CooldownEndsKeeps
<1>14. CASE Done
  BY <1>14, RouteStutters DEF Done
<1> QED  BY <1>1, <1>2, <1>3, <1>4, <1>5, <1>6, <1>7, <1>8, <1>9, <1>10, <1>11, <1>12, <1>13, <1>14 DEF Next

(* What the routing plan and its attempts are known to be, always.         *)
THEOREM RouteInvariant == Spec => []RouteInv
<1> QED  BY RouteInit, RouteStep, PTL DEF Spec
---------------------------------------------------------------------------
(* The fallbacks *)

(* What is tried follows the plan, and the plan follows the fallback.      *)
LEMMA FallbackFollows ==
    ASSUME DistinctAccounts, RouteInv
    PROVE  FallbackKept
<1>1. /\ CandidatesSound(plan.candidates) /\ (world.plugins = <<>> => StagesOrdered(plan.candidates))
      /\ Len(tried) <= Len(plan.candidates) /\ \A i \in DOMAIN tried : tried[i].candidate = plan.candidates[i]
      /\ tried \in Seq([candidate : ToSet(plan.candidates), outcome : Outcomes])
  BY DEF RouteInv, InTurn, Outcomes
<1>2. /\ plan.candidates \in Seq(ToSet(plan.candidates)) /\ DistinctKeys(plan.candidates)
      /\ request.model # "auto" =>
           /\ Policy.fallback # "any" => \A i \in DOMAIN plan.candidates : plan.candidates[i].key[3] = RealModel
           /\ Policy.fallback = "none" => Len(plan.candidates) <= 1
  BY <1>1 DEF CandidatesSound
<1>3. DOMAIN tried \subseteq DOMAIN plan.candidates /\ Len(tried) \in Nat /\ Len(plan.candidates) \in Nat
  BY <1>1, <1>2
<1>4. \A i, j \in DOMAIN tried : i # j => tried[i].candidate.key # tried[j].candidate.key
  BY <1>1, <1>2, <1>3 DEF DistinctKeys
<1>5. ASSUME request.model # "auto"
      PROVE  /\ Policy.fallback = "none" => Len(tried) <= 1
             /\ Policy.fallback # "any" => \A i \in DOMAIN tried : StageOf(tried[i].candidate) = 1
             /\ world.plugins = <<>> =>
                  \A i, j \in DOMAIN tried : i < j => StageOf(tried[i].candidate) <= StageOf(tried[j].candidate)
  <2>1. Policy.fallback = "none" => Len(tried) <= 1
    BY <1>1, <1>2, <1>3, <1>5
  <2>2. Policy.fallback # "any" => \A i \in DOMAIN tried : StageOf(tried[i].candidate) = 1
    BY <1>1, <1>2, <1>3, <1>5 DEF StageOf
  <2>3. world.plugins = <<>> =>
          \A i, j \in DOMAIN tried : i < j => StageOf(tried[i].candidate) <= StageOf(tried[j].candidate)
    BY <1>1, <1>3, <1>5 DEF StagesOrdered
  <2> QED  BY <2>1, <2>2, <2>3
<1> QED  BY <1>4, <1>5 DEF FallbackKept, StageOf

(* Fallbacks are those asked for, no candidate is taken up twice, the task *)
(* says what the fallback was, and a create that may fall back fails only  *)
(* on a client error or once nothing is left (execute_plan, plan_route).   *)
THEOREM FallbackIsSound ==
    ASSUME DistinctAccounts
    PROVE  Spec => []FallbackSound
<1>1. RouteInv => FallbackSound
  BY FallbackFollows DEF FallbackSound, RouteInv
<1> QED  BY <1>1, RouteInvariant, PTL

---------------------------------------------------------------------------
(* What a planning step decides *)

(* Only one action plans.                                                  *)
LEMMA PlanningIsPlanRoute ==
    ASSUME RouteInv, [Next]_vars, Planning
    PROVE  PlanRoute
<1>1. phase = "new" /\ phase' # phase
  BY DEF Planning
<1>2. ~ UNCHANGED vars /\ ~ Done
  BY <1>1 DEF vars, Done
<1>3. ~ PluginRoutes /\ ~ PluginFails /\ ~ RouteSettled
  BY <1>1 DEF PluginRoutes, PluginFails, RouteSettled
<1>4. ~ HoldEstimate /\ ~ HoldRefused /\ ~ AttemptAccepted /\ ~ AttemptFailed /\ ~ Exhausted
  BY <1>1 DEF HoldEstimate, HoldRefused, AttemptAccepted, AttemptFailed, Exhausted
<1>5. ~ OthersObserve /\ ~ OthersSpend /\ ~ CooldownEnds
  BY <1>1 DEF OthersObserve, OthersSpend, CooldownEnds
<1> QED  BY <1>2, <1>3, <1>4, <1>5 DEF Next

(* The plan adopted, and what is known when it is made.                    *)
LEMMA PlanningFacts ==
    ASSUME RouteInv, [Next]_vars, Planning
    PROVE  /\ Asked /\ Stored /\ room \in 0 .. NoBudget /\ answer = Unanswered
           /\ plan'.candidates = Planned(TRUE).candidates
           /\ PlanFacts(Planned(TRUE))
           /\ phase' = IF Planned(TRUE).error # Unset THEN "done" ELSE "planned"
           /\ answer'.code = Planned(TRUE).error
<1>1. PlanRoute
  BY PlanningIsPlanRoute
<1>2. Asked /\ Stored /\ room \in 0 .. NoBudget /\ answer = Unanswered
  BY DEF RouteInv, TypeOK, InTurn, Planning
<1>3. PlanFacts(Planned(TRUE))
  BY <1>2, PlannedSound
<1>4. /\ plan'.candidates = Planned(TRUE).candidates
      /\ IF Planned(TRUE).error # Unset THEN phase' = "done" /\ answer' = [answer EXCEPT !.code = Planned(TRUE).error]
         ELSE phase' = "planned" /\ answer' = answer
  BY <1>1, PlanRouteFacts
<1> DEFINE error == Planned(TRUE).error
<1> HIDE DEF error
<1>5. answer'.code = error
  <2>1. IF error # Unset THEN phase' = "done" /\ answer' = [answer EXCEPT !.code = error]
        ELSE phase' = "planned" /\ answer' = answer
    BY <1>4 DEF error
  <2>2. CASE error # Unset
    BY <1>2, <2>1, <2>2, RefusedAnswer
  <2>3. CASE error = Unset
    BY <1>2, <2>1, <2>3 DEF Unanswered
  <2> QED  BY <2>2, <2>3
<1>6. answer'.code = Planned(TRUE).error
  BY <1>5 DEF error
<1> QED  BY <1>2, <1>3, <1>4, <1>6

(* In a plan, a candidate cooling down is behind every other of its kind.  *)
LEMMA CoolingStep ==
    ASSUME RouteInv, [Next]_vars
    PROVE  Planning => \A i, j \in DOMAIN plan'.candidates :
             LET c == plan'.candidates[i]
                 d == plan'.candidates[j]
             IN  i < j /\ c.kind = d.kind /\ store[c.key].cooling => store[d.key].cooling
<1> SUFFICES ASSUME Planning
             PROVE \A i, j \in DOMAIN plan'.candidates :
                     LET c == plan'.candidates[i]
                         d == plan'.candidates[j]
                     IN  i < j /\ c.kind = d.kind /\ store[c.key].cooling => store[d.key].cooling
  OBVIOUS
<1>1. plan'.candidates = Planned(TRUE).candidates /\ KindsSink(Planned(TRUE).candidates)
  BY PlanningFacts DEF PlanFacts
<1> QED  BY <1>1 DEF KindsSink
(* Only an accepted attempt names who serves.                              *)
LEMMA ServedByAttempt ==
    ASSUME RouteInv, [Next]_vars, answer'.served # answer.served
    PROVE  AttemptAccepted
<1>1. phase # "done" => answer = Unanswered
  BY DEF RouteInv, InTurn
<1>2. \A code : phase # "done" /\ answer' = [answer EXCEPT !.code = code] => answer'.served = answer.served
  BY <1>1, RefusedAnswer DEF Unanswered
<1>3. ~ UNCHANGED answer
  OBVIOUS
<1>4. ~ UNCHANGED vars /\ ~ Done /\ ~ PluginRoutes /\ ~ HoldEstimate /\ ~ HoldRefused
  <2>1. PluginRoutes => UNCHANGED answer
    BY PluginRoutesFacts DEF RouteInv
  <2>2. ~ UNCHANGED vars /\ ~ Done /\ ~ HoldEstimate /\ ~ HoldRefused
    BY <1>3 DEF vars, Done, HoldEstimate, HoldRefused
  <2> QED  BY <1>3, <2>1, <2>2
<1>5. ~ OthersObserve /\ ~ OthersSpend /\ ~ CooldownEnds
  BY <1>3 DEF OthersObserve, OthersSpend, CooldownEnds
<1>6. ~ PlanRoute
  <2>1. ASSUME PlanRoute  PROVE FALSE
    <3>1. /\ phase = "new"
          /\ IF Planned(TRUE).error # Unset THEN answer' = [answer EXCEPT !.code = Planned(TRUE).error]
             ELSE answer' = answer
      BY <2>1, PlanRouteFacts
    <3> DEFINE error == Planned(TRUE).error
    <3> HIDE DEF error
    <3>2. phase = "new" /\ (answer' = [answer EXCEPT !.code = error] \/ answer' = answer)
      BY <3>1 DEF error
    <3> QED  BY <1>2, <1>3, <3>2
  <2> QED  BY <2>1
<1>7. ~ PluginFails /\ ~ RouteSettled
  BY <1>2, <1>3 DEF PluginFails, RouteSettled, Refuse
<1>8. ~ AttemptFailed
  <2>1. AttemptFailed => /\ phase = "calling"
                         /\ \/ UNCHANGED answer
                            \/ \E failure : answer' = [answer EXCEPT !.code = failure]
    BY AttemptFailedFacts
  <2> QED  BY <1>2, <1>3, <2>1
<1>9. ~ Exhausted
  <2>1. Exhausted => phase = "trying" /\ \E code : answer' = [answer EXCEPT !.code = code]
    BY DEF Exhausted, Refuse
  <2> QED  BY <1>2, <2>1
<1> QED  BY <1>4, <1>5, <1>6, <1>7, <1>8, <1>9 DEF Next

(* The served model and backend are within the policy.                     *)
LEMMA ServedStep ==
    ASSUME RouteInv, [Next]_vars
    PROVE  answer'.served # answer.served =>
             LET k == answer'.served
             IN  /\ Limits(k[3]).lifecycle # "retired" /\ WithinCap(k[3]) /\ room >= 0
                 /\ request.directive.profile # Unset => TagOk(k[1])
                 /\ request.audio => /\ Limits(k[3]).says /\ request.voice \in {<<>>, <<k[1], k[2]>>}
                                     /\ Limits(k[3]).fits
<1> SUFFICES ASSUME answer'.served # answer.served
             PROVE  LET k == answer'.served
                    IN  /\ Limits(k[3]).lifecycle # "retired" /\ WithinCap(k[3]) /\ room >= 0
                        /\ request.directive.profile # Unset => TagOk(k[1])
                        /\ request.audio => /\ Limits(k[3]).says /\ request.voice \in {<<>>, <<k[1], k[2]>>}
                                            /\ Limits(k[3]).fits
  OBVIOUS
<1>1. AttemptAccepted
  BY ServedByAttempt
<1>2. answer'.served = Current.key
  BY <1>1, AcceptedAnswer
<1>3. next <= Len(plan.candidates)
  BY <1>1 DEF AttemptAccepted, RouteInv, InTurn
<1>4. Allowed(Current)
  BY <1>3, CurrentFacts
<1>5. room >= 0
  <2>1. room \in 0 .. NoBudget
    BY DEF RouteInv, TypeOK
  <2> QED  BY <2>1 DEF NoBudget
<1> QED  BY <1>2, <1>4, <1>5 DEF Allowed

(* Estimating and creating plan alike; only the error may differ.          *)
LEMMA PlannedAlike ==
    ASSUME NEW raising
    PROVE  /\ Planned(raising).candidates = Planned(TRUE).candidates
           /\ Planned(raising).excluded = Planned(TRUE).excluded
<1>1. PlannedPinned(raising).candidates = PlannedPinned(TRUE).candidates
      /\ PlannedPinned(raising).excluded = PlannedPinned(TRUE).excluded
  <2> DEFINE p(r) == PinnedPlan(RealModel, PinnedGate(RealModel), PinnedPart, AutoPart,
                                Mute(PinBackends, RealModel), r)
  <2>1. p(raising).candidates = p(TRUE).candidates /\ p(raising).excluded = p(TRUE).excluded
    BY DEF PinnedPlan
  <2>2. CASE PinBackends = <<>> \/ (PinTagged = <<>> /\ (Policy.tag # Unset \/ Policy.tags # {}))
    <3>1. PlannedPinned(raising) = PlannedPinned(TRUE)
      BY <2>2, PlannedPinnedParts
    <3> QED  BY <3>1
  <2>3. CASE ~ (PinBackends = <<>> \/ (PinTagged = <<>> /\ (Policy.tag # Unset \/ Policy.tags # {})))
    <3>1. PlannedPinned(raising) = p(raising) /\ PlannedPinned(TRUE) = p(TRUE)
      BY <2>3, PlannedPinnedParts
    <3> HIDE DEF p
    <3> QED  BY <2>1, <3>1
  <2> QED  BY <2>2, <2>3
<1> QED  BY <1>1 DEF Planned

(* An estimate says which model a create would try first.                  *)
LEMMA EstimateStep ==
    ASSUME RouteInv, [Next]_vars, Planning
    PROVE  /\ EstimateRoute.model = IF plan'.candidates = <<>> \/ phase' = "done" THEN Unset
                                    ELSE plan'.candidates[1].key[3]
           /\ EstimateRoute.refused \cap {c.key[3] : c \in Candidates} = {}
<1> DEFINE p == Planned(FALSE)
           s == p.candidates
<1>1. /\ EstimateRoute.model = IF s = <<>> THEN Unset ELSE s[1].key[3]
      /\ EstimateRoute.refused = {e.model : e \in p.excluded} \ {c.key[3] : c \in ToSet(s)}
  BY DEF EstimateRoute
<1>2. /\ plan'.candidates = Planned(TRUE).candidates
      /\ PlanFacts(Planned(TRUE))
      /\ phase' = IF Planned(TRUE).error # Unset THEN "done" ELSE "planned"
  BY PlanningFacts
<1>3. s = plan'.candidates
  BY <1>2, PlannedAlike
<1>4. phase' = "done" <=> s = <<>>
  BY <1>2, <1>3 DEF PlanFacts
<1>5. Candidates = ToSet(s)
  BY <1>3 DEF Candidates, ToSet
<1> HIDE DEF s, p
<1>6. EstimateRoute.refused \cap {c.key[3] : c \in Candidates} = {}
  BY <1>1, <1>5
<1> QED  BY <1>1, <1>3, <1>4, <1>6
(* Serving what the profile's tags ask, as documented.                     *)
LEMMA TagsAsked ==
    ASSUME request \in Requests, NEW b
    PROVE  TagOk(b) <=>
             (request.directive.profile # Unset =>
                IF request.directive.profile \in DOMAIN Profiles
                THEN Profiles[request.directive.profile].tags \in {{}} \/
                     Profiles[request.directive.profile].tags \cap At(b).tags # {}
                ELSE request.directive.profile \in At(b).tags)
<1> DEFINE profile == request.directive.profile
<1>1. Unset \notin DOMAIN Profiles
  BY RoutingAssumption DEF RoutingAssumption
<1>2. /\ Policy.tags = IF profile \in DOMAIN Profiles THEN Profiles[profile].tags ELSE {}
      /\ Policy.tag = IF profile \in DOMAIN Profiles THEN Unset ELSE profile
  BY DEF Policy
<1> HIDE DEF profile
<1>3. CASE profile \in DOMAIN Profiles
  <2>1. profile # Unset /\ Policy.tags = Profiles[profile].tags /\ Policy.tag = Unset
    BY <1>1, <1>2, <1>3
  <2> QED  BY <1>3, <2>1 DEF TagOk, profile
<1>4. CASE profile \notin DOMAIN Profiles
  <2>1. Policy.tags = {} /\ Policy.tag = profile
    BY <1>2, <1>4
  <2> QED  BY <1>4, <2>1 DEF TagOk, profile
<1> QED  BY <1>3, <1>4

(* What is offered and fits is a documented pair.                          *)
LEMMA OfferedPairs ==
    ASSUME Asked, NEW b, NEW m
    PROVE  /\ <<b, m>> \in Offered(Unset) <=>
                b \in ToSet(UsableForModality) /\ m \in DOMAIN world.catalogue
                  /\ TagOk(b) /\ m \in ToSet(Models(b))
           /\ <<b, m>> \in Pairs <=>
                <<b, m>> \in Offered(Unset) /\ Limits(m).fits /\ Limits(m).lifecycle # "retired"
<1>1. Unset \notin DOMAIN world.catalogue /\ ToSet(UsableForModality) \subseteq ToSet(world.backends)
  BY WorldType, UsableType DEF Asked
<1>2. <<b, m>> \in Offered(Unset) <=>
        b \in ToSet(UsableForModality) /\ m \in DOMAIN world.catalogue
          /\ TagOk(b) /\ m \in ToSet(Models(b))
  BY <1>1 DEF Offered
<1>3. Fitting(b, m) <=> /\ b \in ToSet(UsableForModality) /\ m \in ToSet(Models(b)) /\ TagOk(b)
                        /\ Limits(m).fits /\ Limits(m).lifecycle # "retired"
  BY TagsAsked, Zenon DEF Fitting, Offers, Asked, Models
<1>4. <<b, m>> \in Pairs <=> b \in ToSet(world.backends) /\ m \in DOMAIN world.catalogue /\ Fitting(b, m)
  BY DEF Pairs
<1> QED  BY <1>1, <1>2, <1>3, <1>4

(* Without audio every account speaks.                                     *)
LEMMA AutoPlacesPairs ==
    ASSUME Asked, room \in 0 .. NoBudget, ~ request.audio, NEW x
    PROVE  x \in AutoPlaces(Unset) <=>
             /\ x \in Places3 /\ <<x[1], x[2]>> \in Pairs
             /\ WithinCap(x[2]) /\ WithinBudget(x[2], room)
<1>1. x \in AutoPlaces(Unset) <=>
        /\ x \in Places3 /\ TagOk(x[1]) /\ x[2] # Unset /\ AutoReason(x[2]) = Unset
        /\ Speaks(x[1], At(x[1]).accounts[x[3]], x[2])
  BY AutoPlacesType
<1>2. Speaks(x[1], At(x[1]).accounts[x[3]], x[2])
  BY DEF Speaks
<1>3. ASSUME x \in Places3
      PROVE  /\ x[1] \in ToSet(UsableForModality) /\ x[2] \in DOMAIN world.catalogue
             /\ x[2] \in ToSet(Models(x[1])) /\ x[2] # Unset
  <2>1. x[1] \in ToSet(UsableForModality) /\ x[2] \in DOMAIN world.catalogue /\ x[2] \in ToSet(Models(x[1]))
    BY <1>3 DEF Places3
  <2> QED  BY <2>1, WorldType DEF Asked
<1>4. ASSUME x[2] \in DOMAIN world.catalogue
      PROVE  AutoReason(x[2]) = Unset <=>
               /\ Limits(x[2]).fits /\ Limits(x[2]).lifecycle # "retired"
               /\ WithinCap(x[2]) /\ WithinBudget(x[2], room)
  <2>1. AutoReason(x[2]) = Unset <=>
          Limits(x[2]).fits /\ Limits(x[2]).lifecycle # "retired" /\ AdmitReason(x[2]) = Unset
    BY Zenon DEF AutoReason, Unset
  <2> QED  BY <1>4, <2>1, AdmitProperties
<1> QED  BY <1>1, <1>2, <1>3, <1>4, OfferedPairs
(* An automatic plan without a usable backend, and with one.               *)
LEMMA AutoPlanned ==
    ASSUME Asked, request.model = "auto"
    PROVE  /\ Usable = <<>> => /\ Planned(TRUE).candidates = <<>> /\ Planned(TRUE).error = "forbidden"
                               /\ ToSet(UsableForModality) = {}
           /\ Usable # <<>> =>
                LET auto == AutoCandidates(Unset)
                IN  /\ Planned(TRUE).candidates = auto.candidates
                    /\ Planned(TRUE).error = IF auto.candidates = <<>> THEN NoCandidateError(auto.excluded) ELSE Unset
<1> DEFINE p == Planned(TRUE)
           auto == AutoCandidates(Unset)
<1>1. ASSUME Usable = <<>>
      PROVE  p.candidates = <<>> /\ p.error = "forbidden" /\ ToSet(UsableForModality) = {}
  <2>1. p = NoPlan("forbidden")
    BY <1>1 DEF Planned
  <2> HIDE DEF p
  <2>2. p.candidates = <<>> /\ p.error = "forbidden"
    BY <2>1 DEF NoPlan
  <2>3. ToSet(Usable) = {}
    BY <1>1 DEF ToSet
  <2>4. ToSet(UsableForModality) \subseteq ToSet(Usable)
    BY UsableType DEF Asked
  <2> QED  BY <2>2, <2>3, <2>4
<1>2. ASSUME Usable # <<>>
      PROVE  /\ p.candidates = auto.candidates
             /\ p.error = IF auto.candidates = <<>> THEN NoCandidateError(auto.excluded) ELSE Unset
  <2>1. p = PlannedAuto
    BY <1>2 DEF Planned
  <2>2. PlannedAuto.candidates = auto.candidates
        /\ PlannedAuto.error = IF auto.candidates = <<>> THEN NoCandidateError(auto.excluded) ELSE Unset
    BY DEF PlannedAuto
  <2> QED  BY <2>1, <2>2
<1> HIDE DEF p, auto
<1> QED  BY <1>1, <1>2 DEF p, auto

\* The keys the documents promise an automatic plan.
PromisedKeys ==
    UNION {{Key(p[1], a, p[2]) : a \in ToSet(At(p[1]).accounts)} :
             p \in {p \in Pairs : WithinCap(p[2]) /\ WithinBudget(p[2], room)}}

(* A promised key is that of an account of a pair.                         *)
LEMMA PromisedKey ==
    ASSUME NEW k
    PROVE  k \in PromisedKeys <=>
             \E p \in Pairs : \E a \in ToSet(At(p[1]).accounts) :
               WithinCap(p[2]) /\ WithinBudget(p[2], room) /\ k = Key(p[1], a, p[2])
<1> DEFINE P == {p \in Pairs : WithinCap(p[2]) /\ WithinBudget(p[2], room)}
           K(p) == {Key(p[1], a, p[2]) : a \in ToSet(At(p[1]).accounts)}
<1>1. PromisedKeys = UNION {K(p) : p \in P}
  BY DEF PromisedKeys
<1>2. \A p : p \in P <=> p \in Pairs /\ WithinCap(p[2]) /\ WithinBudget(p[2], room)
  OBVIOUS
<1>3. \A p : k \in K(p) <=> \E a \in ToSet(At(p[1]).accounts) : k = Key(p[1], a, p[2])
  OBVIOUS
<1> HIDE DEF P, K
<1>4. k \in PromisedKeys <=> \E p \in P : k \in K(p)
  BY <1>1
<1> QED  BY <1>2, <1>3, <1>4

(* The automatic candidates have the keys promised.                        *)
LEMMA AutoKeysPromised ==
    ASSUME Asked, Stored, room \in 0 .. NoBudget, ~ request.audio
    PROVE  {c.key : c \in AutoSet(Unset)} = PromisedKeys
<1>1. ASSUME NEW c \in AutoSet(Unset)  PROVE c.key \in PromisedKeys
  <2>1. PICK x \in AutoPlaces(Unset) : c = AutoCandidate(x[1], x[2], x[3])
    BY AutoRanked
  <2>2. x \in Places3 /\ <<x[1], x[2]>> \in Pairs /\ WithinCap(x[2]) /\ WithinBudget(x[2], room)
    BY AutoPlacesPairs
  <2>3. x[3] \in DOMAIN At(x[1]).accounts
    BY <2>2, PlaceType
  <2> DEFINE p == <<x[1], x[2]>>
             a == At(x[1]).accounts[x[3]]
  <2>4. a \in ToSet(At(p[1]).accounts) /\ p[1] = x[1] /\ p[2] = x[2]
    BY <2>3 DEF ToSet
  <2>5. c.key = Key(x[1], a, x[2])
    BY <2>1 DEF AutoCandidate
  <2> HIDE DEF p, a
  <2>6. p \in Pairs /\ WithinCap(p[2]) /\ WithinBudget(p[2], room) /\ c.key = Key(p[1], a, p[2])
    BY <2>2, <2>4, <2>5 DEF p
  <2> QED  BY <2>4, <2>6, PromisedKey
<1>2. ASSUME NEW k \in PromisedKeys  PROVE k \in {c.key : c \in AutoSet(Unset)}
  <2>1. PICK p \in Pairs : \E a \in ToSet(At(p[1]).accounts) :
                             WithinCap(p[2]) /\ WithinBudget(p[2], room) /\ k = Key(p[1], a, p[2])
    BY PromisedKey
  <2>2. PICK a \in ToSet(At(p[1]).accounts) : k = Key(p[1], a, p[2])
    BY <2>1
  <2>3. PICK i \in DOMAIN At(p[1]).accounts : a = At(p[1]).accounts[i]
    BY DEF ToSet
  <2>4. p = <<p[1], p[2]>>
    BY DEF Pairs
  <2>5. p[1] \in ToSet(UsableForModality) /\ p[2] \in DOMAIN world.catalogue /\ p[2] \in ToSet(Models(p[1]))
    BY <2>4, OfferedPairs
  <2>6. i \in Nat
    <3>1. p[1] \in DOMAIN world.at
      BY <2>5, UsableType DEF Asked
    <3>2. At(p[1]).accounts \in Seq(STRING)
      BY <3>1, WorldType DEF Asked
    <3> QED  BY <3>2
  <2> DEFINE x == <<p[1], p[2], i>>
  <2>7. x[1] = p[1] /\ x[2] = p[2] /\ x[3] = i
    OBVIOUS
  <2>8. x \in Places3
    BY <2>5, <2>6 DEF Places3
  <2> HIDE DEF x
  <2>9. x \in AutoPlaces(Unset)
    BY <2>1, <2>4, <2>7, <2>8, AutoPlacesPairs
  <2> DEFINE c == AutoCandidate(x[1], x[2], x[3])
  <2>10. c \in AutoSet(Unset)
    BY <2>9, AutoRanked
  <2>11. c.key = k
    BY <2>2, <2>3, <2>7 DEF AutoCandidate
  <2> HIDE DEF c
  <2> QED  BY <2>10, <2>11
<1> QED  BY <1>1, <1>2

(* An automatic plan is everything promised and nothing else.              *)
LEMMA EveryStep ==
    ASSUME RouteInv, [Next]_vars, Planning, request.model = "auto", ~ request.audio
    PROVE  {c.key : c \in Candidates} = PromisedKeys
<1>1. Asked /\ Stored /\ room \in 0 .. NoBudget /\ plan'.candidates = Planned(TRUE).candidates
  BY PlanningFacts
<1> DEFINE s == plan'.candidates
<1>2. Candidates = ToSet(s)
  BY DEF Candidates, ToSet
<1>3. CASE Usable = <<>>
  <2>1. s = <<>> /\ ToSet(UsableForModality) = {}
    BY <1>1, <1>3, AutoPlanned
  <2>2. Candidates = {}
    BY <1>2, <2>1 DEF ToSet
  <2>3. Pairs = {}
    <3>1. ASSUME NEW p \in Pairs  PROVE FALSE
      <4>1. p = <<p[1], p[2]>>
        BY DEF Pairs
      <4> QED  BY <1>1, <2>1, <4>1, OfferedPairs
    <3> QED  BY <3>1
  <2>4. PromisedKeys = {}
    BY <2>3, PromisedKey
  <2> QED  BY <2>2, <2>4
<1>4. CASE Usable # <<>>
  <2>1. s = AutoCandidates(Unset).candidates
    BY <1>1, <1>4, AutoPlanned
  <2>2. ToSet(s) = AutoSet(Unset)
    BY <1>1, <2>1, AutoListed
  <2> HIDE DEF s
  <2> QED  BY <1>1, <1>2, <2>2, AutoKeysPromised
<1> QED  BY <1>3, <1>4
(* With nothing admitted, each offered model is excluded for its reason.   *)
LEMMA AutoReasons ==
    ASSUME Admitted(Unset) = {}
    PROVE  {e.reason : e \in AutoCandidates(Unset).excluded} = {AutoReason(o[2]) : o \in Offered(Unset)}
<1> DEFINE offered == Offered(Unset)
           admitted == Admitted(Unset)
           gated == {[model |-> o[2], reason |-> AutoReason(o[2])] : o \in offered \ admitted}
           mute == {[model |-> o[2], reason |-> "limits"] : o \in
                      {o \in admitted : \E a \in ToSet(At(o[1]).accounts) : Unspoken(o[1], a, o[2])}}
<1>1. AutoCandidates(Unset).excluded = gated \cup mute
  BY DEF AutoCandidates
<1>2. mute = {}
  <2> HIDE DEF admitted
  <2> QED  BY DEF admitted
<1>3. offered \ admitted = offered
  OBVIOUS
<1>4. gated = {[model |-> o[2], reason |-> AutoReason(o[2])] : o \in offered}
  BY <1>3
<1> HIDE DEF gated, mute, offered, admitted
<1>5. {e.reason : e \in gated} = {AutoReason(o[2]) : o \in offered}
  <2>1. ASSUME NEW e \in gated  PROVE e.reason \in {AutoReason(o[2]) : o \in offered}
    <3>1. PICK o \in offered : e = [model |-> o[2], reason |-> AutoReason(o[2])]
      BY <1>4
    <3>2. e.reason = AutoReason(o[2])
      BY <3>1
    <3> QED  BY <3>2
  <2>2. ASSUME NEW o \in offered  PROVE AutoReason(o[2]) \in {e.reason : e \in gated}
    <3> DEFINE e == [model |-> o[2], reason |-> AutoReason(o[2])]
    <3>1. e \in gated /\ e.reason = AutoReason(o[2])
      BY <1>4
    <3> HIDE DEF e
    <3> QED  BY <3>1
  <2> QED  BY <2>1, <2>2
<1> QED  BY <1>1, <1>2, <1>5 DEF offered

(* Without candidates nothing offered is admitted, audio aside.            *)
LEMMA NothingAdmitted ==
    ASSUME Asked, Stored, ~ request.audio, AutoCandidates(Unset).candidates = <<>>, room \in 0 .. NoBudget
    PROVE  Admitted(Unset) = {}
<1> SUFFICES ASSUME NEW o \in Admitted(Unset)  PROVE FALSE
  OBVIOUS
<1>1. /\ o[1] \in ToSet(UsableForModality) /\ o[2] \in DOMAIN world.catalogue
      /\ TagOk(o[1]) /\ o[2] \in ToSet(Models(o[1])) /\ o[2] # Unset /\ AutoReason(o[2]) = Unset
  BY DEF Admitted, Offered
<1>2. o[1] \in DOMAIN world.at
  BY <1>1, UsableType DEF Asked
<1>3. At(o[1]).accounts \in Seq(STRING) /\ At(o[1]).accounts # <<>>
  BY <1>2, WorldType DEF Asked
<1>4. 1 \in DOMAIN At(o[1]).accounts
  BY <1>3
<1> DEFINE x == <<o[1], o[2], 1>>
<1>5. x[1] = o[1] /\ x[2] = o[2] /\ x[3] = 1
  OBVIOUS
<1>6. x \in Places3
  BY <1>1, <1>4 DEF Places3
<1> HIDE DEF x
<1>7. Speaks(x[1], At(x[1]).accounts[x[3]], x[2])
  BY DEF Speaks
<1>8. x \in AutoPlaces(Unset)
  BY <1>1, <1>5, <1>6, <1>7, AutoPlacesType
<1>9. AutoSet(Unset) # {}
  BY <1>8, AutoRanked
<1>10. ToSet(AutoCandidates(Unset).candidates) = AutoSet(Unset)
  BY AutoListed
<1> QED  BY <1>9, <1>10 DEF ToSet

(* A pair is turned away by a cap or the budget, and offers nothing else.  *)
LEMMA PairReason ==
    ASSUME Asked, room \in 0 .. NoBudget, Admitted(Unset) = {}, NEW p \in Pairs
    PROVE  /\ p \in Offered(Unset) /\ p[2] \in DOMAIN world.catalogue
           /\ AutoReason(p[2]) = AdmitReason(p[2]) /\ AutoReason(p[2]) \in {"unpriced", "max_cost", "budget"}
<1>1. p = <<p[1], p[2]>>
  BY DEF Pairs
<1>2. p \in Offered(Unset) /\ Limits(p[2]).fits /\ Limits(p[2]).lifecycle # "retired"
      /\ p[2] \in DOMAIN world.catalogue
  BY <1>1, OfferedPairs
<1>3. AutoReason(p[2]) = AdmitReason(p[2])
  BY <1>2, Zenon DEF AutoReason
<1>4. AutoReason(p[2]) # Unset
  BY <1>2 DEF Admitted
<1>5. AdmitReason(p[2]) \in {Unset, "unpriced", "max_cost", "budget"}
  BY <1>2, AdmitProperties
<1> QED  BY <1>2, <1>3, <1>4, <1>5

(* What a cap or the budget turns away is a pair.                          *)
LEMMA ReasonPair ==
    ASSUME Asked, NEW o \in Offered(Unset), AutoReason(o[2]) \in {"unpriced", "max_cost", "budget"}
    PROVE  o \in Pairs /\ AutoReason(o[2]) = AdmitReason(o[2]) /\ o[2] \in DOMAIN world.catalogue
<1>1. o = <<o[1], o[2]>> /\ o[2] \in DOMAIN world.catalogue
  BY DEF Offered
<1>2. Limits(o[2]).fits /\ Limits(o[2]).lifecycle # "retired" /\ AutoReason(o[2]) = AdmitReason(o[2])
  BY Zenon DEF AutoReason
<1> QED  BY <1>1, <1>2, OfferedPairs

(* A refused automatic create says why.                                    *)
LEMMA ErrorStep ==
    ASSUME RouteInv, [Next]_vars, Planning, request.model = "auto", ~ request.audio
    PROVE  /\ answer'.code = "validation_error" => Pairs = {}
           /\ answer'.code = "cost_limit_exceeded" =>
                Pairs # {} /\ \A p \in Pairs : ~WithinCap(p[2]) \/ ~Known(p[2])
           /\ answer'.code = "budget_exceeded" =>
                \E p \in Pairs : Known(p[2]) /\ WithinCap(p[2]) /\ ~WithinBudget(p[2], room)
<1>1. /\ Asked /\ Stored /\ room \in 0 .. NoBudget
      /\ answer'.code = Planned(TRUE).error
  BY PlanningFacts
<1> DEFINE auto == AutoCandidates(Unset)
           code == answer'.code
           reasons == {AutoReason(o[2]) : o \in Offered(Unset)}
           Refusals == {"validation_error", "cost_limit_exceeded", "budget_exceeded"}
<1>2. CASE code \notin Refusals
  BY <1>2
<1>3. CASE code \in Refusals
  <2>1. code = NoCandidateError(auto.excluded) /\ auto.candidates = <<>>
    <3>1. "forbidden" \notin Refusals
      OBVIOUS
    <3>2. Unset \notin Refusals
      BY DEF Unset
    <3>3. Usable # <<>>
      BY <1>1, <1>3, <3>1, AutoPlanned
    <3>4. code = IF auto.candidates = <<>> THEN NoCandidateError(auto.excluded) ELSE Unset
      BY <1>1, <3>3, AutoPlanned
    <3> HIDE DEF auto, Refusals, code
    <3> QED  BY <1>3, <3>2, <3>4
  <2>2. Admitted(Unset) = {}
    BY <1>1, <2>1, NothingAdmitted
  <2>3. {e.reason : e \in auto.excluded} = reasons
    BY <2>2, AutoReasons
  <2>4. code = IF "budget" \in reasons THEN "budget_exceeded"
               ELSE IF reasons \cap {"max_cost", "unpriced"} # {} THEN "cost_limit_exceeded"
               ELSE "validation_error"
    <3> HIDE DEF reasons, auto, code
    <3> QED  BY <2>1, <2>3 DEF NoCandidateError
  <2>5. \A p \in Pairs : AutoReason(p[2]) \in reasons /\ AutoReason(p[2]) = AdmitReason(p[2])
                         /\ AutoReason(p[2]) \in {"unpriced", "max_cost", "budget"}
                         /\ p[2] \in DOMAIN world.catalogue
    BY <1>1, <2>2, PairReason
  <2>6. \A r \in reasons : r \in {"unpriced", "max_cost", "budget"} =>
          \E p \in Pairs : r = AdmitReason(p[2]) /\ p[2] \in DOMAIN world.catalogue
    BY <1>1, ReasonPair
  <2> HIDE DEF reasons, code
  <2>7. code = "validation_error" => Pairs = {}
    BY <2>4, <2>5
  <2>8. ASSUME code = "cost_limit_exceeded"
        PROVE  Pairs # {} /\ \A p \in Pairs : ~WithinCap(p[2]) \/ ~Known(p[2])
    <3>1. "budget" \notin reasons /\ reasons \cap {"max_cost", "unpriced"} # {}
      BY <2>4, <2>8
    <3>2. Pairs # {}
      BY <2>6, <3>1
    <3>3. ASSUME NEW p \in Pairs  PROVE ~WithinCap(p[2]) \/ ~Known(p[2])
      <4>1. AdmitReason(p[2]) \in {"unpriced", "max_cost"} /\ p[2] \in DOMAIN world.catalogue
        BY <2>5, <3>1
      <4> QED  BY <1>1, <4>1, AdmitProperties
    <3> QED  BY <3>2, <3>3
  <2>9. ASSUME code = "budget_exceeded"
        PROVE  \E p \in Pairs : Known(p[2]) /\ WithinCap(p[2]) /\ ~WithinBudget(p[2], room)
    <3>1. "budget" \in reasons
      BY <2>4, <2>9
    <3>2. PICK p \in Pairs : AdmitReason(p[2]) = "budget" /\ p[2] \in DOMAIN world.catalogue
      BY <2>6, <3>1
    <3> QED  BY <1>1, <3>2, AdmitProperties
  <2> QED  BY <2>7, <2>8, <2>9 DEF code
<1> QED  BY <1>2, <1>3
(* A plan holds what may serve the request and nothing else, spares the    *)
(* accounts cooling down, and what is served in the end is within policy   *)
(* (plan_route, _Planner.auto_candidates, _Planner.order_key).             *)
THEOREM PlanIsSound == Spec => PlanSound
<1>1. RouteInv /\ [Next]_vars =>
        (Planning => \A i, j \in DOMAIN plan'.candidates :
           LET c == plan'.candidates[i]
               d == plan'.candidates[j]
           IN  i < j /\ c.kind = d.kind /\ store[c.key].cooling => store[d.key].cooling)
  BY CoolingStep
<1>2. RouteInv /\ [Next]_vars =>
        (Planning /\ request.model = "auto" /\ ~request.audio =>
          {c.key : c \in Candidates} =
             UNION {{Key(p[1], a, p[2]) : a \in ToSet(At(p[1]).accounts)} :
                      p \in {p \in Pairs : WithinCap(p[2]) /\ WithinBudget(p[2], room)}})
  BY EveryStep, Zenon DEF PromisedKeys
<1>3. RouteInv /\ [Next]_vars =>
        (answer'.served # answer.served =>
          LET k == answer'.served
          IN  /\ Limits(k[3]).lifecycle # "retired" /\ WithinCap(k[3]) /\ room >= 0
              /\ request.directive.profile # Unset => TagOk(k[1])
              /\ request.audio => /\ Limits(k[3]).says /\ request.voice \in {<<>>, <<k[1], k[2]>>}
                                  /\ Limits(k[3]).fits)
  BY ServedStep
<1>4. Spec => CoolingSinks
  BY <1>1, RouteInvariant, PTL DEF Spec, CoolingSinks
<1>5. Spec => EveryCandidate
  BY <1>2, RouteInvariant, PTL DEF Spec, EveryCandidate
<1>6. Spec => ServedWithinPolicy
  BY <1>3, RouteInvariant, PTL DEF Spec, ServedWithinPolicy
<1> QED  BY <1>4, <1>5, <1>6 DEF PlanSound

(* A create refused before any provider is contacted says why: nothing     *)
(* fits, a cap is exceeded, or a budget has no room (_no_candidate_error). *)
THEOREM ErrorIsSpecific == Spec => ErrorSpecific
<1>1. RouteInv /\ [Next]_vars =>
        (Planning /\ request.model = "auto" /\ ~request.audio =>
          CASE answer'.code = "validation_error" -> Pairs = {}
            [] answer'.code = "cost_limit_exceeded" ->
                 /\ Pairs # {}
                 /\ \A p \in Pairs : ~WithinCap(p[2]) \/ ~Known(p[2])
            [] answer'.code = "budget_exceeded" ->
                 \E p \in Pairs : Known(p[2]) /\ WithinCap(p[2]) /\ ~WithinBudget(p[2], room)
            [] OTHER -> TRUE)
  BY ErrorStep
<1> QED  BY <1>1, RouteInvariant, PTL DEF Spec, ErrorSpecific

(* An estimate names the model a create would try first, or none when it   *)
(* would be refused, and lists no model as both (estimate_route).          *)
THEOREM EstimateIsHonest == Spec => EstimateHonest
<1>1. RouteInv /\ [Next]_vars =>
        (Planning =>
          LET Honest(estimate) ==
                  /\ estimate.model = IF plan'.candidates = <<>> \/ phase' = "done" THEN Unset
                                      ELSE plan'.candidates[1].key[3]
                  /\ estimate.refused \cap {c.key[3] : c \in Candidates} = {}
          IN  Honest(EstimateRoute))
  BY EstimateStep
<1> QED  BY <1>1, RouteInvariant, PTL DEF Spec, EstimateHonest
---------------------------------------------------------------------------
(* The registry picks alike: a pinned model *)

With(t) == Kept(PinBackends, {b \in ToSet(PinBackends) : t \in At(b).tags})

(* How the registry resolves a pinned model, over the preferred backends.  *)
LEMMA ResolvePinnedParts ==
    ResolvePinned =
      IF Policy.tag # Unset THEN Head(With(Policy.tag))
      ELSE IF world.key.backend \in ToSet(PinBackends) THEN world.key.backend
      ELSE IF With(world.key.tag) # <<>> THEN Head(With(world.key.tag)) ELSE Head(PinBackends)
<1>1. BackendsServing.backends = PinBackends
  BY DEF BackendsServing, PinBackends
<1> QED  BY <1>1, Zenon DEF ResolvePinned, With

(* The backends are in the order of preference.                            *)
LEMMA PinOrdered ==
    ASSUME Asked, request.model # "auto"
    PROVE  \E serving :
             /\ PinBackends \in Seq(ToSet(serving)) /\ ToSet(PinBackends) = ToSet(serving)
             /\ \A b \in ToSet(serving) : Preference(b, serving) \in Tuples(3)
             /\ \A i, j \in DOMAIN PinBackends : i < j =>
                   Lex(Preference(PinBackends[i], serving), Preference(PinBackends[j], serving))
<1> DEFINE serving == Serving(ResolveModelId(request.model))
           s == PinBackends
<1>1. s = Preferred(serving)
  BY DEF PinBackends
<1>2. Usable \in Seq(DOMAIN world.at)
  BY UsableType DEF Asked
<1>3. serving \in Seq(DOMAIN world.at)
  <2> DEFINE serves == {b \in ToSet(Usable) : Serves(b, ResolveModelId(request.model))}
  <2>1. serving = Kept(Usable, serves)
    BY DEF Serving
  <2> HIDE DEF serves, serving
  <2> QED  BY <1>2, <2>1, KeptProperties
<1> HIDE DEF serving, s
<1>4. serving \in Seq(ToSet(serving))
  BY <1>3, ToSetProperties
<1>5. /\ s \in Seq(ToSet(serving)) /\ ToSet(s) = ToSet(serving)
      /\ \A i, j \in DOMAIN s : i < j <=> <<s[i], s[j]>> \in PreferredOrder(serving)
  BY <1>1, <1>4, PreferredProperties
<1>6. \A b \in ToSet(serving) : Preference(b, serving) \in Tuples(3)
  BY <1>4, PreferredOrdered
<1>7. \A i, j \in DOMAIN s : i < j => Lex(Preference(s[i], serving), Preference(s[j], serving))
  BY <1>5 DEF PreferredOrder
<1> QED  BY <1>5, <1>6, <1>7 DEF s

(* A tuple of three is not before one with a lower second place.           *)
LEMMA LexSecond ==
    ASSUME NEW k \in Tuples(3), NEW l \in Tuples(3), k[1] = l[1], k[2] > l[2]
    PROVE  ~ Lex(k, l)
<1> SUFFICES ASSUME Lex(k, l)  PROVE FALSE
  OBVIOUS
<1>1. DOMAIN k = 1 .. 3 /\ k[1] \in Int /\ k[2] \in Int /\ l[1] \in Int /\ l[2] \in Int
  BY DEF Tuples
<1>2. PICK i \in 1 .. 3 : k[i] < l[i] /\ \A j \in 1 .. (i - 1) : k[j] = l[j]
  BY <1>1 DEF Lex
<1>3. i # 1 /\ i # 2
  BY <1>1, <1>2
<1>4. i = 3 /\ 2 \in 1 .. (i - 1)
  BY <1>2, <1>3
<1> QED  BY <1>1, <1>2, <1>4

(* The key's default backend, when it serves, comes first.                 *)
LEMMA DefaultFirst ==
    ASSUME Asked, request.model # "auto", world.key.backend \in ToSet(PinBackends)
    PROVE  Head(PinBackends) = world.key.backend
<1> DEFINE s == PinBackends
           kb == world.key.backend
<1>1. PICK serving :
        /\ s \in Seq(ToSet(serving)) /\ ToSet(s) = ToSet(serving)
        /\ \A b \in ToSet(serving) : Preference(b, serving) \in Tuples(3)
        /\ \A i, j \in DOMAIN s : i < j => Lex(Preference(s[i], serving), Preference(s[j], serving))
  BY PinOrdered
<1> HIDE DEF s
<1>2. PICK j \in DOMAIN s : s[j] = kb
  BY DEF s, ToSet
<1>3. 1 \in DOMAIN s /\ j \in Nat /\ j >= 1 /\ Head(s) = s[1] /\ s[1] \in ToSet(serving) /\ kb \in ToSet(serving)
  BY <1>1, <1>2
<1>4. CASE j = 1
  BY <1>2, <1>3, <1>4 DEF s
<1>5. CASE j # 1
  <2> DEFINE k == Preference(s[1], serving)
             l == Preference(kb, serving)
  <2>1. 1 < j
    BY <1>3, <1>5
  <2>2. Lex(k, l)
    BY <1>1, <1>2, <1>3, <2>1
  <2>3. k \in Tuples(3) /\ l \in Tuples(3)
    BY <1>1, <1>3
  <2>4. k[1] = Bit(kb # s[1]) /\ l[1] = 0
    BY DEF Preference, Bit
  <2> HIDE DEF k, l
  <2> DEFINE n == 3
  <2>5. n \in Nat /\ n # 0 /\ k \in Tuples(n) /\ l \in Tuples(n)
    BY <2>3
  <2> HIDE DEF n
  <2>6. k[1] <= l[1]
    BY <2>2, <2>5, LexHead
  <2>7. kb = s[1]
    BY <2>4, <2>6 DEF Bit
  <2> QED  BY <1>3, <2>7 DEF s
<1> QED  BY <1>4, <1>5

(* Without it, a backend with the key's default tag comes first.           *)
LEMMA DefaultTagFirst ==
    ASSUME Asked, request.model # "auto", world.key.backend \notin ToSet(PinBackends),
           With(world.key.tag) # <<>>
    PROVE  Head(With(world.key.tag)) = Head(PinBackends)
<1> DEFINE s == PinBackends
           tag == world.key.tag
           right == {b \in ToSet(s) : tag \in At(b).tags}
           w == With(tag)
<1>1. PICK serving :
        /\ s \in Seq(ToSet(serving)) /\ ToSet(s) = ToSet(serving)
        /\ \A b \in ToSet(serving) : Preference(b, serving) \in Tuples(3)
        /\ \A i, j \in DOMAIN s : i < j => Lex(Preference(s[i], serving), Preference(s[j], serving))
  BY PinOrdered
<1>2. w = Kept(s, right)
  BY DEF With
<1>3. \A b : b \in right <=> b \in ToSet(s) /\ tag \in At(b).tags
  OBVIOUS
<1>4. \A b \in ToSet(s) : /\ Preference(b, serving)[1] = 1
                          /\ Preference(b, serving)[2] = Bit(tag \notin At(b).tags)
  BY DEF Preference, Bit
<1> HIDE DEF s, right, w
<1>5. /\ w \in Seq(ToSet(serving)) /\ DOMAIN w = 1 .. Len(w) /\ Len(w) \in Nat /\ ToSet(w) = ToSet(s) \cap right
  BY <1>1, <1>2, KeptProperties, KeptMembers
<1>6. w # <<>>
  BY DEF w
<1>7. w[1] \in ToSet(s) /\ w[1] \in right /\ 1 \in DOMAIN w /\ Head(w) = w[1]
  <2>1. 1 \in DOMAIN w /\ Head(w) = w[1]
    BY <1>5, <1>6
  <2>2. w[1] \in ToSet(w)
    BY <2>1, Zenon DEF ToSet
  <2> QED  BY <1>5, <2>1, <2>2
<1>8. PICK j \in DOMAIN s : s[j] = w[1]
  BY <1>7 DEF ToSet
<1>9. 1 \in DOMAIN s /\ j \in Nat /\ j >= 1 /\ Head(s) = s[1] /\ s[1] \in ToSet(s)
  BY <1>1, <1>8
<1>10. s[1] \in right
  <2> SUFFICES ASSUME s[1] \notin right  PROVE FALSE
    OBVIOUS
  <2>1. 1 < j
    BY <1>7, <1>8, <1>9
  <2> DEFINE k == Preference(s[1], serving)
             l == Preference(s[j], serving)
  <2>2. Lex(k, l)
    BY <1>1, <1>8, <1>9, <2>1
  <2>3. k \in Tuples(3) /\ l \in Tuples(3)
    BY <1>1, <1>7, <1>8, <1>9
  <2>4. k[1] = 1 /\ l[1] = 1 /\ k[2] = 1 /\ l[2] = 0
    BY <1>3, <1>4, <1>7, <1>8, <1>9 DEF Bit
  <2> HIDE DEF k, l
  <2> QED  BY <2>2, <2>3, <2>4, LexSecond
<1>11. w[1] = s[1]
  BY <1>1, <1>2, <1>9, <1>10, KeptFirst
<1> QED  BY <1>7, <1>9, <1>11 DEF w, s
(* Without audio or profile tags, only the policy's tag narrows the        *)
(* backends of a pinned model.                                             *)
LEMMA TaggedPlain ==
    ASSUME Asked, request.model # "auto", ~ request.audio, Policy.tags = {}
    PROVE  PinTagged = IF Policy.tag # Unset THEN With(Policy.tag) ELSE PinBackends
<1> DEFINE s == PinBackends
           speaking == {b \in ToSet(s) : \E a \in ToSet(At(b).accounts) : Speaks(b, a, RealModel)}
           spoken == SpeakingOf(s, RealModel)
           right == {b \in ToSet(spoken) : TagOk(b)}
           tagged == {b \in ToSet(s) : Policy.tag \in At(b).tags}
<1>1. s \in Seq(DOMAIN world.at) /\ \A b \in ToSet(s) : b \in DOMAIN world.at
  BY PinReachable
<1>2. \A b \in ToSet(s) : b \in speaking
  <2>1. ASSUME NEW b \in ToSet(s)  PROVE b \in speaking
    <3>1. At(b).accounts \in Seq(STRING) /\ At(b).accounts # <<>>
      BY <1>1, WorldType DEF Asked
    <3>2. 1 \in DOMAIN At(b).accounts
      BY <3>1
    <3>3. At(b).accounts[1] \in ToSet(At(b).accounts)
      BY <3>2 DEF ToSet
    <3>4. Speaks(b, At(b).accounts[1], RealModel)
      BY DEF Speaks
    <3> QED  BY <3>3, <3>4
  <2> QED  BY <2>1
<1>3. spoken = s
  <2>1. spoken = Kept(s, speaking)
    BY DEF SpeakingOf
  <2> HIDE DEF s, speaking, spoken
  <2> QED  BY <1>1, <1>2, <2>1, KeptAll
<1>4. PinTagged = Kept(s, right)
  BY <1>3 DEF PinTagged, Tagged
<1>5. \A b : b \in right <=> b \in ToSet(s) /\ (Policy.tag # Unset => Policy.tag \in At(b).tags)
  BY <1>3 DEF TagOk
<1>6. \A b : b \in tagged <=> b \in ToSet(s) /\ Policy.tag \in At(b).tags
  OBVIOUS
<1>7. With(Policy.tag) = Kept(s, tagged)
  BY DEF With
<1> HIDE DEF s, right, tagged
<1>8. CASE Policy.tag # Unset
  <2>1. right = tagged
    BY <1>5, <1>6, <1>8
  <2> QED  BY <1>4, <1>7, <1>8, <2>1
<1>9. CASE Policy.tag = Unset
  <2>1. ToSet(s) \subseteq right
    BY <1>5, <1>9
  <2>2. Kept(s, right) = s
    BY <1>1, <2>1, KeptAll
  <2> QED  BY <1>4, <1>9, <2>2 DEF s
<1> QED  BY <1>8, <1>9

(* The first backend planned is the one the registry resolves.             *)
LEMMA ResolvedFirst ==
    ASSUME Asked, request.model # "auto", ~ request.audio, Policy.tags = {}
    PROVE  ResolvePinned = Head(PinTagged)
<1>1. CASE Policy.tag # Unset
  BY <1>1, TaggedPlain, ResolvePinnedParts
<1>2. CASE Policy.tag = Unset
  <2>1. PinTagged = PinBackends
    BY <1>2, TaggedPlain
  <2>2. CASE world.key.backend \in ToSet(PinBackends)
    BY <1>2, <2>1, <2>2, DefaultFirst, ResolvePinnedParts
  <2>3. CASE world.key.backend \notin ToSet(PinBackends) /\ With(world.key.tag) # <<>>
    BY <1>2, <2>1, <2>3, DefaultTagFirst, ResolvePinnedParts
  <2>4. CASE world.key.backend \notin ToSet(PinBackends) /\ With(world.key.tag) = <<>>
    BY <1>2, <2>1, <2>4, ResolvePinnedParts
  <2> QED  BY <2>2, <2>3, <2>4
<1> QED  BY <1>1, <1>2

(* A single choice is made on the first backend tagged.                    *)
LEMMA PinnedAgrees ==
    ASSUME RouteInv, [Next]_vars, Planning, phase' = "planned", ~ request.audio, Policy.tags = {},
           request.model # "auto", Policy.fallback = "none"
    PROVE  ResolvePinned = plan'.candidates[1].key[1]
<1> DEFINE p == Planned(TRUE)
           s == p.candidates
<1>1. /\ Asked /\ Stored /\ room \in 0 .. NoBudget
      /\ plan'.candidates = s /\ PlanFacts(p)
      /\ p.error = Unset
  BY PlanningFacts
<1>2. s # <<>> /\ CandidatesSound(s)
  BY <1>1 DEF PlanFacts
<1>3. s = PinnedPart
  <2>1. Usable # <<>> /\ Planned(TRUE) = PlannedPinned(TRUE)
    <3>1. CASE Usable = <<>>
      <4>1. p = NoPlan("forbidden")
        BY <3>1 DEF Planned
      <4> HIDE DEF p
      <4> QED  BY <1>2, <4>1 DEF NoPlan
    <3>2. CASE Usable # <<>>
      BY <3>2 DEF Planned
    <3> QED  BY <3>1, <3>2
  <2>2. s = <<>> \/ s = PinnedPart \o OtherPart
    <3> DEFINE q == PinnedPlan(RealModel, PinnedGate(RealModel), PinnedPart, AutoPart,
                               Mute(PinBackends, RealModel), TRUE)
    <3>1. q.candidates = PinnedPart \o OtherPart
      BY DEF PinnedPlan, OtherPart
    <3>2. NoPlan("model_not_found").candidates = <<>> /\ NoPlan("invalid_request_error").candidates = <<>>
      BY DEF NoPlan
    <3>3. p = q \/ p = NoPlan("model_not_found") \/ p = NoPlan("invalid_request_error")
      BY <2>1, PlannedPinnedParts
    <3> HIDE DEF p, q
    <3> QED  BY <3>1, <3>2, <3>3
  <2>3. OtherPart = <<>>
    BY <1>1, OtherPartFacts
  <2>4. PinnedPart \in Seq(ToSet(PinnedPart))
    BY <1>1, PinnedPartFacts
  <2>5. PinnedPart \o <<>> = PinnedPart
    BY <2>4
  <2> QED  BY <1>2, <2>2, <2>3, <2>5
<1> DEFINE chosen == Chosen(PinTagged)
           c == s[1]
           P == PinnedSet(RealModel, chosen)
<1>4. PinnedPart = PinnedCandidates(RealModel, chosen)
  BY <1>2, <1>3 DEF PinnedPart
<1>5. /\ Reachable(RealModel, chosen) /\ PinTagged \in Seq(DOMAIN world.at)
      /\ SingleChoice /\ DOMAIN chosen \subseteq {1}
  BY <1>1, PinReachable DEF SingleChoice
<1>6. chosen = First(PinTagged)
  BY <1>5 DEF Chosen
<1>7. 1 \in DOMAIN s
  <2> HIDE DEF s
  <2> QED  BY <1>2 DEF CandidatesSound
<1>8. c \in P
  <2> HIDE DEF chosen, s, P
  <2>1. \A i \in DOMAIN s : s[i] \in P
    BY <1>1, <1>3, <1>4, <1>5, PinnedListed DEF P
  <2> QED  BY <1>7, <2>1
<1>9. 1 \in DOMAIN chosen /\ c.key[1] = chosen[1]
  <2> HIDE DEF chosen, c
  <2> QED  BY <1>1, <1>5, <1>8, PinnedSingle
<1>10. PinTagged # <<>>
  <2>1. ASSUME PinTagged = <<>>  PROVE FALSE
    <3>1. chosen = <<>>
      BY <1>6, <2>1 DEF First
    <3> HIDE DEF chosen, c
    <3> QED  BY <1>9, <3>1
  <2> QED  BY <2>1
<1>11. chosen[1] = Head(PinTagged)
  BY <1>5, <1>6, <1>10 DEF First
<1>12. ResolvePinned = Head(PinTagged)
  BY <1>1, ResolvedFirst
<1> HIDE DEF c, chosen
<1> QED  BY <1>1, <1>9, <1>11, <1>12 DEF c
---------------------------------------------------------------------------
(* The registry picks alike: the automatic candidates *)

(* Leaving out a place that is alike in all tuples keeps their order.      *)
LEMMA LexDrop ==
    ASSUME NEW k \in Tuples(9), NEW k2 \in Tuples(9), NEW l \in Tuples(8), NEW l2 \in Tuples(8),
           k[6] = k2[6],
           \A i \in 1 .. 5 : k[i] = l[i] /\ k2[i] = l2[i],
           \A i \in 6 .. 8 : k[i + 1] = l[i] /\ k2[i + 1] = l2[i]
    PROVE  Lex(k, k2) <=> Lex(l, l2)
<1>1. /\ DOMAIN k = 1 .. 9 /\ DOMAIN l = 1 .. 8
      /\ \A i \in 1 .. 9 : k[i] \in Int /\ k2[i] \in Int
      /\ \A i \in 1 .. 8 : l[i] \in Int /\ l2[i] \in Int
  BY DEF Tuples
<1>2. ASSUME Lex(k, k2)  PROVE Lex(l, l2)
  <2>1. PICK i \in 1 .. 9 : k[i] < k2[i] /\ \A j \in 1 .. (i - 1) : k[j] = k2[j]
    BY <1>1, <1>2 DEF Lex
  <2>2. i # 6
    BY <1>1, <2>1
  <2>3. CASE i \in 1 .. 5
    <3>1. l[i] < l2[i] /\ i \in 1 .. 8
      BY <2>1, <2>3
    <3>2. \A j \in 1 .. (i - 1) : l[j] = l2[j]
      BY <2>1, <2>3
    <3> QED  BY <1>1, <3>1, <3>2 DEF Lex
  <2>4. CASE i \in 7 .. 9
    <3>1. i - 1 \in 6 .. 8 /\ (i - 1) + 1 = i
      BY <2>4
    <3>2. l[i - 1] < l2[i - 1]
      BY <2>1, <3>1
    <3>3. ASSUME NEW j \in 1 .. (i - 1 - 1)  PROVE l[j] = l2[j]
      <4>1. CASE j \in 1 .. 5
        BY <2>1, <2>4, <4>1
      <4>2. CASE j \in 6 .. 8
        <5>1. j + 1 \in 1 .. (i - 1)
          BY <2>4, <4>2
        <5>2. k[j + 1] = k2[j + 1]
          BY <2>1, <5>1
        <5> QED  BY <4>2, <5>2
      <4>3. j \in 1 .. 5 \/ j \in 6 .. 8
        BY <2>4
      <4> QED  BY <4>1, <4>2, <4>3
    <3> QED  BY <1>1, <3>1, <3>2, <3>3 DEF Lex
  <2> QED  BY <2>2, <2>3, <2>4
<1>3. ASSUME Lex(l, l2)  PROVE Lex(k, k2)
  <2>1. PICK i \in 1 .. 8 : l[i] < l2[i] /\ \A j \in 1 .. (i - 1) : l[j] = l2[j]
    BY <1>1, <1>3 DEF Lex
  <2>2. CASE i \in 1 .. 5
    <3>1. k[i] < k2[i] /\ i \in 1 .. 9
      BY <2>1, <2>2
    <3>2. \A j \in 1 .. (i - 1) : k[j] = k2[j]
      BY <2>1, <2>2
    <3> QED  BY <1>1, <3>1, <3>2 DEF Lex
  <2>3. CASE i \in 6 .. 8
    <3>1. k[i + 1] < k2[i + 1] /\ i + 1 \in 1 .. 9
      BY <2>1, <2>3
    <3>2. ASSUME NEW j \in 1 .. (i + 1 - 1)  PROVE k[j] = k2[j]
      <4>1. CASE j \in 1 .. 5
        <5>1. j \in 1 .. (i - 1)
          BY <2>3, <4>1
        <5> QED  BY <2>1, <4>1, <5>1
      <4>2. CASE j = 6
        BY <4>2
      <4>3. CASE j \in 7 .. 9
        <5>1. j - 1 \in 6 .. 8 /\ (j - 1) + 1 = j /\ j - 1 \in 1 .. (i - 1)
          BY <2>3, <4>3
        <5>2. l[j - 1] = l2[j - 1]
          BY <2>1, <5>1
        <5> QED  BY <5>1, <5>2
      <4>4. j \in 1 .. 5 \/ j = 6 \/ j \in 7 .. 9
        BY <2>3
      <4> QED  BY <4>1, <4>2, <4>3, <4>4
    <3> QED  BY <1>1, <3>1, <3>2 DEF Lex
  <2> QED  BY <2>2, <2>3
<1> QED  BY <1>2, <1>3

\* What the registry ranks an account by, and the account it ranks.
RegistryRank(x) ==
    LET k == Key(x[1], At(x[1]).accounts[x[3]], x[2])
    IN  <<Bit(store[k].cooling), -Score(k), Bit(x[1] # world.key.backend),
          Bit(world.key.tag \notin At(x[1]).tags), -Limits(x[2]).hits,
          Position(UsableForModality, x[1]), Position(Models(x[1]), x[2]), x[3]>>
RegistryAccount(x) == [key |-> Key(x[1], At(x[1]).accounts[x[3]], x[2]), rank |-> RegistryRank(x)]
RegistryPlaces ==
    {x \in Places3 : /\ Limits(x[2]).fits /\ Limits(x[2]).lifecycle # "retired"
                     /\ Policy.tag # Unset => Policy.tag \in At(x[1]).tags}
RegistrySet == {RegistryAccount(x) : x \in RegistryPlaces}

(* The parts of a rank, in a row.                                          *)
LEMMA NineTogether ==
    ASSUME NEW c, NEW s, NEW b, NEW t, NEW h, NEW d, NEW u, NEW m, NEW n
    PROVE  (<<c, s>> \o <<b, t, h, d, u, m>>) \o <<n>> = <<c, s, b, t, h, d, u, m, n>>
<1> DEFINE S == {c, s, b, t, h, d, u, m, n}
           front == <<c, s>>
           middle == <<b, t, h, d, u, m>>
           last == <<n>>
           row == <<c, s, b, t, h, d, u, m, n>>
           whole == (front \o middle) \o last
<1>1. /\ front \in Seq(S) /\ Len(front) = 2 /\ front[1] = c /\ front[2] = s
      /\ last \in Seq(S) /\ Len(last) = 1 /\ last[1] = n
  OBVIOUS
<1>2. /\ middle \in Seq(S) /\ Len(middle) = 6
      /\ middle[1] = b /\ middle[2] = t /\ middle[3] = h
      /\ middle[4] = d /\ middle[5] = u /\ middle[6] = m
  OBVIOUS
<1>3. /\ row \in Seq(S) /\ Len(row) = 9
      /\ row[1] = c /\ row[2] = s /\ row[3] = b /\ row[4] = t /\ row[5] = h
      /\ row[6] = d /\ row[7] = u /\ row[8] = m /\ row[9] = n
  OBVIOUS
<1> HIDE DEF S, front, middle, last, row
<1> DEFINE both == front \o middle
<1>4. /\ both \in Seq(S) /\ Len(both) = 8
      /\ \A i \in 1 .. 8 : both[i] = IF i <= 2 THEN front[i] ELSE middle[i - 2]
  <2>1. /\ both \in Seq(S) /\ Len(both) = Len(front) + Len(middle)
        /\ \A i \in 1 .. Len(front) + Len(middle) :
              both[i] = IF i <= Len(front) THEN front[i] ELSE middle[i - Len(front)]
    BY <1>1, <1>2, ConcatProperties
  <2> HIDE DEF both
  <2>2. Len(front) = 2 /\ Len(middle) = 6
    BY <1>1, <1>2
  <2>3. 2 + 6 = 8
    OBVIOUS
  <2> QED  BY <2>1, <2>2, <2>3
<1> HIDE DEF both
<1>5. /\ both \o last \in Seq(S) /\ Len(both \o last) = 9
      /\ \A i \in 1 .. 9 : (both \o last)[i] = IF i <= 8 THEN both[i] ELSE last[i - 8]
  <2> DEFINE all == both \o last
  <2>1. /\ all \in Seq(S) /\ Len(all) = Len(both) + Len(last)
        /\ \A i \in 1 .. Len(both) + Len(last) :
              all[i] = IF i <= Len(both) THEN both[i] ELSE last[i - Len(both)]
    BY <1>1, <1>4, ConcatProperties
  <2> HIDE DEF all
  <2>2. Len(both) = 8 /\ Len(last) = 1
    BY <1>1, <1>4
  <2>3. 8 + 1 = 9
    OBVIOUS
  <2>4. /\ all \in Seq(S) /\ Len(all) = 9
        /\ \A i \in 1 .. 9 : all[i] = IF i <= 8 THEN both[i] ELSE last[i - 8]
    BY <2>1, <2>2, <2>3
  <2> QED  BY <2>4 DEF all
<1>6. \A i \in 1 .. 9 : (both \o last)[i] = row[i]
  <2> SUFFICES ASSUME NEW i \in 1 .. 9  PROVE (both \o last)[i] = row[i]
    OBVIOUS
  <2>1. i = 1 \/ i = 2 \/ i \in 3 .. 8 \/ i = 9
    OBVIOUS
  <2>2. CASE i = 9
    BY <1>1, <1>3, <1>5, <2>2
  <2>3. CASE i = 1 \/ i = 2
    BY <1>1, <1>3, <1>4, <1>5, <2>3
  <2>4. ASSUME NEW j \in 1 .. 6, i = j + 2  PROVE (both \o last)[i] = middle[j]
    <3>1. i \in 1 .. 8 /\ ~ (i <= 2) /\ i - 2 = j /\ i <= 8
      BY <2>4
    <3>2. (both \o last)[i] = both[i] /\ both[i] = middle[i - 2]
      BY <1>4, <1>5, <3>1
    <3> QED  BY <3>1, <3>2
  <2>5. CASE i \in 3 .. 8
    <3>1. PICK j \in 1 .. 6 : i = j + 2
      <4>1. i - 2 \in 1 .. 6 /\ i = (i - 2) + 2
        BY <2>5
      <4> QED  BY <4>1
    <3>2. (both \o last)[i] = middle[j]
      BY <2>4, <3>1
    <3>3. row[j + 2] = middle[j]
      <4>1. j = 1 \/ j = 2 \/ j = 3 \/ j = 4 \/ j = 5 \/ j = 6
        OBVIOUS
      <4>2. CASE j = 1 \/ j = 2 \/ j = 3
        BY <1>2, <1>3, <4>2
      <4>3. CASE j = 4 \/ j = 5 \/ j = 6
        BY <1>2, <1>3, <4>3
      <4> QED  BY <4>1, <4>2, <4>3
    <3> QED  BY <3>1, <3>2, <3>3
  <2> QED  BY <2>1, <2>2, <2>3, <2>5
<1>7. both \o last = row
  BY <1>3, <1>5, <1>6, SeqEqual
<1> QED  BY <1>7 DEF both, front, middle, last, row

(* A balanced rank, in full.                                               *)
LEMMA BalancedRank ==
    ASSUME Policy.optimize = "balanced", NEW x
    PROVE  LET k == Key(x[1], At(x[1]).accounts[x[3]], x[2])
           IN  Rank(x) = <<Bit(store[k].cooling), -Score(k), Bit(x[1] # world.key.backend),
                           Bit(world.key.tag \notin At(x[1]).tags), -Limits(x[2]).hits,
                           Bit(Limits(x[2]).lifecycle = "deprecated"),
                           Position(UsableForModality, x[1]), Position(Models(x[1]), x[2]), x[3]>>
<1> DEFINE k == Key(x[1], At(x[1]).accounts[x[3]], x[2])
           c == Bit(store[k].cooling)
           s == -Score(k)
           b == Bit(x[1] # world.key.backend)
           t == Bit(world.key.tag \notin At(x[1]).tags)
           h == -Limits(x[2]).hits
           d == Bit(Limits(x[2]).lifecycle = "deprecated")
           u == Position(UsableForModality, x[1])
           m == Position(Models(x[1]), x[2])
           static == Static(x[1], x[2])
           order == OrderKey(k, static, Limits(x[2]).price, d)
<1>1. static = <<b, t, h, d, u, m>>
  BY DEF Static
<1>2. Rank(x) = order \o <<x[3]>>
  BY DEF Rank, AutoCandidate
<1>3. order = <<c, s>> \o static
  <2> HIDE DEF static, d
  <2> QED  BY DEF OrderKey
<1> HIDE DEF c, s, b, t, h, d, u, m, static, order
<1>4. Rank(x) = <<c, s, b, t, h, d, u, m, x[3]>>
  BY <1>1, <1>2, <1>3, NineTogether
<1> QED  BY <1>4 DEF c, s, b, t, h, d, u, m

(* The two ranks order the accounts alike when no model is deprecated.     *)
LEMMA RanksAlike ==
    ASSUME Asked, Stored, Policy.optimize = "balanced", NEW x \in Places3, NEW y \in Places3,
           Limits(x[2]).lifecycle # "deprecated", Limits(y[2]).lifecycle # "deprecated"
    PROVE  /\ Lex(Rank(x), Rank(y)) <=> Lex(RegistryRank(x), RegistryRank(y))
           /\ Rank(x) \in Tuples(9) /\ RegistryRank(x) \in Tuples(8)
           /\ RegistryRank(x) = RegistryRank(y) => x = y
<1> DEFINE Alike(z) == /\ Rank(z) \in Tuples(9) /\ RegistryRank(z) \in Tuples(8)
                       /\ Rank(z)[6] = 0
                       /\ \A i \in 1 .. 5 : Rank(z)[i] = RegistryRank(z)[i]
                       /\ \A i \in 6 .. 8 : Rank(z)[i + 1] = RegistryRank(z)[i]
<1>1. ASSUME NEW z \in Places3, Limits(z[2]).lifecycle # "deprecated"  PROVE Alike(z)
  <2> DEFINE k == Key(z[1], At(z[1]).accounts[z[3]], z[2])
             r == Rank(z)
             g == RegistryRank(z)
             c == Bit(store[k].cooling)
             t == Bit(world.key.tag \notin At(z[1]).tags)
             b == Bit(z[1] # world.key.backend)
             u == Position(UsableForModality, z[1])
             m == Position(Models(z[1]), z[2])
             d == Bit(Limits(z[2]).lifecycle = "deprecated")
             h == -Limits(z[2]).hits
             sc == -Score(k)
             n == z[3]
  <2>1. r = <<c, sc, b, t, h, d, u, m, n>> /\ g = <<c, sc, b, t, h, u, m, n>>
    BY BalancedRank DEF RegistryRank
  <2>2. d = 0
    BY <1>1 DEF Bit
  <2>3. k \in DOMAIN store /\ h \in Int /\ n \in Int /\ z[1] \in DOMAIN world.at
        /\ z[1] \in ToSet(UsableForModality) /\ z[2] \in ToSet(Models(z[1]))
    BY PlaceType
  <2>4. c \in Int /\ sc \in Int
    BY <2>3, HealthType
  <2>5. b \in Int /\ t \in Int
    BY DEF Bit
  <2>6. u \in Int /\ m \in Int
    <3>1. UsableForModality \in Seq(DOMAIN world.at) /\ Models(z[1]) \in Seq(STRING)
      BY <2>3, UsableType, WorldType DEF Asked
    <3> QED  BY <2>3, <3>1, PositionProperties
  <2> HIDE DEF k, r, g, c, t, b, u, m, d, h, sc, n
  <2>7. r \in Tuples(9)
    BY <2>1, <2>2, <2>3, <2>4, <2>5, <2>6 DEF Tuples
  <2>8. g \in Tuples(8)
    BY <2>1, <2>2, <2>3, <2>4, <2>5, <2>6 DEF Tuples
  <2>9. r[6] = 0 /\ \A i \in 1 .. 5 : r[i] = g[i]
    BY <2>1, <2>2
  <2>10. \A i \in 6 .. 8 : r[i + 1] = g[i]
    <3>1. r[7] = g[6] /\ r[8] = g[7] /\ r[9] = g[8]
      BY <2>1
    <3>2. \A i \in 6 .. 8 : i = 6 \/ i = 7 \/ i = 8
      OBVIOUS
    <3> QED  BY <3>1, <3>2
  <2> QED  BY <2>7, <2>8, <2>9, <2>10 DEF r, g
<1>2. Alike(x) /\ Alike(y)
  BY <1>1
<1>3. Lex(Rank(x), Rank(y)) <=> Lex(RegistryRank(x), RegistryRank(y))
  BY <1>2, LexDrop
<1>4. ASSUME RegistryRank(x) = RegistryRank(y)  PROVE x = y
  <2> DEFINE r == Rank(x)
             q == Rank(y)
  <2>1. r \in Tuples(9) /\ q \in Tuples(9)
    BY <1>2
  <2>2. \A i \in 1 .. 9 : r[i] = q[i]
    <3>1. ASSUME NEW i \in 1 .. 9  PROVE r[i] = q[i]
      <4>1. CASE i \in 1 .. 5 \/ i = 6
        BY <1>2, <1>4, <4>1
      <4>2. CASE i \in 7 .. 9
        <5>1. i - 1 \in 6 .. 8 /\ (i - 1) + 1 = i
          BY <4>2
        <5> QED  BY <1>2, <1>4, <5>1
      <4> QED  BY <3>1, <4>1, <4>2
    <3> QED  BY <3>1
  <2> HIDE DEF r, q
  <2>3. r = q
    BY <2>1, <2>2 DEF Tuples
  <2> QED  BY <2>3, RankTells DEF r, q
<1> QED  BY <1>2, <1>3, <1>4
\* What the registry lists: every account of every pair that fits.
RegistryPairs ==
    {o \in ToSet(UsableForModality) \X DOMAIN world.catalogue :
       /\ o[2] \in ToSet(Models(o[1])) /\ Limits(o[2]).fits
       /\ Limits(o[2]).lifecycle # "retired"
       /\ Policy.tag # Unset => Policy.tag \in At(o[1]).tags}
RegistryEntry(b, m, i) ==
    LET k == Key(b, At(b).accounts[i], m)
    IN  [key |-> k,
         rank |-> <<Bit(store[k].cooling), -Score(k), Bit(b # world.key.backend),
                    Bit(world.key.tag \notin At(b).tags), -Limits(m).hits,
                    Position(UsableForModality, b), Position(Models(b), m), i>>]
RegistryEntries(o) == {RegistryEntry(o[1], o[2], i) : i \in DOMAIN At(o[1]).accounts}
RegistryAll == UNION {RegistryEntries(o) : o \in RegistryPairs}

(* The registry lists the keys of what it sorts.                           *)
LEMMA RegistryListed ==
    EnumerateAutoCandidates = [i \in DOMAIN Sorted(RegistryAll) |-> Sorted(RegistryAll)[i].key]
<1>1. RegistryAll =
        UNION {{RegistryEntry(o[1], o[2], i) : i \in DOMAIN At(o[1]).accounts} : o \in RegistryPairs}
  BY DEF RegistryAll, RegistryEntries
<1> QED  BY <1>1 DEF EnumerateAutoCandidates, RegistryPairs, RegistryEntry

(* What the registry sorts are the accounts of its places.                 *)
LEMMA RegistryOfPlaces ==
    ASSUME Asked
    PROVE  RegistryAll = RegistrySet
<1>1. ASSUME NEW e \in RegistryAll  PROVE e \in RegistrySet
  <2>1. PICK o \in RegistryPairs : e \in RegistryEntries(o)
    BY DEF RegistryAll
  <2>2. PICK i \in DOMAIN At(o[1]).accounts : e = RegistryEntry(o[1], o[2], i)
    BY <2>1 DEF RegistryEntries
  <2>3. /\ o[1] \in ToSet(UsableForModality) /\ o[2] \in DOMAIN world.catalogue
        /\ o[2] \in ToSet(Models(o[1])) /\ Limits(o[2]).fits /\ Limits(o[2]).lifecycle # "retired"
        /\ Policy.tag # Unset => Policy.tag \in At(o[1]).tags
    BY DEF RegistryPairs
  <2>4. i \in Nat
    <3>1. o[1] \in DOMAIN world.at
      BY <2>3, UsableType DEF Asked
    <3>2. At(o[1]).accounts \in Seq(STRING)
      BY <3>1, WorldType DEF Asked
    <3> QED  BY <3>2
  <2> DEFINE x == <<o[1], o[2], i>>
  <2>5. x[1] = o[1] /\ x[2] = o[2] /\ x[3] = i
    OBVIOUS
  <2>6. x \in Places3
    BY <2>3, <2>4 DEF Places3
  <2> HIDE DEF x
  <2>7. x \in RegistryPlaces
    BY <2>3, <2>5, <2>6 DEF RegistryPlaces
  <2>8. e = RegistryAccount(x)
    BY <2>2, <2>5, Zenon DEF RegistryEntry, RegistryAccount, RegistryRank
  <2> QED  BY <2>7, <2>8 DEF RegistrySet
<1>2. ASSUME NEW e \in RegistrySet  PROVE e \in RegistryAll
  <2>1. PICK x \in RegistryPlaces : e = RegistryAccount(x)
    BY DEF RegistrySet
  <2>2. x \in Places3
    BY DEF RegistryPlaces
  <2> DEFINE o == <<x[1], x[2]>>
  <2>3. /\ o \in ToSet(UsableForModality) \X DOMAIN world.catalogue
        /\ o[2] \in ToSet(Models(o[1])) /\ x[3] \in DOMAIN At(o[1]).accounts
        /\ o[1] = x[1] /\ o[2] = x[2]
    BY <2>2 DEF Places3
  <2> HIDE DEF o
  <2>4. o \in RegistryPairs
    BY <2>3 DEF RegistryPairs, RegistryPlaces
  <2>5. e = RegistryEntry(o[1], o[2], x[3])
    BY <2>1, <2>3, Zenon DEF RegistryEntry, RegistryAccount, RegistryRank
  <2>6. e \in RegistryEntries(o)
    BY <2>3, <2>5 DEF RegistryEntries
  <2> QED  BY <2>4, <2>6 DEF RegistryAll
<1> QED  BY <1>1, <1>2

(* Without audio, tags, caps and budgets the planner takes the same places.*)
LEMMA PlacesAlike ==
    ASSUME Asked, room = NoBudget, ~ request.audio, Policy.tags = {}, Policy.cap = NoCap
    PROVE  AutoPlaces(Unset) = RegistryPlaces
<1>1. ASSUME NEW x \in Places3
      PROVE  /\ TagOk(x[1]) <=> (Policy.tag # Unset => Policy.tag \in At(x[1]).tags)
             /\ x[2] # Unset /\ Speaks(x[1], At(x[1]).accounts[x[3]], x[2])
             /\ AutoReason(x[2]) = Unset <=> Limits(x[2]).fits /\ Limits(x[2]).lifecycle # "retired"
  <2>1. x[2] \in DOMAIN world.catalogue
    BY DEF Places3
  <2>2. x[2] # Unset
    BY <2>1, WorldType DEF Asked
  <2>3. TagOk(x[1]) <=> (Policy.tag # Unset => Policy.tag \in At(x[1]).tags)
    BY DEF TagOk
  <2>4. Speaks(x[1], At(x[1]).accounts[x[3]], x[2])
    BY DEF Speaks
  <2>5. AdmitReason(x[2]) = Unset
    BY Zenon DEF AdmitReason
  <2>6. AutoReason(x[2]) = Unset <=>
          Limits(x[2]).fits /\ Limits(x[2]).lifecycle # "retired" /\ AdmitReason(x[2]) = Unset
    BY Zenon DEF AutoReason, Unset
  <2> QED  BY <2>2, <2>3, <2>4, <2>5, <2>6
<1>2. AutoPlaces(Unset) =
        {x \in Places3 : /\ TagOk(x[1]) /\ x[2] # Unset /\ AutoReason(x[2]) = Unset
                         /\ Speaks(x[1], At(x[1]).accounts[x[3]], x[2])}
  BY AutoPlacesType
<1> QED  BY <1>1, <1>2 DEF RegistryPlaces

(* A set sorted that is the image of places ordered alike follows them.    *)
LEMMA SortedAlong ==
    ASSUME NEW f, IsFiniteSet(DOMAIN f), \A x, y \in DOMAIN f : f[x] = f[y] => x = y,
           NEW Q, StrictOrder(Q, DOMAIN f),
           \A x, y \in DOMAIN f : Lex(f[x].rank, f[y].rank) <=> <<x, y>> \in Q,
           NEW S, S = Image(f)
    PROVE  Sorted(S) = [k \in DOMAIN InOrder(DOMAIN f, Q) |-> f[InOrder(DOMAIN f, Q)[k]]]
<1> DEFINE R == ByRank(S)
<1>1. ASSUME NEW x \in DOMAIN f, NEW y \in DOMAIN f
      PROVE  <<f[x], f[y]>> \in R <=> <<x, y>> \in Q
  <2> DEFINE c == f[x]
             d == f[y]
  <2>1. c \in S /\ d \in S
    BY DEF Image
  <2>2. Lex(c.rank, d.rank) <=> <<x, y>> \in Q
    OBVIOUS
  <2> HIDE DEF c, d
  <2>3. <<c, d>> \in R <=> Lex(c.rank, d.rank)
    BY <2>1 DEF ByRank
  <2> HIDE DEF R
  <2> QED  BY <2>2, <2>3, Zenon DEF c, d
<1>2. Sorted(S) = InOrder(S, R)
  BY DEF Sorted, ByRank
<1> HIDE DEF R
<1>3. \A x, y \in DOMAIN f : <<f[x], f[y]>> \in R <=> <<x, y>> \in Q
  BY <1>1, Zenon
<1>4. InOrder(Image(f), R) = [k \in DOMAIN InOrder(DOMAIN f, Q) |-> f[InOrder(DOMAIN f, Q)[k]]]
  BY <1>3, InOrderImage
<1> QED  BY <1>2, <1>4

(* The registry lists what an automatic plan lists, in its order.          *)
LEMMA AutoAgrees ==
    ASSUME RouteInv, [Next]_vars, Planning, phase' = "planned", ~ request.audio, Policy.tags = {},
           request.model = "auto", Policy.optimize = "balanced", Policy.cap = NoCap, room = NoBudget,
           \A m \in DOMAIN world.catalogue : Limits(m).lifecycle # "deprecated"
    PROVE  EnumerateAutoCandidates = [i \in DOMAIN plan'.candidates |-> plan'.candidates[i].key]
<1> DEFINE P == RegistryPlaces
           f == [x \in P |-> AutoCandidate(x[1], x[2], x[3])]
           g == [x \in P |-> RegistryAccount(x)]
           Q == {p \in P \X P : Lex(Rank(p[1]), Rank(p[2]))}
           I == InOrder(P, Q)
<1>1. /\ Asked /\ Stored /\ room \in 0 .. NoBudget
      /\ plan'.candidates = Planned(TRUE).candidates /\ Planned(TRUE).error = Unset
  BY PlanningFacts
<1>2. Usable # <<>>
  <2>1. Planned(TRUE).error # "forbidden"
    <3>1. Unset # "forbidden"
      BY DEF Unset
    <3> QED  BY <1>1, <3>1
  <2> QED  BY <1>1, <2>1, AutoPlanned
<1>3. plan'.candidates = Sorted(AutoSet(Unset))
  BY <1>1, <1>2, AutoPlanned, AutoListed
<1>4. AutoPlaces(Unset) = P
  BY <1>1, PlacesAlike
<1>5. P \subseteq Places3 /\ IsFiniteSet(P)
  <2>1. P \subseteq Places3
    BY DEF RegistryPlaces
  <2> QED  BY <1>1, <2>1, PlacesFinite, FS_Subset
<1>6. ASSUME NEW x \in P, NEW y \in P
      PROVE  /\ Lex(Rank(x), Rank(y)) <=> Lex(RegistryRank(x), RegistryRank(y))
             /\ Rank(x) \in Tuples(9)
             /\ RegistryRank(x) = RegistryRank(y) => x = y
             /\ Rank(x) = Rank(y) => x = y
  <2>1. x \in Places3 /\ y \in Places3
    BY <1>5
  <2>2. Limits(x[2]).lifecycle # "deprecated" /\ Limits(y[2]).lifecycle # "deprecated"
    BY <1>1, <2>1, PlaceType
  <2> QED  BY <1>1, <2>1, <2>2, RanksAlike, RankTells
<1>7. ASSUME NEW x \in P
      PROVE  f[x].rank = Rank(x) /\ g[x].rank = RegistryRank(x) /\ f[x].key = g[x].key
  <2>1. f[x].rank = Rank(x)
    BY DEF Rank
  <2>2. g[x].rank = RegistryRank(x)
    BY DEF RegistryAccount
  <2>3. f[x].key = g[x].key
    BY DEF RegistryAccount, AutoCandidate
  <2> QED  BY <2>1, <2>2, <2>3
<1>8. AutoSet(Unset) = Image(f) /\ RegistrySet = Image(g) /\ DOMAIN f = P /\ DOMAIN g = P
  BY <1>4 DEF AutoSet, RegistrySet, Image
<1> HIDE DEF P, f, g
<1>9. \A x, y \in P : <<x, y>> \in Q <=> Lex(Rank(x), Rank(y))
  OBVIOUS
<1> HIDE DEF Q
<1>10. StrictOrder(Q, P)
  <2> DEFINE n == 9
  <2>1. n \in Nat /\ \A x \in P : Rank(x) \in Tuples(n)
    BY <1>6
  <2> HIDE DEF n
  <2>2. /\ \A k \in Tuples(n) : ~ Lex(k, k)
        /\ \A k, l, m \in Tuples(n) : Lex(k, l) /\ Lex(l, m) => Lex(k, m)
        /\ \A k, l \in Tuples(n) : k # l => Lex(k, l) \/ Lex(l, k)
    BY <2>1, LexOrder
  <2> QED  BY <1>6, <1>9, <2>1, <2>2 DEF StrictOrder
<1>11. Sorted(AutoSet(Unset)) = [k \in DOMAIN I |-> f[I[k]]]
  <2>1. \A x, y \in P : Lex(f[x].rank, f[y].rank) <=> <<x, y>> \in Q
    <3>1. ASSUME NEW x \in P, NEW y \in P  PROVE Lex(f[x].rank, f[y].rank) <=> <<x, y>> \in Q
      <4>1. f[x].rank = Rank(x) /\ f[y].rank = Rank(y)
        BY <1>7
      <4>2. <<x, y>> \in Q <=> Lex(Rank(x), Rank(y))
        BY <1>9
      <4> QED  BY <4>1, <4>2, Zenon
    <3> QED  BY <3>1, Zenon
  <2>2. \A x, y \in P : f[x] = f[y] => x = y
    BY <1>6, <1>7
  <2> QED  BY <1>5, <1>8, <1>10, <2>1, <2>2, SortedAlong
<1>12. Sorted(RegistrySet) = [k \in DOMAIN I |-> g[I[k]]]
  <2>1. \A x, y \in P : Lex(g[x].rank, g[y].rank) <=> <<x, y>> \in Q
    <3>1. ASSUME NEW x \in P, NEW y \in P  PROVE Lex(g[x].rank, g[y].rank) <=> <<x, y>> \in Q
      <4>1. g[x].rank = RegistryRank(x) /\ g[y].rank = RegistryRank(y)
        BY <1>7
      <4>2. <<x, y>> \in Q <=> Lex(Rank(x), Rank(y))
        BY <1>9
      <4>3. Lex(Rank(x), Rank(y)) <=> Lex(RegistryRank(x), RegistryRank(y))
        BY <1>6
      <4> QED  BY <4>1, <4>2, <4>3, Zenon
    <3> QED  BY <3>1, Zenon
  <2>2. \A x, y \in P : g[x] = g[y] => x = y
    BY <1>6, <1>7
  <2> QED  BY <1>5, <1>8, <1>10, <2>1, <2>2, SortedAlong
<1>13. \A k \in DOMAIN I : I[k] \in P
  BY <1>5, <1>10, InOrderProperties
<1> DEFINE s == Sorted(AutoSet(Unset))
           r == Sorted(RegistrySet)
<1>14. EnumerateAutoCandidates = [i \in DOMAIN r |-> r[i].key]
  BY <1>1, RegistryListed, RegistryOfPlaces
<1> HIDE DEF s, r, I
<1>15. DOMAIN s = DOMAIN I /\ DOMAIN r = DOMAIN I
  BY <1>11, <1>12 DEF s, r
<1>16. ASSUME NEW k \in DOMAIN I  PROVE s[k].key = r[k].key
  <2>1. s[k] = f[I[k]] /\ r[k] = g[I[k]]
    BY <1>11, <1>12 DEF s, r
  <2> QED  BY <1>7, <1>13, <2>1
<1>17. [i \in DOMAIN r |-> r[i].key] = [i \in DOMAIN s |-> s[i].key]
  BY <1>15, <1>16
<1> QED  BY <1>3, <1>14, <1>17 DEF s

(* The registry's own resolution and the planner pick alike when no price, *)
(* budget, deprecation or speech sets them apart (Registry.resolve,        *)
(* Registry.enumerate_auto_candidates, plan_route).                        *)
THEOREM RegistryPicksAlike == Spec => RegistryAgrees
<1>1. RouteInv /\ [Next]_vars =>
        (Planning /\ phase' = "planned" /\ ~request.audio /\ Policy.tags = {} =>
          IF request.model # "auto"
          THEN Policy.fallback = "none" => ResolvePinned = plan'.candidates[1].key[1]
          ELSE Policy.optimize = "balanced" /\ Policy.cap = NoCap /\ room = NoBudget
                 /\ (\A m \in DOMAIN world.catalogue : Limits(m).lifecycle # "deprecated")
               => EnumerateAutoCandidates = [i \in DOMAIN plan'.candidates |-> plan'.candidates[i].key])
  BY PinnedAgrees, AutoAgrees
<1> QED  BY <1>1, RouteInvariant, PTL DEF Spec, RegistryAgrees
===============================================================================
