------------------------ MODULE PluginLifecycle_proofs ------------------------
(***************************************************************************)
(* Proofs about plugin generations, for any plugins, generations, requests *)
(* and mutations.                                                          *)
(*                                                                         *)
(* PluginInv is inductive.  Its heart is UsersExact: the counter of a      *)
(* generation (LoadedPlugin.users) is the number of its holdings, a        *)
(* request and the task it created being two.  The lemmas on counting say  *)
(* what becomes of the holdings when leases and pins are taken and given   *)
(* back.  A step of a request, of a task or of the shutdown touches no     *)
(* mutation (Bystander); a mutation that has the lock touches no user      *)
(* (Holder); each kind of step has its lemmas.                             *)
(***************************************************************************)
EXTENDS PluginLifecycle, FiniteSetTheorems, TLAPS

-----------------------------------------------------------------------------
(* Counting.                                                               *)

Leasers(g) == {r \in Requests : g \in lease[r]}
Holding(g) == ({"request"} \X Leasers(g)) \cup ({"task"} \X Pinners(g))

(* Whoever has g in its lease counts, wherever it is.                      *)
LEMMA UsesAreHoldings ==
    ASSUME UsersSound, NEW g \in Gens
    PROVE  Uses(g) = Holding(g)
<1>1. Lessees(g) \cup LeftBehind(g) = Leasers(g)
  <2>1. ASSUME NEW r \in Requests, g \in lease[r]
        PROVE  r \in Lessees(g) \cup LeftBehind(g)
    BY <2>1 DEF UsersSound, Lessees, LeftBehind
  <2> QED  BY <2>1 DEF Lessees, LeftBehind, Leasers
<1> QED  BY <1>1 DEF Uses, Holding

(* Holdings are finite.                                                    *)
LEMMA PairsFinite ==
    ASSUME NEW S \in SUBSET ({"request", "task"} \X Requests)
    PROVE  IsFiniteSet(S) /\ Cardinality(S) \in Nat
<1>1. IsFiniteSet({"request"} \cup {"task"})
  BY FS_Singleton, FS_AddElement
<1>2. {"request"} \cup {"task"} = {"request", "task"}
  OBVIOUS
<1>3. IsFiniteSet({"request", "task"} \X Requests)
  BY <1>1, <1>2, FS_Product, PluginAssumption
<1>4. IsFiniteSet(S)
  BY <1>3, FS_Subset
<1> QED  BY <1>4, FS_CardinalityType

(* The holdings of one generation are finite.                              *)
LEMMA HoldingFinite ==
    ASSUME NEW g \in Gens
    PROVE  IsFiniteSet(Holding(g)) /\ Cardinality(Holding(g)) \in Nat
<1>1. Holding(g) \subseteq {"request", "task"} \X Requests
  BY DEF Holding, Leasers, Pinners
<1> QED  BY <1>1, PairsFinite

(* What is used has a counter above zero.                                  *)
LEMMA UsedCounts ==
    ASSUME TypeOK, UsersSound, UsersExact
    PROVE  \A g \in Gens :
              /\ users[g] \in Nat
              /\ Holding(g) # {} <=> users[g] > 0
              /\ \A r \in Requests : g \in lease[r] => users[g] > 0
              /\ \A r \in Requests : r \in Pinners(g) => users[g] > 0
<1> SUFFICES ASSUME NEW g \in Gens
             PROVE  /\ users[g] \in Nat
                    /\ Holding(g) # {} <=> users[g] > 0
                    /\ \A r \in Requests : g \in lease[r] => users[g] > 0
                    /\ \A r \in Requests : r \in Pinners(g) => users[g] > 0
  OBVIOUS
<1>1. users[g] = Cardinality(Holding(g))
  BY UsesAreHoldings DEF UsersExact
<1>2. users[g] \in Nat /\ (users[g] = 0 <=> Holding(g) = {})
  BY <1>1, HoldingFinite, FS_EmptySet
<1>3. Holding(g) # {} <=> users[g] > 0
  BY <1>2
<1>4. \A r \in Requests : g \in lease[r] => <<"request", r>> \in Holding(g)
  BY DEF Holding, Leasers
<1>5. \A r \in Requests : r \in Pinners(g) => <<"task", r>> \in Holding(g)
  BY DEF Holding
<1> QED  BY <1>2, <1>3, <1>4, <1>5

(* Counters that follow the holdings are exact.                            *)
LEMMA Exact ==
    ASSUME UsersSound', \A g \in Gens : users'[g] = Cardinality(Holding(g)')
    PROVE  UsersExact' /\ \A g \in Gens : users'[g] \in Nat
<1>1. ASSUME NEW g \in Gens
      PROVE  Uses(g)' = Holding(g)'
  <2>1. (Lessees(g) \cup LeftBehind(g))' = Leasers(g)'
    <3>1. ASSUME NEW r \in Requests, g \in lease'[r]
          PROVE  r \in (Lessees(g) \cup LeftBehind(g))'
      BY <3>1 DEF UsersSound, Lessees, LeftBehind
    <3> QED  BY <3>1 DEF Lessees, LeftBehind, Leasers
  <2> QED  BY <2>1 DEF Uses, Holding
<1>2. \A g \in Gens : Cardinality(Holding(g)') \in Nat
  <2>1. \A g \in Gens : Holding(g)' \subseteq {"request", "task"} \X Requests
    BY DEF Holding, Leasers, Pinners
  <2> QED  BY <2>1, PairsFinite
<1> QED  BY <1>1, <1>2 DEF UsersExact

(* Nothing is taken or given back.                                         *)
LEMMA StillExact ==
    ASSUME TypeOK, UsersSound, UsersExact, UsersSound', UNCHANGED <<users, lease>>,
           \A g \in Gens : Pinners(g)' = Pinners(g)
    PROVE  UsersExact'
<1>1. \A g \in Gens : users[g] = Cardinality(Holding(g))
  BY UsesAreHoldings DEF UsersExact
<1>2. \A g \in Gens : Holding(g)' = Holding(g)
  BY DEF Holding, Leasers
<1> QED  BY <1>1, <1>2, Exact

(* A request gives back some of its leases.                                *)
LEMMA DroppedLeases ==
    ASSUME TypeOK, UsersSound, UsersExact, UsersSound', NEW r \in Requests, NEW R \in SUBSET lease[r],
           users' = Dropped(R), lease' = [lease EXCEPT ![r] = @ \ R], UNCHANGED <<pin, pstage>>
    PROVE  UsersExact' /\ users' \in [Gens -> Nat]
<1>1. ASSUME NEW g \in Gens
      PROVE  users'[g] = Cardinality(Holding(g)')
  <2>1. users[g] = Cardinality(Holding(g))
    BY UsesAreHoldings DEF UsersExact
  <2>2. Pinners(g)' = Pinners(g)
    BY DEF Pinners
  <2>3. CASE g \in R
    <3>1. <<"request", r>> \in Holding(g)
      BY <2>3 DEF Holding, Leasers
    <3>2. Leasers(g)' = Leasers(g) \ {r}
      BY <2>3 DEF Leasers, TypeOK
    <3>3. Holding(g)' = Holding(g) \ {<<"request", r>>}
      BY <2>2, <3>2 DEF Holding
    <3>4. Cardinality(Holding(g)') = Cardinality(Holding(g)) - 1
      BY <3>1, <3>3, HoldingFinite, FS_RemoveElement
    <3> QED  BY <2>1, <2>3, <3>4 DEF Dropped
  <2>4. CASE g \notin R
    <3>1. Leasers(g)' = Leasers(g)
      BY <2>4 DEF Leasers, TypeOK
    <3>2. Holding(g)' = Holding(g)
      BY <2>2, <3>1 DEF Holding
    <3> QED  BY <2>1, <2>4, <3>2 DEF Dropped
  <2> QED  BY <2>3, <2>4
<1>2. UsersExact' /\ \A g \in Gens : users'[g] \in Nat
  BY <1>1, Exact
<1> QED  BY <1>2 DEF Dropped

(* A request takes its leases.                                             *)
LEMMA AddedLeases ==
    ASSUME TypeOK, UsersSound, UsersExact, UsersSound', NEW r \in Requests, lease[r] = {},
           users' = [g \in Gens |-> users[g] + IF g \in lease'[r] THEN 1 ELSE 0],
           \A s \in Requests \ {r} : lease'[s] = lease[s], UNCHANGED <<pin, pstage>>
    PROVE  UsersExact' /\ users' \in [Gens -> Nat]
<1>1. ASSUME NEW g \in Gens
      PROVE  users'[g] = Cardinality(Holding(g)')
  <2>1. users[g] = Cardinality(Holding(g))
    BY UsesAreHoldings DEF UsersExact
  <2>2. Pinners(g)' = Pinners(g)
    BY DEF Pinners
  <2>3. CASE g \in lease'[r]
    <3>1. <<"request", r>> \notin Holding(g)
      BY <2>3 DEF Holding, Leasers
    <3>2. Leasers(g)' = Leasers(g) \cup {r}
      BY <2>3 DEF Leasers
    <3>3. Holding(g)' = Holding(g) \cup {<<"request", r>>}
      BY <2>2, <3>2 DEF Holding
    <3>4. Cardinality(Holding(g)') = Cardinality(Holding(g)) + 1
      BY <3>1, <3>3, HoldingFinite, FS_AddElement
    <3> QED  BY <2>1, <2>3, <3>4
  <2>4. CASE g \notin lease'[r]
    <3>1. Leasers(g)' = Leasers(g)
      BY <2>4 DEF Leasers
    <3>2. Holding(g)' = Holding(g)
      BY <2>2, <3>1 DEF Holding
    <3>3. users[g] \in Nat
      BY DEF TypeOK
    <3> QED  BY <2>1, <2>4, <3>2, <3>3
  <2> QED  BY <2>3, <2>4
<1>2. UsersExact' /\ \A g \in Gens : users'[g] \in Nat
  BY <1>1, Exact
<1> QED  BY <1>2

(* A task is pinned.                                                       *)
LEMMA AddedPin ==
    ASSUME TypeOK, UsersSound, UsersExact, UsersSound', NEW r \in Requests, NEW h \in Gens,
           users' = [users EXCEPT ![h] = @ + 1], UNCHANGED lease,
           \A g \in Gens : r \notin Pinners(g),
           Pinners(h)' = Pinners(h) \cup {r}, \A g \in Gens \ {h} : Pinners(g)' = Pinners(g)
    PROVE  UsersExact' /\ users' \in [Gens -> Nat]
<1>1. ASSUME NEW g \in Gens
      PROVE  users'[g] = Cardinality(Holding(g)')
  <2>1. users[g] = Cardinality(Holding(g))
    BY UsesAreHoldings DEF UsersExact
  <2>2. Leasers(g)' = Leasers(g)
    BY DEF Leasers
  <2>3. CASE g = h
    <3>1. <<"task", r>> \notin Holding(g)
      BY DEF Holding
    <3>2. Holding(g)' = Holding(g) \cup {<<"task", r>>}
      BY <2>2, <2>3 DEF Holding
    <3>3. Cardinality(Holding(g)') = Cardinality(Holding(g)) + 1
      BY <3>1, <3>2, HoldingFinite, FS_AddElement
    <3> QED  BY <2>1, <2>3, <3>3 DEF TypeOK
  <2>4. CASE g # h
    BY <2>1, <2>2, <2>4 DEF Holding, TypeOK
  <2> QED  BY <2>3, <2>4
<1>2. UsersExact' /\ \A g \in Gens : users'[g] \in Nat
  BY <1>1, Exact
<1> QED  BY <1>2 DEF TypeOK

(* Some tasks are unpinned.                                                *)
LEMMA DroppedPins ==
    ASSUME TypeOK, UsersSound, UsersExact, UsersSound', NEW X \in SUBSET Requests,
           \A r \in X : r \in Pinners(pin[r]),
           users' = [g \in Gens |-> users[g] - Pinned(X, g)], UNCHANGED lease,
           \A g \in Gens : Pinners(g)' = Pinners(g) \ X
    PROVE  UsersExact' /\ users' \in [Gens -> Nat]
<1>1. ASSUME NEW g \in Gens
      PROVE  users'[g] = Cardinality(Holding(g)')
  <2> DEFINE Y == {r \in X : pin[r] = g}
             T == {"task"} \X Y
  <2>1. users[g] = Cardinality(Holding(g)) /\ Leasers(g)' = Leasers(g)
    BY UsesAreHoldings DEF UsersExact, Leasers
  <2>2. Y \subseteq Pinners(g) /\ Pinners(g) \ X = Pinners(g) \ Y
    BY DEF Pinners
  <2>3. Holding(g)' = Holding(g) \ T /\ T \subseteq Holding(g)
    BY <2>1, <2>2 DEF Holding
  <2>4. IsFiniteSet(T) /\ IsFiniteSet(Y) /\ Cardinality(T) = Cardinality(Y)
    <3>1. IsFiniteSet(Y)
      BY FS_Subset, PluginAssumption
    <3>2. IsFiniteSet({"task"}) /\ Cardinality({"task"}) = 1
      BY FS_Singleton
    <3>3. IsFiniteSet(T) /\ Cardinality(T) = 1 * Cardinality(Y)
      BY <3>1, <3>2, FS_Product
    <3>4. Cardinality(Y) \in Nat
      BY <3>1, FS_CardinalityType
    <3> HIDE DEF Y, T
    <3> QED  BY <3>1, <3>3, <3>4
  <2>5. Cardinality(Holding(g) \ T) = Cardinality(Holding(g)) - Cardinality(Holding(g) \cap T)
    BY HoldingFinite, FS_Difference
  <2>6. Holding(g) \cap T = T
    BY <2>3
  <2>7. users'[g] = users[g] - Cardinality(Y)
    BY DEF Pinned
  <2> HIDE DEF Y, T
  <2> QED  BY <2>1, <2>3, <2>4, <2>5, <2>6, <2>7
<1>2. UsersExact' /\ \A g \in Gens : users'[g] \in Nat
  BY <1>1, Exact
<1> QED  BY <1>2

-----------------------------------------------------------------------------
(* A step of a request, a task or the shutdown, seen from the generations: *)
(* who is idle is only leased while it is active, who is closed was        *)
(* retired and has no users left, and who leaves the waiting is closed.    *)
Bystander ==
    /\ UNCHANGED <<active, retired, mutationVars>>
    /\ waiting' \subseteq waiting
    /\ \/ UNCHANGED shutdownVars
       \/ /\ shutdown \in {"manager", "down"} => shutdown' = shutdown
          /\ shutdown' = "down" => shutdown = "down"
          /\ shutdown' = "closing pin" => dying' # NoGen
          /\ dying' # NoGen => dying' \in Gens /\ state'[dying'] \in {"closing", "closed"}
    /\ \A g \in Gens :
          /\ users'[g] \in Nat
          /\ users[g] = 0 => users'[g] = 0 \/ \E p \in Plugins : active[p] = g /\ shutdown = "up"
          /\ \/ state'[g] = state[g]
             \/ /\ state[g] \in {"closing", "closed"}
                /\ state'[g] \in {"closing", "closed"}
             \/ /\ state[g] = "loaded" /\ g \in retired
                /\ state'[g] = "closing" /\ users'[g] = 0
          /\ g \in waiting \ waiting' => state'[g] # "loaded"
          /\ g \in retired /\ state'[g] = "loaded" => users'[g] > 0

(* What a mutation has loaded or is closing is not touched by bystanders.  *)
LEMMA BystanderMutations ==
    ASSUME PluginInv, Bystander
    PROVE  MutationsSound'
<1> USE DEF PluginInv, mutationVars
<1>1. ASSUME NEW m \in Mutations
      PROVE  (/\ mstage[m] \in {"loading", "preparing", "closing"} <=> lock = m
              /\ mstage[m] = "idle" => new[m] = NoGen
              /\ mstage[m] = "loading" => new[m] \in Gens /\ state[new[m]] = "unused"
              /\ mstage[m] = "preparing" /\ new[m] # NoGen => state[new[m]] = "loaded"
              /\ mstage[m] \in {"loading", "preparing"} /\ new[m] # NoGen =>
                    /\ PluginOf[new[m]] = Target[m]
                    /\ users[new[m]] = 0 /\ new[m] \notin retired
                    /\ \A p \in Plugins : active[p] # new[m]
              /\ mstage[m] = "closing" =>
                    old[m] \in Gens /\ state[old[m]] \in {"closing", "closed"})'
  <2>1. mstage' = mstage /\ lock' = lock /\ new' = new /\ old' = old /\ active' = active /\ retired' = retired
    BY DEF Bystander
  <2>2. CASE mstage[m] \in {"loading", "preparing"} /\ new[m] # NoGen
    <3>0. new[m] \in Gens
      BY <2>2 DEF TypeOK
    <3>1. users[new[m]] = 0 /\ new[m] \notin retired
          /\ (\A p \in Plugins : active[p] # new[m])
          /\ PluginOf[new[m]] = Target[m]
      BY <2>2 DEF MutationsSound
    <3>2. state[new[m]] \in {"unused", "loaded"} /\ (mstage[m] = "loading" <=> state[new[m]] = "unused")
      BY <2>2 DEF MutationsSound
    <3>3. users'[new[m]] = 0 /\ state'[new[m]] = state[new[m]]
      BY <3>0, <3>1, <3>2 DEF Bystander
    <3> QED  BY <2>1, <2>2, <3>0, <3>1, <3>2, <3>3 DEF MutationsSound
  <2>3. CASE mstage[m] = "closing"
    <3>1. old[m] \in Gens /\ state[old[m]] \in {"closing", "closed"}
      BY <2>3 DEF MutationsSound
    <3>2. state'[old[m]] \in {"closing", "closed"}
      BY <3>1 DEF Bystander
    <3> QED  BY <2>1, <2>3, <3>1, <3>2 DEF MutationsSound
  <2>4. CASE mstage[m] \notin {"loading", "closing"} /\ ~(mstage[m] = "preparing" /\ new[m] # NoGen)
    BY <2>1, <2>4 DEF MutationsSound
  <2>5. mstage[m] = "loading" => new[m] # NoGen
    <3>1. mstage[m] = "loading" => new[m] \in Gens
      BY DEF MutationsSound
    <3>2. NoGen \notin Gens
      BY PluginAssumption
    <3> QED  BY <3>1, <3>2
  <2> QED  BY <2>2, <2>3, <2>4, <2>5
<1>2. (/\ dying # NoGen => state[dying] \in {"closing", "closed"}
       /\ shutdown = "closing pin" => dying # NoGen
       /\ shutdown = "down" => lock = NoMutation /\ waiting = {})'
  <2>1. CASE UNCHANGED shutdownVars
    <3>1. dying # NoGen => dying \in Gens
      BY DEF TypeOK
    <3>2. dying # NoGen => state'[dying] \in {"closing", "closed"}
      BY <3>1 DEF Bystander, MutationsSound
    <3> QED  BY <2>1, <3>2 DEF Bystander, MutationsSound, shutdownVars
  <2>2. CASE ~UNCHANGED shutdownVars
    BY <2>2 DEF Bystander, MutationsSound
  <2> QED  BY <2>1, <2>2
<1> QED  BY <1>1, <1>2 DEF MutationsSound

(* Nor is what is active, or waits for its users.                          *)
LEMMA BystanderGenerations ==
    ASSUME PluginInv, Bystander
    PROVE  GenerationsSound' /\ ActiveUsable'
<1> USE DEF PluginInv, mutationVars, shutdownVars
<1>0. mstage' = mstage /\ lock' = lock /\ new' = new /\ old' = old /\ active' = active /\ retired' = retired
  BY DEF Bystander
<1>1. ASSUME NEW g \in Gens
      PROVE  (/\ state[g] = "unused" => users[g] = 0 /\ g \notin retired
              /\ state[g] \in {"closing", "closed"} /\ shutdown \notin {"manager", "down"} =>
                    users[g] = 0
              /\ g \in retired /\ state[g] = "loaded" => users[g] > 0
              /\ state[g] = "loaded" =>
                    \/ \E p \in Plugins : active[p] = g
                    \/ lock # NoMutation /\ mstage[lock] = "preparing" /\ new[lock] = g
                    \/ g \in waiting /\ g \in retired
                    \/ Abandoned(g))'
  <2>1. \A p \in Plugins : active[p] = g =>
            g \notin retired /\ (state[g] = "loaded" \/ shutdown = "manager")
    BY PluginAssumption DEF ActiveUsable
  <2>2. users[g] = 0 /\ shutdown = "up" /\ state[g] # "loaded" => users'[g] = 0
    BY <2>1 DEF Bystander
  <2>3. users[g] = 0 /\ state[g] # "loaded" => users'[g] = 0
    BY <2>2 DEF Bystander
  <2>4. state'[g] = "unused" => users'[g] = 0 /\ g \notin retired'
    BY <1>0, <2>3 DEF Bystander, GenerationsSound
  <2>5. state'[g] \in {"closing", "closed"} /\ shutdown' \notin {"manager", "down"} => users'[g] = 0
    BY <2>3 DEF Bystander, GenerationsSound
  <2>6. g \in retired' /\ state'[g] = "loaded" => users'[g] > 0
    BY <1>0 DEF Bystander
  <2>7. ASSUME state'[g] = "loaded"
        PROVE  \/ \E p \in Plugins : active'[p] = g
               \/ lock' # NoMutation /\ mstage'[lock'] = "preparing" /\ new'[lock'] = g
               \/ g \in waiting' /\ g \in retired'
               \/ Abandoned(g)'
    <3>1. state[g] = "loaded" /\ (g \in waiting => g \in waiting')
      BY <2>7 DEF Bystander
    <3>2. Abandoned(g)' = Abandoned(g)
      BY <1>0 DEF Abandoned
    <3> QED  BY <1>0, <3>1, <3>2 DEF GenerationsSound
  <2> QED  BY <2>4, <2>5, <2>6, <2>7
<1>2. ASSUME NEW p \in Plugins, active[p] # NoGen
      PROVE  /\ PluginOf[active[p]] = p
             /\ state'[active[p]] = "loaded" \/ shutdown' = "manager"
             /\ active[p] \notin retired
  <2>1. active[p] \in Gens
    BY <1>2 DEF TypeOK
  <2>2. /\ PluginOf[active[p]] = p /\ active[p] \notin retired
        /\ state[active[p]] = "loaded" \/ shutdown = "manager"
    BY <1>2 DEF ActiveUsable
  <2> QED  BY <2>1, <2>2 DEF Bystander
<1> QED  BY <1>0, <1>1, <1>2 DEF GenerationsSound, ActiveUsable

-----------------------------------------------------------------------------
(* The steps.                                                              *)

(* A request leases what is active.                                        *)
LEMMA LeaseStep ==
    ASSUME PluginInv, NEW r \in Requests, Lease(r)
    PROVE  PluginInv'
<1> USE PluginAssumption DEF PluginInv, Lease,
       generationVars, requestVars, taskVars, mutationVars, shutdownVars
<1>0. \A g \in Gens :
         /\ users[g] \in Nat
         /\ \A s \in Requests : g \in lease[s] => users[g] > 0
         /\ \A s \in Requests : s \in Pinners(g) => users[g] > 0
  BY UsedCounts
<1>a. /\ UNCHANGED <<active, waiting, retired, state, mutationVars, shutdownVars>>
      /\ shutdown = "up"
      /\ \A g \in Gens : users'[g] = users[g] + IF g \in lease'[r] THEN 1 ELSE 0
      /\ \A g \in lease'[r] : g \in Gens /\ \E p \in Plugins : active[p] = g
  <2>1. lease'[r] = {active[p] : p \in Matching[r]} \ {NoGen}
    BY DEF TypeOK
  <2>2. Matching[r] \subseteq Plugins
    BY PluginAssumption
  <2>3. \A g \in lease'[r] : g \in Gens /\ \E p \in Plugins : active[p] = g
    BY <2>1, <2>2 DEF TypeOK
  <2> QED  BY <2>3
<1>1. UsersSound'
  BY DEF TypeOK, UsersSound
<1>2. UsersExact' /\ users' \in [Gens -> Nat]
  BY <1>1, AddedLeases, SMTT(30) DEF UsersSound
<1>3. TypeOK'
  <2>1. lease'[r] \in SUBSET Gens /\ lease' = [lease EXCEPT ![r] = lease'[r]]
    BY <1>a DEF TypeOK
  <2>2. lease' \in [Requests -> SUBSET Gens]
    BY <2>1 DEF TypeOK
  <2> QED  BY <1>2, <2>2 DEF TypeOK
<1>4. Bystander
  <2> HIDE DEF Lease
  <2> QED  BY <1>0, <1>a DEF GenerationsSound, Bystander
<1> QED  BY <1>1, <1>2, <1>3, <1>4, BystanderMutations, BystanderGenerations

(* A task is accepted and pins its generation.                             *)
LEMMA AcceptStep ==
    ASSUME PluginInv, NEW r \in Requests, Accept(r)
    PROVE  PluginInv'
<1> USE PluginAssumption DEF PluginInv, Accept,
       generationVars, requestVars, taskVars, mutationVars, shutdownVars
<1>0. \A g \in Gens :
         /\ users[g] \in Nat
         /\ \A s \in Requests : g \in lease[s] => users[g] > 0
         /\ \A s \in Requests : s \in Pinners(g) => users[g] > 0
  BY UsedCounts
<1>a. PICK g \in lease[r] : pin' = [pin EXCEPT ![r] = g] /\ users' = [users EXCEPT ![g] = @ + 1]
  OBVIOUS
<1>b. /\ g \in Gens /\ pin'[r] = g /\ pstage'[r] \in {"running", "cut", "stranded"}
      /\ \A s \in Requests \ {r} : pin'[s] = pin[s] /\ pstage'[s] = pstage[s]
      /\ pin' \in [Requests -> Gens \cup {NoGen}]
      /\ pstage' = [pstage EXCEPT ![r] = pstage'[r]]
      /\ pstage[r] = "none"
      /\ users[g] > 0 /\ users'[g] = users[g] + 1
      /\ \A h \in Gens \ {g} : users'[h] = users[h]
      /\ UNCHANGED <<active, waiting, retired, state, requestVars, mutationVars, shutdownVars>>
  BY <1>0, <1>a, ZenonT(40) DEF TypeOK, TaskStages
<1> HIDE DEF Accept
<1>1. UsersSound'
  BY <1>b DEF UsersSound
<1>2. UsersExact' /\ users' \in [Gens -> Nat]
  <2>1. /\ \A h \in Gens : r \notin Pinners(h)
        /\ Pinners(g)' = Pinners(g) \cup {r}
        /\ \A h \in Gens \ {g} : Pinners(h)' = Pinners(h)
    BY <1>b DEF Pinners
  <2> QED  BY <1>1, <1>a, <1>b, <2>1, AddedPin
<1>3. TypeOK'
  <2>1. pstage'[r] \in TaskStages
    BY <1>b DEF TaskStages
  <2>2. pstage' \in [Requests -> TaskStages]
    BY <1>b, <2>1, ZenonT(40) DEF TypeOK
  <2> QED  BY <1>2, <1>b, <2>2 DEF TypeOK
<1>4. Bystander
  BY <1>0, <1>b DEF GenerationsSound, Bystander
<1> QED  BY <1>1, <1>2, <1>3, <1>4, BystanderMutations, BystanderGenerations

(* A request stops using its generations.                                  *)
LEMMA EndUseStep ==
    ASSUME PluginInv, NEW r \in Requests, EndUse(r)
    PROVE  PluginInv'
<1> USE PluginAssumption DEF PluginInv, EndUse,
       generationVars, requestVars, taskVars, mutationVars, shutdownVars
<1>0. \A g \in Gens :
         /\ users[g] \in Nat
         /\ \A s \in Requests : g \in lease[s] => users[g] > 0
         /\ \A s \in Requests : s \in Pinners(g) => users[g] > 0
  BY UsedCounts
<1>1. UsersSound'
  BY DEF TypeOK, UsersSound
<1>2. UsersExact' /\ users' \in [Gens -> Nat]
  <2>1. \A g \in Gens : Pinners(g)' = Pinners(g)
    BY DEF Pinners, TypeOK
  <2> QED  BY <1>1, <2>1, StillExact DEF TypeOK
<1>3. TypeOK'
  BY <1>2 DEF TypeOK, UsersSound, MutationsSound, GenStates, TaskStages
<1>4. Bystander
  BY <1>0, <1>2 DEF TypeOK, UsersSound, MutationsSound, GenerationsSound, ActiveUsable, Bystander
<1> QED  BY <1>1, <1>2, <1>3, <1>4, BystanderMutations, BystanderGenerations

(* A request leaves generations, and may have to close one.                *)
LEMMA LeaveStep ==
    ASSUME PluginInv, NEW r \in Requests, Leave(r)
    PROVE  PluginInv'
<1> USE PluginAssumption DEF PluginInv, Leave, Closes,
       generationVars, requestVars, taskVars, mutationVars, shutdownVars
<1>0. \A g \in Gens :
         /\ users[g] \in Nat
         /\ \A s \in Requests : g \in lease[s] => users[g] > 0
         /\ \A s \in Requests : s \in Pinners(g) => users[g] > 0
  BY UsedCounts
<1>a. PICK Y \in SUBSET lease[r] :
         /\ users' = Dropped(Y) /\ lease' = [lease EXCEPT ![r] = lease[r] \ Y]
         /\ \/ /\ \A g \in Y : ~Closes(g)
               /\ rstage' = [rstage EXCEPT ![r] = "done"] /\ Y = lease[r]
               /\ UNCHANGED <<state, leaving>>
            \/ \E g \in Y :
                  /\ Closes(g) /\ \A h \in Y \ {g} : ~Closes(h)
                  /\ leaving' = [leaving EXCEPT ![r] = g]
                  /\ state' = [state EXCEPT ![g] = "closing"]
                  /\ rstage' = [rstage EXCEPT ![r] = "closing"]
  <2>1. CASE /\ {g \in lease[r] : Closes(g)} = {}
             /\ users' = Dropped(lease[r]) /\ lease' = [lease EXCEPT ![r] = {}]
             /\ rstage' = [rstage EXCEPT ![r] = "done"] /\ UNCHANGED <<state, leaving>>
    <3>1. lease[r] \ lease[r] = {}
      OBVIOUS
    <3> QED  BY <2>1, <3>1
  <2>2. CASE \E g \in {h \in lease[r] : Closes(h)},
                X \in SUBSET (lease[r] \ {h \in lease[r] : Closes(h)}) :
               /\ users' = Dropped(X \cup {g})
               /\ lease' = [lease EXCEPT ![r] = @ \ (X \cup {g})]
               /\ leaving' = [leaving EXCEPT ![r] = g]
               /\ state' = [state EXCEPT ![g] = "closing"]
               /\ rstage' = [rstage EXCEPT ![r] = "closing"]
    <3>1. PICK g \in {h \in lease[r] : Closes(h)},
               X \in SUBSET (lease[r] \ {h \in lease[r] : Closes(h)}) :
               /\ users' = Dropped(X \cup {g})
               /\ lease' = [lease EXCEPT ![r] = @ \ (X \cup {g})]
               /\ leaving' = [leaving EXCEPT ![r] = g]
               /\ state' = [state EXCEPT ![g] = "closing"]
               /\ rstage' = [rstage EXCEPT ![r] = "closing"]
      BY <2>2
    <3>2. X \cup {g} \in SUBSET lease[r] /\ Closes(g) /\ \A h \in (X \cup {g}) \ {g} : ~Closes(h)
      OBVIOUS
    <3> HIDE DEF Closes
    <3> QED  BY <3>1, <3>2
  <2> QED  BY <2>1, <2>2
<1>b. /\ rstage[r] = "releasing"
      /\ UNCHANGED <<active, waiting, retired, taskVars, mutationVars, shutdownVars>>
  OBVIOUS
<1> HIDE DEF Leave
<1>c. /\ Y \subseteq Gens
      /\ \A g \in Gens : users'[g] = IF g \in Y THEN users[g] - 1 ELSE users[g]
      /\ lease' \in [Requests -> SUBSET Gens]
      /\ \A s \in Requests \ {r} : lease'[s] = lease[s]
      /\ lease'[r] = lease[r] \ Y
  BY <1>a, ZenonT(40) DEF TypeOK, Dropped
<1>d. CASE /\ \A g \in Y : ~Closes(g)
           /\ rstage' = [rstage EXCEPT ![r] = "done"] /\ Y = lease[r]
           /\ UNCHANGED <<state, leaving>>
  <2>1. UsersSound'
    <3>1. lease'[r] = {} /\ rstage'[r] = "done"
          /\ \A s \in Requests \ {r} : rstage'[s] = rstage[s]
      BY <1>c, <1>d DEF TypeOK
    <3> QED  BY <1>b, <1>c, <1>d, <3>1 DEF UsersSound
  <2>2. UsersExact' /\ users' \in [Gens -> Nat]
    BY <1>a, <1>b, <2>1, DroppedLeases
  <2>3. TypeOK'
    BY <1>b, <1>c, <1>d, <2>2 DEF TypeOK
  <2>4. Bystander
    <3>1. ASSUME NEW g \in Gens, g \in Y, g \in retired, state[g] = "loaded"
          PROVE  users'[g] > 0
      BY <3>1, <1>0, <1>c, <1>d DEF Closes
    <3>2. ASSUME NEW g \in Gens, g \notin Y PROVE users'[g] = users[g]
      BY <3>2, <1>c
    <3>3. ASSUME NEW g \in Gens, g \in Y PROVE users[g] > 0
      BY <3>3, <1>0, <1>a
    <3> QED  BY <1>b, <1>d, <2>2, <3>1, <3>2, <3>3 DEF Bystander, GenerationsSound
  <2> QED  BY <2>1, <2>2, <2>3, <2>4, BystanderMutations, BystanderGenerations
<1>e. CASE \E g \in Y :
              /\ Closes(g) /\ \A h \in Y \ {g} : ~Closes(h)
              /\ leaving' = [leaving EXCEPT ![r] = g]
              /\ state' = [state EXCEPT ![g] = "closing"]
              /\ rstage' = [rstage EXCEPT ![r] = "closing"]
  <2>0. PICK g \in Y :
              /\ Closes(g) /\ \A h \in Y \ {g} : ~Closes(h)
              /\ leaving' = [leaving EXCEPT ![r] = g]
              /\ state' = [state EXCEPT ![g] = "closing"]
              /\ rstage' = [rstage EXCEPT ![r] = "closing"]
    BY <1>e
  <2>a. /\ g \in Gens /\ g \in retired /\ users[g] = 1 /\ state[g] = "loaded"
        /\ state'[g] = "closing" /\ \A h \in Gens \ {g} : state'[h] = state[h]
        /\ state' \in [Gens -> GenStates]
        /\ leaving'[r] = g /\ \A s \in Requests \ {r} : leaving'[s] = leaving[s]
        /\ rstage'[r] = "closing" /\ \A s \in Requests \ {r} : rstage'[s] = rstage[s]
    BY <1>c, <2>0 DEF Closes, TypeOK, GenStates
  <2>1. UsersSound'
    <3>1. \A h \in Gens : state[h] \in {"closing", "closed"} => state'[h] \in {"closing", "closed"}
      BY <2>a
    <3> QED  BY <1>b, <1>c, <2>a, <3>1 DEF UsersSound
  <2>2. UsersExact' /\ users' \in [Gens -> Nat]
    BY <1>a, <1>b, <2>1, DroppedLeases
  <2>3. TypeOK'
    BY <1>b, <1>c, <2>0, <2>a, <2>2 DEF TypeOK
  <2>4. Bystander
    <3>1. ASSUME NEW h \in Gens, h \in Y \ {g}, h \in retired, state[h] = "loaded"
          PROVE  users'[h] > 0
      BY <3>1, <1>0, <1>c, <2>0 DEF Closes
    <3>2. ASSUME NEW h \in Gens, h \notin Y PROVE users'[h] = users[h]
      BY <3>2, <1>c
    <3>3. ASSUME NEW h \in Gens, h \in Y PROVE users[h] > 0
      BY <3>3, <1>0, <1>a
    <3>4. users'[g] = 0
      BY <2>a, <1>c
    <3> QED  BY <1>b, <2>2, <2>a, <3>1, <3>2, <3>3, <3>4 DEF Bystander, GenerationsSound
  <2> QED  BY <2>1, <2>2, <2>3, <2>4, BystanderMutations, BystanderGenerations
<1> QED  BY <1>a, <1>d, <1>e

(* The generation a request was closing is closed.                         *)
LEMMA LeftStep ==
    ASSUME PluginInv, NEW r \in Requests, Left(r)
    PROVE  PluginInv'
<1> USE PluginAssumption DEF PluginInv, Left,
       generationVars, requestVars, taskVars, mutationVars, shutdownVars
<1>0. \A g \in Gens :
         /\ users[g] \in Nat
         /\ \A s \in Requests : g \in lease[s] => users[g] > 0
         /\ \A s \in Requests : s \in Pinners(g) => users[g] > 0
  BY UsedCounts
<1>1. UsersSound'
  BY DEF TypeOK, UsersSound
<1>2. UsersExact' /\ users' \in [Gens -> Nat]
  <2>1. \A g \in Gens : Pinners(g)' = Pinners(g)
    BY DEF Pinners, TypeOK
  <2> QED  BY <1>1, <2>1, StillExact DEF TypeOK
<1>3. TypeOK'
  BY <1>2 DEF TypeOK, UsersSound, MutationsSound, GenStates, TaskStages
<1>4. Bystander
  <2>1. leaving[r] \in Gens /\ state[leaving[r]] \in {"closing", "closed"}
    BY DEF UsersSound
  <2>2. /\ state'[leaving[r]] = "closed"
        /\ \A g \in Gens \ {leaving[r]} : state'[g] = state[g]
    BY <2>1 DEF TypeOK
  <2>3. waiting' \subseteq waiting /\ \A g \in waiting \ waiting' : g = leaving[r]
    OBVIOUS
  <2>4. UNCHANGED <<active, retired, users, mutationVars, shutdownVars>>
    OBVIOUS
  <2> HIDE DEF Left
  <2> QED  BY <1>0, <2>1, <2>2, <2>3, <2>4 DEF Bystander, GenerationsSound
<1> QED  BY <1>1, <1>2, <1>3, <1>4, BystanderMutations, BystanderGenerations

(* A request is cancelled while it closes a generation.                    *)
LEMMA CancelReleaseStep ==
    ASSUME PluginInv, NEW r \in Requests, CancelRelease(r)
    PROVE  PluginInv'
<1> USE PluginAssumption DEF PluginInv, CancelRelease,
       generationVars, requestVars, taskVars, mutationVars, shutdownVars
<1>0. \A g \in Gens :
         /\ users[g] \in Nat
         /\ \A s \in Requests : g \in lease[s] => users[g] > 0
         /\ \A s \in Requests : s \in Pinners(g) => users[g] > 0
  BY UsedCounts
<1>1. UsersSound'
  BY DEF TypeOK, UsersSound
<1>2. UsersExact' /\ users' \in [Gens -> Nat]
  <2>1. \A g \in Gens : Pinners(g)' = Pinners(g)
    BY DEF Pinners, TypeOK
  <2> QED  BY <1>1, <2>1, StillExact DEF TypeOK
<1>3. TypeOK'
  BY <1>2 DEF TypeOK, UsersSound, MutationsSound, GenStates, TaskStages
<1>4. Bystander
  <2>1. leaving[r] \in Gens /\ state[leaving[r]] \in {"closing", "closed"}
    BY DEF UsersSound
  <2>2. /\ state'[leaving[r]] = "closed"
        /\ \A g \in Gens \ {leaving[r]} : state'[g] = state[g]
    BY <2>1 DEF TypeOK
  <2>3. waiting' \subseteq waiting /\ \A g \in waiting \ waiting' : g = leaving[r]
    OBVIOUS
  <2>4. UNCHANGED <<active, retired, users, mutationVars, shutdownVars>>
    OBVIOUS
  <2> HIDE DEF CancelRelease
  <2> QED  BY <1>0, <2>1, <2>2, <2>3, <2>4 DEF Bystander, GenerationsSound
<1> QED  BY <1>1, <1>2, <1>3, <1>4, BystanderMutations, BystanderGenerations

(* A task ends.                                                            *)
LEMMA TerminalStep ==
    ASSUME PluginInv, NEW r \in Requests, Terminal(r)
    PROVE  PluginInv'
<1> USE PluginAssumption DEF PluginInv, Terminal,
       generationVars, requestVars, taskVars, mutationVars, shutdownVars
<1>0. \A g \in Gens :
         /\ users[g] \in Nat
         /\ \A s \in Requests : g \in lease[s] => users[g] > 0
         /\ \A s \in Requests : s \in Pinners(g) => users[g] > 0
  BY UsedCounts
<1>1. UsersSound'
  BY DEF TypeOK, UsersSound
<1>2. UsersExact' /\ users' \in [Gens -> Nat]
  <2>1. \A g \in Gens : Pinners(g)' = Pinners(g)
    BY DEF Pinners, TypeOK
  <2> QED  BY <1>1, <2>1, StillExact DEF TypeOK
<1>3. TypeOK'
  BY <1>2 DEF TypeOK, UsersSound, MutationsSound, GenStates, TaskStages
<1>4. Bystander
  BY <1>0, <1>2 DEF TypeOK, UsersSound, MutationsSound, GenerationsSound, ActiveUsable, Bystander
<1> QED  BY <1>1, <1>2, <1>3, <1>4, BystanderMutations, BystanderGenerations

(* A finished task leaves its generation, and may have to close it.        *)
LEMMA UnpinStep ==
    ASSUME PluginInv, NEW r \in Requests, Unpin(r)
    PROVE  PluginInv'
<1> USE PluginAssumption DEF PluginInv, Unpin, Closes,
       generationVars, requestVars, taskVars, mutationVars, shutdownVars
<1>0. \A g \in Gens :
         /\ users[g] \in Nat
         /\ \A s \in Requests : g \in lease[s] => users[g] > 0
         /\ \A s \in Requests : s \in Pinners(g) => users[g] > 0
  BY UsedCounts
<1>a. /\ pin[r] \in Gens /\ r \in Pinners(pin[r])
      /\ \A g \in Gens : users'[g] = IF g = pin[r] THEN users[g] - 1 ELSE users[g]
      /\ pstage[r] = "released"
      /\ UNCHANGED <<active, waiting, retired, pin, requestVars, mutationVars, shutdownVars>>
  BY DEF UsersSound, Pinners, Dropped
<1>b. \/ /\ Closes(pin[r]) /\ pstage' = [pstage EXCEPT ![r] = "closing"]
         /\ state' = [state EXCEPT ![pin[r]] = "closing"]
      \/ /\ ~Closes(pin[r]) /\ pstage' = [pstage EXCEPT ![r] = "done"]
         /\ UNCHANGED state
  OBVIOUS
<1>c. /\ \A s \in Requests \ {r} : pstage'[s] = pstage[s]
      /\ pstage'[r] \in {"closing", "done"}
      /\ pstage' \in [Requests -> TaskStages]
      /\ state' \in [Gens -> GenStates]
      /\ \A g \in Gens \ {pin[r]} : state'[g] = state[g]
      /\ \/ /\ Closes(pin[r]) /\ pstage'[r] = "closing" /\ state'[pin[r]] = "closing"
         \/ /\ ~Closes(pin[r]) /\ pstage'[r] = "done" /\ state'[pin[r]] = state[pin[r]]
  <2> HIDE DEF Closes
  <2>1. {"closing", "done"} \subseteq TaskStages /\ "closing" \in GenStates
    BY DEF TaskStages, GenStates
  <2>2. pstage \in [Requests -> TaskStages] /\ state \in [Gens -> GenStates]
    BY DEF TypeOK
  <2>3. CASE /\ Closes(pin[r]) /\ pstage' = [pstage EXCEPT ![r] = "closing"]
             /\ state' = [state EXCEPT ![pin[r]] = "closing"]
    BY <1>a, <2>1, <2>2, <2>3
  <2>4. CASE /\ ~Closes(pin[r]) /\ pstage' = [pstage EXCEPT ![r] = "done"]
             /\ UNCHANGED state
    BY <1>a, <2>1, <2>2, <2>4
  <2> QED  BY <1>b, <2>3, <2>4
<1>d. users' = Dropped({pin[r]})
  OBVIOUS
<1> HIDE DEF Unpin, Closes
<1>1. UsersSound'
  <2>1. \A g \in Gens : state[g] \in {"closing", "closed"} => state'[g] \in {"closing", "closed"}
    BY <1>a, <1>c
  <2> QED  BY <1>a, <1>c, <2>1 DEF UsersSound
<1>2. UsersExact' /\ users' \in [Gens -> Nat]
  <2>1. ASSUME NEW g \in Gens
        PROVE  users'[g] = users[g] - Pinned({r}, g)
    <3>1. CASE g = pin[r]
      <4>1. {s \in {r} : pin[s] = g} = {r}
        BY <3>1
      <4> QED  BY <3>1, <4>1, <1>a, FS_Singleton DEF Pinned
    <3>2. CASE g # pin[r]
      <4>1. {s \in {r} : pin[s] = g} = {}
        BY <3>2
      <4>2. Pinned({r}, g) = 0
        BY <4>1, FS_EmptySet DEF Pinned
      <4> QED  BY <3>2, <4>2, <1>0, <1>a
    <3> QED  BY <3>1, <3>2
  <2>2. users' = [g \in Gens |-> users[g] - Pinned({r}, g)]
    BY <2>1, <1>d DEF Dropped
  <2>3. \A g \in Gens : Pinners(g)' = Pinners(g) \ {r}
    BY <1>a, <1>c DEF Pinners
  <2> QED  BY <1>1, <1>a, <2>2, <2>3, DroppedPins
<1>3. TypeOK'
  BY <1>2, <1>a, <1>c DEF TypeOK
<1>4. Bystander
  <2>1. /\ users[pin[r]] > 0 /\ users'[pin[r]] = users[pin[r]] - 1
        /\ \A g \in Gens \ {pin[r]} : users'[g] = users[g]
    BY <1>0, <1>a
  <2>2. Closes(pin[r]) <=>
           pin[r] \in retired /\ users[pin[r]] = 1 /\ state[pin[r]] = "loaded"
    BY DEF Closes
  <2>3. \A g \in Gens : users'[g] \in Nat
    BY <1>2
  <2> QED  BY <1>0, <1>a, <1>c, <2>1, <2>2, <2>3 DEF Bystander, GenerationsSound
<1> QED  BY <1>1, <1>2, <1>3, <1>4, BystanderMutations, BystanderGenerations

(* The generation a task was closing is closed.                            *)
LEMMA UnpinnedStep ==
    ASSUME PluginInv, NEW r \in Requests, Unpinned(r)
    PROVE  PluginInv'
<1> USE PluginAssumption DEF PluginInv, Unpinned,
       generationVars, requestVars, taskVars, mutationVars, shutdownVars
<1>0. \A g \in Gens :
         /\ users[g] \in Nat
         /\ \A s \in Requests : g \in lease[s] => users[g] > 0
         /\ \A s \in Requests : s \in Pinners(g) => users[g] > 0
  BY UsedCounts
<1>1. UsersSound'
  BY DEF TypeOK, UsersSound
<1>2. UsersExact' /\ users' \in [Gens -> Nat]
  <2>1. \A g \in Gens : Pinners(g)' = Pinners(g)
    BY DEF Pinners, TypeOK
  <2> QED  BY <1>1, <2>1, StillExact DEF TypeOK
<1>3. TypeOK'
  BY <1>2 DEF TypeOK, UsersSound, MutationsSound, GenStates, TaskStages
<1>4. Bystander
  <2>1. pin[r] \in Gens /\ state[pin[r]] \in {"closing", "closed"}
    BY DEF UsersSound
  <2>2. /\ state'[pin[r]] = "closed"
        /\ \A g \in Gens \ {pin[r]} : state'[g] = state[g]
    BY <2>1 DEF TypeOK
  <2>3. waiting' \subseteq waiting /\ \A g \in waiting \ waiting' : g = pin[r]
    OBVIOUS
  <2>4. UNCHANGED <<active, retired, users, mutationVars, shutdownVars>>
    OBVIOUS
  <2> HIDE DEF Unpinned
  <2> QED  BY <1>0, <2>1, <2>2, <2>3, <2>4 DEF Bystander, GenerationsSound
<1> QED  BY <1>1, <1>2, <1>3, <1>4, BystanderMutations, BystanderGenerations

(* A mutation takes the lock.                                              *)
LEMMA BeginStep ==
    ASSUME PluginInv, NEW m \in Mutations, Begin(m)
    PROVE  PluginInv'
<1> USE PluginAssumption DEF PluginInv, Begin,
       generationVars, requestVars, taskVars, mutationVars, shutdownVars
<1>0. \A g \in Gens :
         /\ users[g] \in Nat
         /\ \A s \in Requests : g \in lease[s] => users[g] > 0
         /\ \A s \in Requests : s \in Pinners(g) => users[g] > 0
  BY UsedCounts
<1>a. /\ UNCHANGED <<generationVars, requestVars, taskVars, old, shutdownVars>>
      /\ mstage[m] = "idle" /\ lock = NoMutation /\ lock' = m /\ shutdown = "up"
      /\ \A k \in Mutations \ {m} : mstage'[k] = mstage[k] /\ new'[k] = new[k]
      /\ mstage' = [mstage EXCEPT ![m] = mstage'[m]]
      /\ \/ /\ new'[m] \in Gens /\ state[new'[m]] = "unused"
            /\ PluginOf[new'[m]] = Target[m]
            /\ mstage'[m] = "loading"
            /\ new' = [new EXCEPT ![m] = new'[m]]
         \/ /\ active[Target[m]] # NoGen
            /\ mstage'[m] = "preparing"
            /\ UNCHANGED new
  BY DEF TypeOK
<1> HIDE DEF Begin
<1>1. UsersSound'
  BY <1>a DEF UsersSound
<1>2. UsersExact'
  <2>1. \A g \in Gens : Pinners(g)' = Pinners(g)
    BY <1>a DEF Pinners
  <2> QED  BY <1>1, <1>a, <2>1, StillExact
<1>3. TypeOK'
  BY <1>a DEF TypeOK
<1>4. MutationsSound'
  <2>1. \A k \in Mutations : mstage[k] \notin {"loading", "preparing", "closing"} /\ k # NoMutation
    BY <1>a DEF MutationsSound
  <2>2. \A g \in Gens : state[g] = "unused" =>
           users[g] = 0 /\ g \notin retired /\ \A p \in Plugins : active[p] # g
    BY <1>a DEF GenerationsSound, ActiveUsable
  <2>3. mstage'[m] = "preparing" => new'[m] = NoGen
    BY <1>a DEF MutationsSound
  <2>4. mstage'[m] \in {"loading", "preparing"}
    BY <1>a
  <2>5. NoGen \notin Gens
    BY PluginAssumption
  <2>6. ASSUME NEW k \in Mutations \ {m}
        PROVE  mstage'[k] = mstage[k] /\ new'[k] = new[k] /\ lock' # k
    BY <1>a
  <2>7. /\ dying # NoGen => state[dying] \in {"closing", "closed"}
        /\ shutdown = "closing pin" => dying # NoGen
        /\ \A k \in Mutations : mstage[k] = "idle" => new[k] = NoGen
    BY DEF MutationsSound
  <2>8. UNCHANGED <<active, waiting, retired, state, users, old, shutdown, dying>> /\ lock' = m /\ shutdown = "up"
    BY <1>a
  <2>9. mstage'[m] = "loading" => /\ new'[m] \in Gens /\ state[new'[m]] = "unused" /\ PluginOf[new'[m]] = Target[m]
    BY <1>a
  <2> QED  BY <2>1, <2>2, <2>3, <2>4, <2>5, <2>6, <2>7, <2>8, <2>9 DEF MutationsSound
<1>5. GenerationsSound'
  <2>1. ASSUME NEW g \in Gens, Abandoned(g) PROVE Abandoned(g)'
    BY <2>1, <1>a DEF Abandoned
  <2> QED  BY <1>a, <2>1 DEF GenerationsSound
<1>6. ActiveUsable'
  BY <1>a DEF ActiveUsable
<1> QED  BY <1>1, <1>2, <1>3, <1>4, <1>5, <1>6

-----------------------------------------------------------------------------
(* A step of the mutation that has the lock.                               *)
Holder(m) ==
    /\ lock = m
    /\ mstage'[m] \in {"preparing", "closing", "done"}
    /\ lock' = IF mstage'[m] = "done" THEN NoMutation ELSE m
    /\ mstage' = [mstage EXCEPT ![m] = mstage'[m]]
    /\ UNCHANGED <<users, requestVars, taskVars, new, shutdownVars>>
    /\ \A g \in Gens : state[g] \in {"closing", "closed"} => state'[g] \in {"closing", "closed"}
    /\ mstage'[m] = "preparing" =>
          /\ mstage[m] = "loading" /\ UNCHANGED <<active, retired>>
          /\ state' = [state EXCEPT ![new[m]] = "loaded"]
    /\ mstage'[m] = "closing" => old'[m] \in Gens /\ state'[old'[m]] \in {"closing", "closed"}

(* A mutation changes no lease, pin or counter.                            *)
LEMMA HolderUsers ==
    ASSUME PluginInv, NEW m \in Mutations, Holder(m)
    PROVE  UsersSound' /\ UsersExact'
<1> USE DEF PluginInv, Holder, requestVars, taskVars
<1>1. UsersSound'
  BY DEF UsersSound
<1>2. \A g \in Gens : Pinners(g)' = Pinners(g)
  BY DEF Pinners
<1> QED  BY <1>1, <1>2, StillExact

(* The other mutations wait for the lock while this one goes on.           *)
LEMMA HolderMutations ==
    ASSUME PluginInv, NEW m \in Mutations, Holder(m)
    PROVE  MutationsSound'
<1> USE DEF PluginInv
<1>1. /\ lock = m /\ m # NoMutation /\ mstage[m] \in {"loading", "preparing", "closing"}
      /\ \A k \in Mutations \ {m} : mstage[k] \notin {"loading", "preparing", "closing"}
  BY PluginAssumption DEF MutationsSound, Holder
<1>2. /\ \A k \in Mutations \ {m} : mstage'[k] = mstage[k] /\ lock' # k
      /\ mstage'[m] \in {"preparing", "closing", "done"}
      /\ mstage'[m] \in {"preparing", "closing"} <=> lock' = m
      /\ UNCHANGED <<users, new, shutdown, dying>>
  BY <1>1, PluginAssumption DEF Holder, TypeOK, shutdownVars
<1>3. ASSUME mstage'[m] = "preparing", new[m] # NoGen
      PROVE  /\ state'[new[m]] = "loaded" /\ PluginOf[new[m]] = Target[m]
             /\ users[new[m]] = 0 /\ new[m] \notin retired'
             /\ \A p \in Plugins : active'[p] # new[m]
  <2>1. mstage[m] = "loading" /\ active' = active /\ retired' = retired
        /\ state' = [state EXCEPT ![new[m]] = "loaded"]
    BY <1>3 DEF Holder
  <2>2. /\ new[m] \in Gens /\ PluginOf[new[m]] = Target[m]
        /\ users[new[m]] = 0 /\ new[m] \notin retired
        /\ \A p \in Plugins : active[p] # new[m]
    BY <2>1, <1>3 DEF MutationsSound
  <2>3. state'[new[m]] = "loaded"
    BY <2>1, <2>2 DEF TypeOK
  <2> QED  BY <2>1, <2>2, <2>3
<1>4. mstage'[m] = "closing" => old'[m] \in Gens /\ state'[old'[m]] \in {"closing", "closed"}
  BY DEF Holder
<1>5. ASSUME NEW k \in Mutations
      PROVE  (/\ mstage[k] \in {"loading", "preparing", "closing"} <=> lock = k
              /\ mstage[k] = "idle" => new[k] = NoGen
              /\ mstage[k] = "loading" => new[k] \in Gens /\ state[new[k]] = "unused"
              /\ mstage[k] = "preparing" /\ new[k] # NoGen => state[new[k]] = "loaded"
              /\ mstage[k] \in {"loading", "preparing"} /\ new[k] # NoGen =>
                    /\ PluginOf[new[k]] = Target[k]
                    /\ users[new[k]] = 0 /\ new[k] \notin retired
                    /\ \A p \in Plugins : active[p] # new[k]
              /\ mstage[k] = "closing" =>
                    old[k] \in Gens /\ state[old[k]] \in {"closing", "closed"})'
  <2>1. CASE k = m
    BY <2>1, <1>2, <1>3, <1>4
  <2>2. CASE k # m
    BY <2>2, <1>1, <1>2 DEF MutationsSound
  <2> QED  BY <2>1, <2>2
<1>6. (/\ dying # NoGen => state[dying] \in {"closing", "closed"}
       /\ shutdown = "closing pin" => dying # NoGen
       /\ shutdown = "down" => lock = NoMutation /\ waiting = {})'
  <2>1. shutdown # "down"
    BY <1>1 DEF MutationsSound
  <2>2. dying # NoGen => dying \in Gens
    BY DEF TypeOK
  <2>3. dying # NoGen => state'[dying] \in {"closing", "closed"}
    BY <2>2 DEF MutationsSound, Holder
  <2> QED  BY <1>2, <2>1, <2>3 DEF MutationsSound
<1> QED  BY <1>5, <1>6 DEF MutationsSound

(* The types of what a mutation leaves alone.                              *)
LEMMA HolderTypes ==
    ASSUME PluginInv, NEW m \in Mutations, Holder(m),
           active' \in [Plugins -> Gens \cup {NoGen}], waiting' \subseteq Gens,
           retired' \subseteq Gens, state' \in [Gens -> GenStates],
           old' \in [Mutations -> Gens \cup {NoGen}]
    PROVE  TypeOK'
<1>1. TypeOK
  BY DEF PluginInv
<1>2. mstage' \in [Mutations -> {"idle", "loading", "preparing", "closing", "done"}]
  BY <1>1 DEF TypeOK, Holder
<1>3. lock' \in Mutations \cup {NoMutation}
  BY DEF Holder
<1>4. UNCHANGED <<users, rstage, lease, leaving, pin, pstage, new, shutdown, dying>>
  BY DEF Holder, requestVars, taskVars, shutdownVars
<1> QED  BY <1>1, <1>2, <1>3, <1>4 DEF TypeOK

(* A generation is loaded, or fails to be.                                 *)
LEMMA LoadStep ==
    ASSUME PluginInv, NEW m \in Mutations, Load(m)
    PROVE  PluginInv'
<1> USE PluginAssumption DEF PluginInv, Load, Unlock,
       generationVars, requestVars, taskVars, mutationVars, shutdownVars
<1>0. /\ new[m] \in Gens /\ state[new[m]] = "unused" /\ users[new[m]] = 0
      /\ new[m] \notin retired /\ \A p \in Plugins : active[p] # new[m]
      /\ lock = m /\ mstage[m] = "loading"
  BY ZenonT(40) DEF MutationsSound
<1>a. /\ UNCHANGED <<active, waiting, retired, users, requestVars, taskVars, new, old, shutdownVars>>
      /\ \A g \in Gens \ {new[m]} : state'[g] = state[g]
      /\ mstage' = [mstage EXCEPT ![m] = mstage'[m]]
      /\ state' = [state EXCEPT ![new[m]] = state'[new[m]]]
      /\ state' \in [Gens -> GenStates]
      /\ \/ /\ state'[new[m]] = "loaded" /\ mstage'[m] = "preparing" /\ lock' = lock
         \/ /\ state'[new[m]] = "closed" /\ mstage'[m] = "done" /\ lock' = NoMutation
  <2>1. /\ state \in [Gens -> GenStates] /\ {"loaded", "closed"} \subseteq GenStates
        /\ mstage \in [Mutations -> {"idle", "loading", "preparing", "closing", "done"}]
    BY DEF TypeOK, GenStates
  <2>2. CASE /\ state' = [state EXCEPT ![new[m]] = "loaded"]
             /\ mstage' = [mstage EXCEPT ![m] = "preparing"] /\ lock' = lock
    BY <2>1, <2>2, <1>0
  <2>3. CASE /\ state' = [state EXCEPT ![new[m]] = "closed"]
             /\ mstage' = [mstage EXCEPT ![m] = "done"] /\ lock' = NoMutation
    BY <2>1, <2>3, <1>0
  <2> QED  BY <2>2, <2>3
<1>1. Holder(m)
  <2>1. \A g \in Gens : state[g] \in {"closing", "closed"} => state'[g] \in {"closing", "closed"}
    BY <1>0, <1>a
  <2> QED  BY <1>0, <1>a, <2>1 DEF Holder
<1> HIDE DEF Load
<1>2. UsersSound' /\ UsersExact' /\ MutationsSound'
  BY <1>1, HolderUsers, HolderMutations
<1>3. TypeOK'
  <2>1. /\ active \in [Plugins -> Gens \cup {NoGen}] /\ waiting \subseteq Gens
        /\ retired \subseteq Gens /\ old \in [Mutations -> Gens \cup {NoGen}]
    BY DEF TypeOK
  <2> QED  BY <1>1, <1>a, <2>1, HolderTypes
<1>4. GenerationsSound'
  <2>1. ASSUME NEW g \in Gens, Abandoned(g) PROVE Abandoned(g)'
    BY <2>1, <1>0, <1>a, ZenonT(40) DEF Abandoned, TypeOK
  <2>2. ASSUME NEW g \in Gens \ {new[m]}, state'[g] = "loaded"
        PROVE  (\/ \E p \in Plugins : active[p] = g
                \/ g \in waiting /\ g \in retired
                \/ Abandoned(g))'
    BY <2>1, <2>2, <1>0, <1>a DEF GenerationsSound
  <2>3. state'[new[m]] = "loaded" => lock' = m /\ mstage'[m] = "preparing" /\ m # NoMutation
    BY <1>0, <1>a
  <2> QED  BY <2>2, <2>3, <1>0, <1>a DEF GenerationsSound
<1>5. ActiveUsable'
  <2>1. \A p \in Plugins : active[p] \in Gens \cup {NoGen}
    BY DEF TypeOK
  <2>2. ASSUME NEW p \in Plugins, active[p] # NoGen
        PROVE  /\ active[p] \in Gens /\ PluginOf[active[p]] = p /\ active[p] \notin retired
               /\ state[active[p]] = "loaded" \/ shutdown = "manager"
    BY <2>1, <2>2 DEF ActiveUsable
  <2>3. \A p \in Plugins : active[p] # NoGen => state'[active[p]] = "loaded" \/ shutdown = "manager"
    BY <2>2, <1>0, <1>a
  <2>4. UNCHANGED <<active, retired, shutdown>>
    BY <1>a DEF shutdownVars
  <2> QED  BY <2>2, <2>3, <2>4 DEF ActiveUsable
<1> QED  BY <1>2, <1>3, <1>4, <1>5

(* A mutation replaces the active generation.                              *)
LEMMA PublishStep ==
    ASSUME PluginInv, NEW m \in Mutations, Publish(m)
    PROVE  PluginInv'
<1> USE PluginAssumption DEF PluginInv, Publish, Unlock,
       generationVars, requestVars, taskVars, mutationVars, shutdownVars
<1> DEFINE previous == active[Target[m]]
<1>0. /\ lock = m /\ mstage[m] = "preparing" /\ Target[m] \in Plugins
      /\ new[m] # NoGen =>
            /\ state[new[m]] = "loaded" /\ users[new[m]] = 0 /\ PluginOf[new[m]] = Target[m]
            /\ new[m] \notin retired /\ \A p \in Plugins : active[p] # new[m]
  BY DEF MutationsSound
<1>c. /\ new[m] \in Gens \cup {NoGen} /\ previous \in Gens \cup {NoGen}
      /\ previous # NoGen => \A p \in Plugins \ {Target[m]} : active[p] # previous
  <2>1. /\ new[m] \in Gens \cup {NoGen}
        /\ \A p \in Plugins : active[p] \in Gens \cup {NoGen}
    BY DEF TypeOK
  <2>2. \A p \in Plugins : active[p] # NoGen => PluginOf[active[p]] = p
    BY DEF ActiveUsable
  <2> QED  BY <1>0, <2>1, <2>2
<1>a. /\ UNCHANGED <<users, requestVars, taskVars, new, shutdownVars>>
      /\ active'[Target[m]] = new[m]
      /\ \A p \in Plugins \ {Target[m]} : active'[p] = active[p]
      /\ active' \in [Plugins -> Gens \cup {NoGen}]
      /\ mstage' = [mstage EXCEPT ![m] = mstage'[m]]
      /\ \A g \in Gens : g # previous => state'[g] = state[g]
      /\ state' \in [Gens -> GenStates] /\ old' \in [Mutations -> Gens \cup {NoGen}]
      /\ retired' = retired \cup ({previous} \ {NoGen})
      /\ waiting \subseteq waiting' /\ waiting' \subseteq waiting \cup ({previous} \ {NoGen})
      /\ \/ /\ previous = NoGen /\ mstage'[m] = "done" /\ lock' = NoMutation
         \/ /\ previous # NoGen /\ users[previous] > 0 /\ previous \in waiting'
            /\ mstage'[m] = "done" /\ lock' = NoMutation /\ state'[previous] = state[previous]
         \/ /\ previous # NoGen /\ ~(users[previous] > 0) /\ mstage'[m] = "closing" /\ lock' = m
            /\ state'[previous] = "closing" /\ old'[m] = previous
  <2>1. /\ state \in [Gens -> GenStates] /\ old \in [Mutations -> Gens \cup {NoGen}]
        /\ mstage \in [Mutations -> {"idle", "loading", "preparing", "closing", "done"}]
        /\ active \in [Plugins -> Gens \cup {NoGen}]
        /\ "closing" \in GenStates
    BY DEF TypeOK, GenStates
  <2>2. CASE previous = NoGen
    BY <2>1, <2>2, <1>0, <1>c
  <2>3. CASE previous # NoGen /\ users[previous] > 0
    BY <2>1, <2>3, <1>0, <1>c
  <2>4. CASE previous # NoGen /\ ~(users[previous] > 0)
    BY <2>1, <2>4, <1>0, <1>c
  <2> QED  BY <2>2, <2>3, <2>4
<1> HIDE DEF previous
<1>1. Holder(m)
  <2>1. \A g \in Gens : state[g] \in {"closing", "closed"} => state'[g] \in {"closing", "closed"}
    BY <1>0, <1>a, <1>c
  <2> QED  BY <1>0, <1>a, <1>c, <2>1 DEF Holder
<1> HIDE DEF Publish
<1>2. UsersSound' /\ UsersExact' /\ MutationsSound'
  BY <1>1, HolderUsers, HolderMutations
<1>3. TypeOK'
  <2>1. waiting' \subseteq Gens /\ retired' \subseteq Gens
    BY <1>a, <1>c DEF TypeOK
  <2> QED  BY <1>1, <1>a, <2>1, HolderTypes
<1>4. GenerationsSound'
  <2>0. \A g \in Gens : users[g] \in Nat
    BY DEF TypeOK
  <2>1. ASSUME NEW g \in Gens, g # previous, Abandoned(g) PROVE Abandoned(g)'
    BY <2>1, <1>0, <1>a, ZenonT(40) DEF Abandoned, TypeOK
  <2>2. ASSUME NEW g \in Gens, g # previous
        PROVE  /\ state'[g] = state[g] /\ (g \in retired' <=> g \in retired)
               /\ g \in waiting => g \in waiting'
               /\ \A p \in Plugins : active[p] = g => active'[p] = g
    BY <2>2, <1>0, <1>a, <1>c DEF previous
  <2>3. ASSUME NEW g \in Gens, g # previous, state'[g] = "loaded"
        PROVE  (\/ \E p \in Plugins : active[p] = g
                \/ g \in waiting /\ g \in retired
                \/ Abandoned(g))'
    BY <2>1, <2>2, <2>3, <1>0, <1>a DEF GenerationsSound
  <2>4. ASSUME previous \in Gens
        PROVE  /\ state'[previous] # "unused" /\ previous \in retired'
               /\ state'[previous] = "loaded" => users[previous] > 0 /\ previous \in waiting'
               /\ state'[previous] \in {"closing", "closed"} /\ shutdown \notin {"manager", "down"} =>
                     users[previous] = 0
    <3>1. previous # NoGen /\ (state[previous] = "loaded" \/ shutdown = "manager")
      BY <2>4, <1>0 DEF ActiveUsable, previous
    <3>2. users[previous] > 0 => state[previous] # "unused"
      BY <2>4, <2>0 DEF GenerationsSound
    <3> QED  BY <2>0, <2>4, <3>1, <3>2, <1>a DEF GenerationsSound
  <2>5. UNCHANGED <<users, shutdown>>
    BY <1>a
  <2> QED  BY <2>2, <2>3, <2>4, <2>5 DEF GenerationsSound
<1>5. ActiveUsable'
  <2>1. ASSUME NEW p \in Plugins, active'[p] # NoGen
        PROVE  /\ PluginOf[active'[p]] = p /\ active'[p] \notin retired'
               /\ state'[active'[p]] = "loaded" \/ shutdown = "manager"
    <3>1. CASE p = Target[m]
      <4>1. active'[p] = new[m] /\ new[m] \in Gens /\ new[m] # previous
        BY <3>1, <2>1, <1>0, <1>a, <1>c DEF previous
      <4> QED  BY <3>1, <4>1, <1>0, <1>a
    <3>2. CASE p # Target[m]
      <4>1. /\ active'[p] = active[p] /\ active[p] \in Gens /\ active[p] # previous
            /\ PluginOf[active[p]] = p /\ active[p] \notin retired
            /\ state[active[p]] = "loaded" \/ shutdown = "manager"
        <5>1. active'[p] = active[p]
          BY <3>2, <1>a
        <5>2. \A q \in Plugins : active[q] \in Gens \cup {NoGen}
          BY DEF TypeOK
        <5>3. active[p] \in Gens /\ active[p] # NoGen
          BY <2>1, <5>1, <5>2
        <5>4. active[p] # previous
          BY <3>2, <5>3, <1>c
        <5> QED  BY <5>1, <5>3, <5>4 DEF ActiveUsable
      <4> QED  BY <4>1, <1>a
    <3> QED  BY <3>1, <3>2
  <2> QED  BY <2>1, <1>a DEF ActiveUsable
<1> QED  BY <1>2, <1>3, <1>4, <1>5

(* A mutation gives up what it loaded.                                     *)
LEMMA PrepareFailsStep ==
    ASSUME PluginInv, NEW m \in Mutations, PrepareFails(m)
    PROVE  PluginInv'
<1> USE PluginAssumption DEF PluginInv, PrepareFails, Unlock,
       generationVars, requestVars, taskVars, mutationVars, shutdownVars
<1>0. /\ lock = m /\ mstage[m] = "preparing"
      /\ new[m] # NoGen =>
            /\ state[new[m]] = "loaded" /\ users[new[m]] = 0
            /\ new[m] \notin retired /\ \A p \in Plugins : active[p] # new[m]
  BY DEF MutationsSound
<1>b. new[m] # NoGen => new[m] \in Gens
  BY DEF TypeOK
<1>a. /\ UNCHANGED <<active, waiting, retired, users, requestVars, taskVars, new, shutdownVars>>
      /\ mstage' = [mstage EXCEPT ![m] = mstage'[m]]
      /\ \A g \in Gens : g # new[m] => state'[g] = state[g]
      /\ state' \in [Gens -> GenStates] /\ old' \in [Mutations -> Gens \cup {NoGen}]
      /\ \/ /\ new[m] = NoGen /\ mstage'[m] = "done" /\ lock' = NoMutation
         \/ /\ new[m] # NoGen /\ mstage'[m] = "closing" /\ lock' = lock
            /\ state'[new[m]] = "closing" /\ old'[m] = new[m]
  <2>1. /\ state \in [Gens -> GenStates] /\ old \in [Mutations -> Gens \cup {NoGen}]
        /\ mstage \in [Mutations -> {"idle", "loading", "preparing", "closing", "done"}]
        /\ "closing" \in GenStates
    BY DEF TypeOK, GenStates
  <2>2. CASE new[m] = NoGen
    BY <2>1, <2>2, <1>b
  <2>3. CASE new[m] # NoGen
    BY <2>1, <2>3, <1>b
  <2> QED  BY <2>2, <2>3
<1>1. Holder(m)
  <2>1. \A g \in Gens : state[g] \in {"closing", "closed"} => state'[g] \in {"closing", "closed"}
    BY <1>0, <1>a
  <2> QED  BY <1>0, <1>a, <1>b, <2>1 DEF Holder
<1> HIDE DEF PrepareFails
<1>2. UsersSound' /\ UsersExact' /\ MutationsSound'
  BY <1>1, HolderUsers, HolderMutations
<1>3. TypeOK'
  <2>1. /\ active \in [Plugins -> Gens \cup {NoGen}] /\ waiting \subseteq Gens
        /\ retired \subseteq Gens
    BY DEF TypeOK
  <2> QED  BY <1>1, <1>a, <2>1, HolderTypes
<1>4. GenerationsSound'
  <2>1. ASSUME NEW g \in Gens, Abandoned(g) PROVE Abandoned(g)'
    BY <2>1, <1>0, <1>a DEF Abandoned, TypeOK
  <2>2. ASSUME NEW g \in Gens, state'[g] = "loaded"
        PROVE  (\/ \E p \in Plugins : active[p] = g
                \/ g \in waiting /\ g \in retired
                \/ Abandoned(g))'
    <3>1. state[g] = "loaded" /\ g # new[m]
      BY <2>2, <1>a
    <3> QED  BY <3>1, <2>1, <1>0, <1>a DEF GenerationsSound
  <2> QED  BY <2>2, <1>0, <1>a, <1>b DEF GenerationsSound
<1>5. ActiveUsable'
  <2>1. \A p \in Plugins : active[p] \in Gens \cup {NoGen}
    BY DEF TypeOK
  <2>2. ASSUME NEW p \in Plugins, active[p] # NoGen
        PROVE  /\ active[p] \in Gens /\ PluginOf[active[p]] = p /\ active[p] \notin retired
               /\ state[active[p]] = "loaded" \/ shutdown = "manager"
    BY <2>1, <2>2 DEF ActiveUsable
  <2>3. \A p \in Plugins : active[p] # NoGen => state'[active[p]] = "loaded" \/ shutdown = "manager"
    BY <2>2, <1>0, <1>a
  <2>4. UNCHANGED <<active, retired, shutdown>>
    BY <1>a DEF shutdownVars
  <2> QED  BY <2>2, <2>3, <2>4 DEF ActiveUsable
<1> QED  BY <1>2, <1>3, <1>4, <1>5

(* What a mutation was closing is closed.                                  *)
LEMMA ClosedStep ==
    ASSUME PluginInv, NEW m \in Mutations, Closed(m)
    PROVE  PluginInv'
<1> USE PluginAssumption DEF PluginInv, Closed, Unlock,
       generationVars, requestVars, taskVars, mutationVars, shutdownVars
<1>0. /\ old[m] \in Gens /\ state[old[m]] \in {"closing", "closed"}
      /\ lock = m /\ mstage[m] = "closing"
  BY DEF MutationsSound
<1>a. /\ UNCHANGED <<active, waiting, retired, users, requestVars, taskVars, new, old, shutdownVars>>
      /\ \A g \in Gens \ {old[m]} : state'[g] = state[g]
      /\ mstage' = [mstage EXCEPT ![m] = mstage'[m]]
      /\ state' \in [Gens -> GenStates] /\ state'[old[m]] = "closed"
      /\ mstage'[m] = "done" /\ lock' = NoMutation
  <2>1. /\ state \in [Gens -> GenStates] /\ "closed" \in GenStates
        /\ mstage \in [Mutations -> {"idle", "loading", "preparing", "closing", "done"}]
    BY DEF TypeOK, GenStates
  <2> QED  BY <2>1, <1>0
<1>1. Holder(m)
  <2>1. \A g \in Gens : state[g] \in {"closing", "closed"} => state'[g] \in {"closing", "closed"}
    BY <1>0, <1>a
  <2> QED  BY <1>0, <1>a, <2>1 DEF Holder
<1> HIDE DEF Closed
<1>2. UsersSound' /\ UsersExact' /\ MutationsSound'
  BY <1>1, HolderUsers, HolderMutations
<1>3. TypeOK'
  <2>1. /\ active \in [Plugins -> Gens \cup {NoGen}] /\ waiting \subseteq Gens
        /\ retired \subseteq Gens /\ old \in [Mutations -> Gens \cup {NoGen}]
    BY DEF TypeOK
  <2> QED  BY <1>1, <1>a, <2>1, HolderTypes
<1>4. GenerationsSound'
  <2>1. ASSUME NEW g \in Gens, Abandoned(g) PROVE Abandoned(g)'
    BY <2>1, <1>0, <1>a DEF Abandoned, TypeOK
  <2>2. ASSUME NEW g \in Gens, state'[g] = "loaded"
        PROVE  (\/ \E p \in Plugins : active[p] = g
                \/ g \in waiting /\ g \in retired
                \/ Abandoned(g))'
    BY <2>1, <2>2, <1>0, <1>a DEF GenerationsSound
  <2> QED  BY <2>2, <1>0, <1>a DEF GenerationsSound
<1>5. ActiveUsable'
  <2>1. \A p \in Plugins : active[p] \in Gens \cup {NoGen}
    BY DEF TypeOK
  <2>2. ASSUME NEW p \in Plugins, active[p] # NoGen
        PROVE  /\ active[p] \in Gens /\ PluginOf[active[p]] = p /\ active[p] \notin retired
               /\ state[active[p]] = "loaded" \/ shutdown = "manager"
    BY <2>1, <2>2 DEF ActiveUsable
  <2>3. \A p \in Plugins : active[p] # NoGen => state'[active[p]] = "loaded" \/ shutdown = "manager"
    BY <2>2, <1>0, <1>a
  <2>4. UNCHANGED <<active, retired, shutdown>>
    BY <1>a DEF shutdownVars
  <2> QED  BY <2>2, <2>3, <2>4 DEF ActiveUsable
<1> QED  BY <1>2, <1>3, <1>4, <1>5

(* A mutation is cancelled.                                                *)
LEMMA CancelMutationStep ==
    ASSUME PluginInv, NEW m \in Mutations, CancelMutation(m)
    PROVE  PluginInv'
<1> USE PluginAssumption DEF PluginInv, CancelMutation, Unlock,
       generationVars, requestVars, taskVars, mutationVars, shutdownVars
<1>0. /\ lock = m /\ m \in MayCancel /\ mstage[m] \in {"loading", "preparing", "closing"}
      /\ mstage[m] = "loading" => new[m] \in Gens /\ state[new[m]] = "unused"
             /\ users[new[m]] = 0 /\ new[m] \notin retired /\ \A p \in Plugins : active[p] # new[m]
      /\ mstage[m] = "preparing" /\ new[m] # NoGen => new[m] \notin retired
      /\ mstage[m] = "closing" => old[m] \in Gens /\ state[old[m]] \in {"closing", "closed"}
  BY ZenonT(40) DEF MutationsSound
<1>b. /\ mstage' = [mstage EXCEPT ![m] = "done"] /\ mstage'[m] = "done" /\ lock' = NoMutation
      /\ UNCHANGED <<active, waiting, retired, users, requestVars, taskVars, new, old, shutdownVars>>
  BY DEF TypeOK
<1>a. PICK x \in Gens \cup {NoGen} :
         /\ \A g \in Gens : g # x => state'[g] = state[g]
         /\ state' \in [Gens -> GenStates]
         /\ x \in Gens => state'[x] = "closed"
         /\ mstage[m] = "loading" => x = new[m]
         /\ mstage[m] = "closing" => x = old[m]
         /\ mstage[m] = "preparing" => x = NoGen
  <2>1. state \in [Gens -> GenStates] /\ "closed" \in GenStates
    BY DEF TypeOK, GenStates
  <2>2. CASE mstage[m] = "loading" /\ state' = [state EXCEPT ![new[m]] = "closed"]
    BY <2>1, <2>2, <1>0
  <2>3. CASE mstage[m] = "closing" /\ state' = [state EXCEPT ![old[m]] = "closed"]
    BY <2>1, <2>3, <1>0
  <2>4. CASE mstage[m] = "preparing" /\ state' = state
    BY <2>1, <2>4
  <2> QED  BY <2>2, <2>3, <2>4, <1>0
<1>1. Holder(m)
  <2>1. \A g \in Gens : state[g] \in {"closing", "closed"} => state'[g] \in {"closing", "closed"}
    BY <1>0, <1>a
  <2> QED  BY <1>0, <1>b, <2>1 DEF Holder
<1> HIDE DEF CancelMutation
<1>2. UsersSound' /\ UsersExact' /\ MutationsSound'
  BY <1>1, HolderUsers, HolderMutations
<1>3. TypeOK'
  <2>1. /\ active \in [Plugins -> Gens \cup {NoGen}] /\ waiting \subseteq Gens
        /\ retired \subseteq Gens /\ old \in [Mutations -> Gens \cup {NoGen}]
    BY DEF TypeOK
  <2> QED  BY <1>1, <1>a, <1>b, <2>1, HolderTypes
<1>4. GenerationsSound'
  <2>1. ASSUME NEW g \in Gens, Abandoned(g) PROVE Abandoned(g)'
    BY <2>1, <1>0, <1>b DEF Abandoned, TypeOK
  <2>2. ASSUME NEW g \in Gens, state'[g] = "loaded"
        PROVE  (\/ \E p \in Plugins : active[p] = g
                \/ g \in waiting /\ g \in retired
                \/ Abandoned(g))'
    <3>1. state[g] = "loaded"
      BY <2>2, <1>a
    <3>2. mstage[m] = "preparing" /\ new[m] = g => Abandoned(g)'
      BY <1>0, <1>b, PluginAssumption DEF Abandoned
    <3> QED  BY <3>1, <3>2, <2>1, <1>0, <1>b DEF GenerationsSound
  <2>3. ASSUME NEW g \in Gens
        PROVE  /\ state'[g] = "unused" => state[g] = "unused"
               /\ state'[g] \in {"closing", "closed"} =>
                     state[g] \in {"closing", "closed"} \/ users[g] = 0
               /\ state'[g] = "loaded" => state[g] = "loaded"
    BY <1>0, <1>a
  <2> QED  BY <2>2, <2>3, <1>b DEF GenerationsSound
<1>5. ActiveUsable'
  <2>1. \A p \in Plugins : active[p] \in Gens \cup {NoGen}
    BY DEF TypeOK
  <2>2. ASSUME NEW p \in Plugins, active[p] # NoGen
        PROVE  /\ active[p] \in Gens /\ PluginOf[active[p]] = p /\ active[p] \notin retired
               /\ state[active[p]] = "loaded" \/ shutdown = "manager"
    BY <2>1, <2>2 DEF ActiveUsable
  <2>3. \A p \in Plugins : active[p] # NoGen => state'[active[p]] = "loaded" \/ shutdown = "manager"
    BY <2>2, <1>0, <1>a
  <2>4. UNCHANGED <<active, retired, shutdown>>
    BY <1>b DEF shutdownVars
  <2> QED  BY <2>2, <2>3, <2>4 DEF ActiveUsable
<1> QED  BY <1>2, <1>3, <1>4, <1>5

(* The services stop their monitors.                                       *)
LEMMA StopMonitorsStep ==
    ASSUME PluginInv, StopMonitors
    PROVE  PluginInv'
<1> USE PluginAssumption DEF PluginInv, StopMonitors,
       generationVars, requestVars, taskVars, mutationVars, shutdownVars
<1>0. \A g \in Gens :
         /\ users[g] \in Nat
         /\ \A s \in Requests : g \in lease[s] => users[g] > 0
         /\ \A s \in Requests : s \in Pinners(g) => users[g] > 0
  BY UsedCounts
<1>1. UsersSound'
  BY DEF TypeOK, UsersSound
<1>2. UsersExact' /\ users' \in [Gens -> Nat]
  <2>1. \A g \in Gens : Pinners(g)' = Pinners(g)
    BY DEF Pinners, TypeOK
  <2> QED  BY <1>1, <2>1, StillExact DEF TypeOK
<1>3. TypeOK'
  BY <1>2 DEF TypeOK, UsersSound, MutationsSound, GenStates, TaskStages
<1>4. Bystander
  BY <1>0, <1>2 DEF TypeOK, UsersSound, MutationsSound, GenerationsSound, ActiveUsable, Bystander
<1> QED  BY <1>1, <1>2, <1>3, <1>4, BystanderMutations, BystanderGenerations

(* The services release the pins that are left.                            *)
LEMMA ReleasePinsStep ==
    ASSUME PluginInv, ReleasePins
    PROVE  PluginInv'
<1> USE PluginAssumption DEF PluginInv, ReleasePins, Unpins,
       generationVars, requestVars, taskVars, mutationVars, shutdownVars
<1>0. \A g \in Gens :
         /\ users[g] \in Nat
         /\ \A s \in Requests : g \in lease[s] => users[g] > 0
         /\ \A s \in Requests : s \in Pinners(g) => users[g] > 0
  BY UsedCounts
<1>a. PICK X \in SUBSET {r \in Requests : pstage[r] = "cut"} :
         /\ Unpins(X)
         /\ \/ /\ \A g \in Gens : ~EndsWith(X, g)
               /\ shutdown' = "manager" /\ UNCHANGED <<state, dying>>
            \/ \E r \in X :
                  /\ EndsWith(X, pin[r]) /\ \A g \in Gens \ {pin[r]} : ~EndsWith(X, g)
                  /\ state' = [state EXCEPT ![pin[r]] = "closing"]
                  /\ dying' = pin[r] /\ shutdown' = "closing pin"
  <2> HIDE DEF EndsWith, Unpins
  <2> QED  OBVIOUS
<1>b. /\ shutdown \in {"stopping", "pins"}
      /\ UNCHANGED <<active, waiting, retired, pin, requestVars, mutationVars>>
  OBVIOUS
<1> HIDE DEF ReleasePins
<1>c. /\ \A r \in X : r \in Requests /\ pstage[r] = "cut" /\ pin[r] \in Gens /\ r \in Pinners(pin[r])
      /\ \A r \in Requests : pstage'[r] = IF r \in X THEN "done" ELSE pstage[r]
      /\ pstage' \in [Requests -> TaskStages]
      /\ users' = [g \in Gens |-> users[g] - Pinned(X, g)]
  <2>1. pstage \in [Requests -> TaskStages] /\ "done" \in TaskStages
    BY DEF TypeOK, TaskStages
  <2> QED  BY <1>a, <2>1 DEF Unpins, UsersSound, Pinners
<1>d. /\ \A g \in Gens : state'[g] = state[g] \/ (state'[g] = "closing" /\ EndsWith(X, g))
      /\ \A g \in Gens : EndsWith(X, g) => state'[g] = "closing"
      /\ state' \in [Gens -> GenStates]
      /\ \/ shutdown' = "manager" /\ UNCHANGED dying
         \/ shutdown' = "closing pin" /\ dying' \in Gens /\ state'[dying'] = "closing"
  <2> HIDE DEF EndsWith
  <2>1. "closing" \in GenStates
    BY DEF GenStates
  <2>a. state \in [Gens -> GenStates]
    BY DEF TypeOK
  <2>2. CASE /\ \A g \in Gens : ~EndsWith(X, g)
             /\ shutdown' = "manager" /\ UNCHANGED <<state, dying>>
    BY <2>2, <2>a
  <2>3. ASSUME NEW r \in X,
               EndsWith(X, pin[r]), \A g \in Gens \ {pin[r]} : ~EndsWith(X, g),
               state' = [state EXCEPT ![pin[r]] = "closing"],
               dying' = pin[r], shutdown' = "closing pin"
        PROVE  /\ \A g \in Gens : state'[g] = state[g] \/ (state'[g] = "closing" /\ EndsWith(X, g))
               /\ \A g \in Gens : EndsWith(X, g) => state'[g] = "closing"
               /\ state' \in [Gens -> GenStates]
               /\ shutdown' = "closing pin" /\ dying' \in Gens /\ state'[dying'] = "closing"
    <3>1. pin[r] \in Gens
      BY <1>c
    <3> QED  BY <2>1, <2>3, <2>a, <3>1
  <2> QED  BY <1>a, <2>2, <2>3
<1>e. \A g \in Gens : EndsWith(X, g) =>
         g \in retired /\ state[g] = "loaded" /\ users'[g] = 0
  BY <1>0, <1>c DEF EndsWith
<1>1. UsersSound'
  <2>1. \A g \in Gens : state[g] \in {"closing", "closed"} => state'[g] \in {"closing", "closed"}
    BY <1>d
  <2> QED  BY <1>b, <1>c, <2>1 DEF UsersSound
<1>2. UsersExact' /\ users' \in [Gens -> Nat]
  <2>1. \A g \in Gens : Pinners(g)' = Pinners(g) \ X
    BY <1>b, <1>c DEF Pinners
  <2> QED  BY <1>1, <1>b, <1>c, <2>1, DroppedPins
<1>3. TypeOK'
  BY <1>2, <1>b, <1>c, <1>d DEF TypeOK
<1>4. Bystander
  <2>1. ASSUME NEW g \in Gens
        PROVE  /\ users[g] = 0 => users'[g] = 0
               /\ g \in retired /\ state'[g] = "loaded" => users'[g] > 0
    <3>1. Pinned(X, g) \in Nat
      <4>1. IsFiniteSet({r \in X : pin[r] = g})
        BY FS_Subset
      <4> QED  BY <4>1, FS_CardinalityType DEF Pinned
    <3>2. users'[g] = users[g] - Pinned(X, g) /\ users'[g] \in Nat
      BY <1>2, <1>c
    <3>3. users[g] = 0 => users'[g] = 0
      BY <3>1, <3>2
    <3>4. ASSUME g \in retired, state'[g] = "loaded"
          PROVE  users'[g] > 0
      <4>1. ~EndsWith(X, g) /\ state[g] = "loaded"
        BY <3>4, <1>d
      <4>2. users[g] > 0 /\ Pinned(X, g) # users[g]
        BY <3>4, <4>1, <1>0 DEF EndsWith, GenerationsSound
      <4> QED  BY <3>1, <3>2, <4>2, <1>0
    <3> QED  BY <3>3, <3>4
  <2>2. dying \notin Gens \/ state[dying] \in {"closing", "closed"}
    BY DEF MutationsSound
  <2>3. dying' # NoGen => dying' \in Gens /\ state'[dying'] \in {"closing", "closed"}
    BY <1>d, <2>2 DEF TypeOK
  <2>4. shutdown' \in {"manager", "closing pin"} /\ (shutdown' = "closing pin" => dying' # NoGen)
    BY <1>d
  <2> QED  BY <1>2, <1>b, <1>d, <1>e, <2>1, <2>3, <2>4 DEF Bystander
<1> QED  BY <1>1, <1>2, <1>3, <1>4, BystanderMutations, BystanderGenerations

(* What the services were closing is closed.                               *)
LEMMA PinClosedStep ==
    ASSUME PluginInv, PinClosed
    PROVE  PluginInv'
<1> USE PluginAssumption DEF PluginInv, PinClosed,
       generationVars, requestVars, taskVars, mutationVars, shutdownVars
<1>0. \A g \in Gens :
         /\ users[g] \in Nat
         /\ \A s \in Requests : g \in lease[s] => users[g] > 0
         /\ \A s \in Requests : s \in Pinners(g) => users[g] > 0
  BY UsedCounts
<1>1. UsersSound'
  BY DEF TypeOK, UsersSound
<1>2. UsersExact' /\ users' \in [Gens -> Nat]
  <2>1. \A g \in Gens : Pinners(g)' = Pinners(g)
    BY DEF Pinners, TypeOK
  <2> QED  BY <1>1, <2>1, StillExact DEF TypeOK
<1>3. TypeOK'
  BY <1>2 DEF TypeOK, UsersSound, MutationsSound, GenStates, TaskStages
<1>4. Bystander
  <2>1. dying \in Gens /\ state[dying] \in {"closing", "closed"}
    BY DEF MutationsSound, TypeOK
  <2>2. /\ state'[dying] = "closed"
        /\ \A g \in Gens \ {dying} : state'[g] = state[g]
    BY <2>1 DEF TypeOK
  <2>3. waiting' \subseteq waiting /\ \A g \in waiting \ waiting' : g = dying
    OBVIOUS
  <2>4. /\ UNCHANGED <<active, retired, users, mutationVars>>
        /\ shutdown = "closing pin" /\ shutdown' \in {"broken", "pins"} /\ dying' = NoGen
    OBVIOUS
  <2> HIDE DEF PinClosed
  <2> QED  BY <1>0, <2>1, <2>2, <2>3, <2>4 DEF Bystander, GenerationsSound
<1> QED  BY <1>1, <1>2, <1>3, <1>4, BystanderMutations, BystanderGenerations

(* The store closes a generation at shutdown.                              *)
LEMMA CloseGenerationStep ==
    ASSUME PluginInv, CloseGeneration
    PROVE  PluginInv'
<1> USE PluginAssumption DEF PluginInv, CloseGeneration,
       generationVars, requestVars, taskVars, mutationVars, shutdownVars
<1>0. \A g \in Gens :
         /\ users[g] \in Nat
         /\ \A s \in Requests : g \in lease[s] => users[g] > 0
         /\ \A s \in Requests : s \in Pinners(g) => users[g] > 0
  BY UsedCounts
<1>1. UsersSound'
  BY DEF TypeOK, UsersSound
<1>2. UsersExact' /\ users' \in [Gens -> Nat]
  <2>1. \A g \in Gens : Pinners(g)' = Pinners(g)
    BY DEF Pinners, TypeOK
  <2> QED  BY <1>1, <2>1, StillExact DEF TypeOK
<1>3. TypeOK'
  BY <1>2 DEF TypeOK, UsersSound, MutationsSound, GenStates, TaskStages
<1>4. MutationsSound'
  BY <1>0 DEF TypeOK, MutationsSound, UsersSound
<1>5. GenerationsSound'
  BY <1>0 DEF TypeOK, UsersSound, MutationsSound, GenerationsSound, Abandoned
<1>6. ActiveUsable'
  BY DEF TypeOK, MutationsSound, UsersSound, GenerationsSound, ActiveUsable
<1> QED  BY <1>1, <1>2, <1>3, <1>4, <1>5, <1>6

(* It is closed.                                                           *)
LEMMA GenerationClosedStep ==
    ASSUME PluginInv, GenerationClosed
    PROVE  PluginInv'
<1> USE PluginAssumption DEF PluginInv, GenerationClosed,
       generationVars, requestVars, taskVars, mutationVars, shutdownVars
<1>0. \A g \in Gens :
         /\ users[g] \in Nat
         /\ \A s \in Requests : g \in lease[s] => users[g] > 0
         /\ \A s \in Requests : s \in Pinners(g) => users[g] > 0
  BY UsedCounts
<1>1. UsersSound'
  BY DEF TypeOK, UsersSound
<1>2. UsersExact' /\ users' \in [Gens -> Nat]
  <2>1. \A g \in Gens : Pinners(g)' = Pinners(g)
    BY DEF Pinners, TypeOK
  <2> QED  BY <1>1, <2>1, StillExact DEF TypeOK
<1>3. TypeOK'
  BY <1>2 DEF TypeOK, UsersSound, MutationsSound, GenStates, TaskStages
<1>4. Bystander
  BY <1>0, <1>2 DEF TypeOK, UsersSound, MutationsSound, GenerationsSound, ActiveUsable, Bystander
<1> QED  BY <1>1, <1>2, <1>3, <1>4, BystanderMutations, BystanderGenerations

(* The store has closed them all.                                          *)
LEMMA AllClosedStep ==
    ASSUME PluginInv, AllClosed
    PROVE  PluginInv'
<1> USE PluginAssumption DEF PluginInv, AllClosed,
       generationVars, requestVars, taskVars, mutationVars, shutdownVars
<1>0. \A g \in Gens :
         /\ users[g] \in Nat
         /\ \A s \in Requests : g \in lease[s] => users[g] > 0
         /\ \A s \in Requests : s \in Pinners(g) => users[g] > 0
  BY UsedCounts
<1>1. UsersSound'
  BY DEF TypeOK, UsersSound
<1>2. UsersExact' /\ users' \in [Gens -> Nat]
  <2>1. \A g \in Gens : Pinners(g)' = Pinners(g)
    BY DEF Pinners, TypeOK
  <2> QED  BY <1>1, <2>1, StillExact DEF TypeOK
<1>3. TypeOK'
  BY <1>2 DEF TypeOK, UsersSound, MutationsSound, GenStates, TaskStages
<1>4. MutationsSound'
  BY <1>0 DEF TypeOK, MutationsSound, UsersSound
<1>5. GenerationsSound'
  BY <1>0 DEF TypeOK, UsersSound, MutationsSound, GenerationsSound, Abandoned
<1>6. ActiveUsable'
  BY DEF TypeOK, MutationsSound, UsersSound, GenerationsSound, ActiveUsable
<1> QED  BY <1>1, <1>2, <1>3, <1>4, <1>5, <1>6

-----------------------------------------------------------------------------
(* The invariant, and what it says of the generations.                     *)

(* It holds of the plugins that start() has loaded.                        *)
LEMMA InitPluginInv == Init => PluginInv
<1> SUFFICES ASSUME Init PROVE PluginInv
  OBVIOUS
<1> USE PluginAssumption DEF Init
<1>1. \A p \in Plugins :
         /\ active[p] \in Gens \cup {NoGen}
         /\ active[p] # NoGen => PluginOf[active[p]] = p /\ active[p] \in Started
         /\ \A g \in Started : PluginOf[g] = p => active[p] = g
  <2>1. ASSUME NEW p \in Plugins, \E g \in Started : PluginOf[g] = p
        PROVE  /\ active[p] \in Started /\ PluginOf[active[p]] = p
               /\ \A g \in Started : PluginOf[g] = p => active[p] = g
    <3>1. active[p] = CHOOSE g \in Started : PluginOf[g] = p
      BY <2>1
    <3>2. active[p] \in Started /\ PluginOf[active[p]] = p
      BY <2>1, <3>1
    <3> QED  BY <3>2
  <2>2. ASSUME NEW p \in Plugins, ~\E g \in Started : PluginOf[g] = p
        PROVE  active[p] = NoGen
    BY <2>2
  <2> QED  BY <2>1, <2>2
<1>2. TypeOK
  <2>1. active \in [Plugins -> Gens \cup {NoGen}]
    <3>1. active = [p \in Plugins |-> active[p]]
      OBVIOUS
    <3> HIDE DEF Init
    <3> QED  BY <1>1, <3>1
  <2>2. state \in [Gens -> GenStates]
    BY DEF GenStates
  <2>3. pstage \in [Requests -> TaskStages]
    BY DEF TaskStages
  <2> QED  BY <2>1, <2>2, <2>3 DEF TypeOK
<1>3. UsersSound
  BY DEF UsersSound
<1>4. MutationsSound
  BY DEF MutationsSound
<1>5. GenerationsSound
  <2>1. ASSUME NEW g \in Gens, state[g] = "loaded"
        PROVE  \E p \in Plugins : active[p] = g
    <3>1. g \in Started /\ PluginOf[g] \in Plugins
      BY <2>1
    <3> QED  BY <1>1, <3>1
  <2>2. \A g \in Gens : users[g] = 0 /\ g \notin retired /\ state[g] \in {"loaded", "unused"}
    OBVIOUS
  <2> HIDE DEF Init
  <2> QED  BY <2>1, <2>2 DEF GenerationsSound
<1>6. UsersExact
  <2>1. ASSUME NEW g \in Gens PROVE Holding(g) = {}
    BY DEF Holding, Leasers, Pinners
  <2> QED  BY <1>3, <2>1, UsesAreHoldings, FS_EmptySet DEF UsersExact
<1>7. ActiveUsable
  <2>1. \A g \in Started : state[g] = "loaded" /\ g \notin retired
    OBVIOUS
  <2> HIDE DEF Init
  <2> QED  BY <1>1, <2>1 DEF ActiveUsable
<1> QED  BY <1>2, <1>3, <1>4, <1>5, <1>6, <1>7 DEF PluginInv

(* Every step keeps it.                                                    *)
LEMMA NextPluginInv == PluginInv /\ [Next]_vars => PluginInv'
<1> SUFFICES ASSUME PluginInv, [Next]_vars PROVE PluginInv'
  OBVIOUS
<1>1. ASSUME NEW r \in Requests,
             Lease(r) \/ Accept(r) \/ RequestEnds(r) \/ TaskEnds(r) \/ CancelRelease(r)
      PROVE  PluginInv'
  BY <1>1, LeaseStep, AcceptStep, EndUseStep, LeaveStep, LeftStep, TerminalStep, UnpinStep,
     UnpinnedStep, CancelReleaseStep DEF RequestEnds, TaskEnds
<1>2. ASSUME NEW m \in Mutations, Begin(m) \/ MutationEnds(m) \/ CancelMutation(m)
      PROVE  PluginInv'
  BY <1>2, BeginStep, LoadStep, PublishStep, PrepareFailsStep, ClosedStep, CancelMutationStep
     DEF MutationEnds
<1>3. CASE StopMonitors \/ ShutdownGoesOn
  BY <1>3, StopMonitorsStep, ReleasePinsStep, PinClosedStep, CloseGenerationStep,
     GenerationClosedStep, AllClosedStep DEF ShutdownGoesOn
<1>4. CASE UNCHANGED vars
  <2>1. UNCHANGED <<active, waiting, retired, state, users, rstage, lease, leaving, pin, pstage,
                    mstage, lock, new, old, shutdown, dying>>
    BY <1>4 DEF vars, generationVars, requestVars, taskVars, mutationVars, shutdownVars
  <2>2. TypeOK'
    BY <2>1 DEF PluginInv, TypeOK
  <2>3. UsersSound' /\ MutationsSound'
    BY <2>1, ZenonT(40) DEF PluginInv, UsersSound, MutationsSound
  <2>4. GenerationsSound' /\ ActiveUsable'
    BY <2>1 DEF PluginInv, GenerationsSound, ActiveUsable, Abandoned
  <2>5. UsersExact'
    BY <2>1 DEF PluginInv, UsersExact, Uses, Lessees, LeftBehind, Pinners
  <2> QED  BY <2>2, <2>3, <2>4, <2>5 DEF PluginInv
<1> QED  BY <1>1, <1>2, <1>3, <1>4 DEF Next

(* For any plugins, requests and mutations: every generation's counter is  *)
(* the number of those who use it (LoadedPlugin.users), the active ones    *)
(* can be used, and what is loaded and retired waits for its last user.    *)
THEOREM PluginInvariant == Spec => []PluginInv
<1> QED  BY InitPluginInv, NextPluginInv, PTL DEF Spec

(* No generation is closed under a request that leased it or a task one of *)
(* its providers accepted (_retire, lease, _unpin), until the store itself *)
(* is closed.                                                              *)
THEOREM ClosedUnused == Spec => []NeverClosedInUse
<1>1. PluginInv => NeverClosedInUse
  <2> SUFFICES ASSUME PluginInv, NEW g \in Gens, state[g] \in {"closing", "closed"},
                      shutdown \notin {"manager", "down"}
               PROVE  /\ \A r \in Requests : ~(rstage[r] = "using" /\ g \in lease[r])
                      /\ Pinners(g) = {}
    BY DEF NeverClosedInUse
  <2>1. users[g] = 0
    BY DEF PluginInv, GenerationsSound
  <2>2. \A r \in Requests : g \notin lease[r] /\ r \notin Pinners(g)
    BY <2>1, UsedCounts DEF PluginInv
  <2>3. Pinners(g) \subseteq Requests
    BY DEF Pinners
  <2> QED  BY <2>2, <2>3
<1> QED  BY <1>1, PluginInvariant, PTL

(* No loaded generation is forgotten: it is active or being installed, or  *)
(* waits in _retired for somebody who will leave it, but for those that a  *)
(* cancelled release or a cancelled mutation leaves.                       *)
THEOREM NoneForgotten == Spec => []LoadedAccountedFor
<1>1. PluginInv => LoadedAccountedFor
  <2> SUFFICES ASSUME PluginInv, NEW g \in Gens, state[g] = "loaded"
               PROVE  \/ \E p \in Plugins : active[p] = g
                      \/ lock # NoMutation /\ new[lock] = g
                      \/ g \in waiting /\ Lessees(g) \cup Pinners(g) # {}
                      \/ LeftBehind(g) # {} /\ shutdown # "down"
                      \/ Abandoned(g)
    BY DEF LoadedAccountedFor
  <2>1. CASE g \in waiting /\ g \in retired
    <3>1. users[g] > 0 /\ shutdown # "down"
      BY <2>1 DEF PluginInv, GenerationsSound, MutationsSound
    <3>2. Holding(g) # {} /\ Uses(g) = Holding(g)
      BY <3>1, UsedCounts, UsesAreHoldings DEF PluginInv
    <3>3. Lessees(g) \cup LeftBehind(g) \cup Pinners(g) # {}
      BY <3>2 DEF Uses
    <3> QED  BY <2>1, <3>1, <3>3
  <2>2. CASE ~(g \in waiting /\ g \in retired)
    BY <2>2 DEF PluginInv, GenerationsSound
  <2> QED  BY <2>1, <2>2
<1> QED  BY <1>1, PluginInvariant, PTL
=============================================================================
