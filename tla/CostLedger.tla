----------------------------- MODULE CostLedger -----------------------------
(***************************************************************************)
(* The cost ledger of mm_gateway/billing.py.                               *)
(*                                                                         *)
(* A create first HOLDS its estimate against the key's budget for the      *)
(* current period and against the client's budget scope; the hold is BOUND *)
(* to the provider's task once the provider accepted it; and it ends by a  *)
(* RELEASE (the attempt failed) or by a SETTLEMENT (the task finished),    *)
(* which moves the actual cost to spent.                                   *)
(*                                                                         *)
(* Every method of CostLedger runs under one lock, so each is one action.  *)
(* The operators that take a table of holds as an argument let a composing *)
(* module do a release and the next hold in one step, as execute_plan does.*)
(*                                                                         *)
(* Money is counted in whole units: the _EPS slack of the source, which    *)
(* absorbs float rounding, has nothing to absorb here.  _model_spent and   *)
(* _scope_limits feed the usage report only and are left out.              *)
(***************************************************************************)
EXTENDS Integers, FiniteSets, Functions

CONSTANTS
    Keys,           \* API keys (the anonymous caller is one without a limit)
    Scopes,         \* client budget scopes
    NoScope,        \* a create that names no scope
    Tasks,          \* task tokens: (modality, backend, task id)
    NoTask,         \* a hold the provider has not accepted yet
    NoLimit,        \* no cap applies
    Unpriced,       \* the estimate of a model without a price
    KeyLimit,       \* keys[].budget.limit_usd
    ScopesLimit,    \* keys[].budget.scopes_limit_usd
    Kind,           \* keys[].budget.period
    DaysPerMonth,   \* length of the model's months
    Amounts,        \* estimates a create may hold
    Costs,          \* costs a provider may report
    ClientLimits,   \* routing.budget.limit_usd of a request
    UniqueTasks,    \* providers never reuse the id of a live task
    MaxHolds,       \* bound: holds ever made
    MaxDay          \* bound: days that pass

Days == 0 .. MaxDay

ASSUME LimitsAssumption ==
    /\ NoLimit \notin Int
    /\ Unpriced \notin Int
    /\ KeyLimit \in [Keys -> Nat \cup {NoLimit}]
    /\ ScopesLimit \in [Keys -> Nat \cup {NoLimit}]
    /\ ClientLimits \subseteq Nat \cup {NoLimit}

ASSUME MoneyAssumption ==
    /\ Amounts \subseteq Int \cup {Unpriced}
    /\ Costs \subseteq Int

ASSUME NoneAssumption ==
    /\ NoScope \notin Scopes
    /\ NoTask \notin Tasks

ASSUME ClockAssumption ==
    /\ Kind \in [Keys -> {"day", "month", "total"}]
    /\ DaysPerMonth \in Nat \ {0}
    /\ MaxDay \in Nat
    /\ MaxHolds \in Nat
    /\ UniqueTasks \in BOOLEAN

VARIABLES
    holds,          \* CostLedger._holds: a partial function on hold ids
    byTask,         \* CostLedger._by_task: the hold of a token, 0 if none
    keySpent,       \* CostLedger._key_spent
    scopeSpent,     \* CostLedger._scope_spent
    nextId,         \* CostLedger._ids
    day,            \* the clock: days since the start
    keyOver,        \* history: what settlements charged beyond the amount
    scopeOver       \* held, by the same accounts as the spending

spending == <<keySpent, scopeSpent, keyOver, scopeOver>>
ledgerVars == <<holds, byTask, keySpent, scopeSpent, nextId, day, keyOver,
                scopeOver>>

-----------------------------------------------------------------------------
(* Helpers.                                                                *)

Put(f, x, v) == [y \in DOMAIN f \cup {x} |-> IF y = x THEN v ELSE f[y]]

Without(f, x) == Restrict(f, DOMAIN f \ {x})

NonNegative(x) == IF x < 0 THEN 0 ELSE x

(* The amount a hold reserves: an unpriced model holds nothing.            *)
Value(a) == IF a = Unpriced THEN 0 ELSE NonNegative(a)

(* The number of the budget period that contains day d.                    *)
PeriodId(kind, d) ==
    CASE kind = "day"   -> d
      [] kind = "month" -> d \div DaysPerMonth
      [] OTHER          -> 0

Period(k, d) == PeriodId(Kind[k], d)

(* The units reserved by the holds H of the table hs; an amount of n is n  *)
(* units of its hold, so that their number is the sum of the amounts.      *)
Units(hs, H) == UNION {{h} \X (1 .. hs[h].amount) : h \in H}
Held(hs, H) == Cardinality(Units(hs, H))

KeyHolds(hs, k, p) == {h \in DOMAIN hs : hs[h].key = k /\ hs[h].period = p}
ScopeHolds(hs, k, s) == {h \in DOMAIN hs : hs[h].key = k /\ hs[h].scope = s}

KeyReserved(hs, k, p) == Held(hs, KeyHolds(hs, k, p))
ScopeReserved(hs, k, s) == Held(hs, ScopeHolds(hs, k, s))

(* Mutant: a client's limit replaces the operator's.                       *)
ScopeCapClientFirst(k, c) == IF c = NoLimit THEN ScopesLimit[k] ELSE c

(* The tighter of the client's and the operator's scope limit.             *)
ScopeCap(k, c) ==
    IF c = NoLimit \/ (ScopesLimit[k] # NoLimit /\ ScopesLimit[k] < c)
    THEN ScopesLimit[k]
    ELSE c

-----------------------------------------------------------------------------
(* CostLedger._check                                                       *)

(* Mutant: what is reserved is not counted.                                *)
KeyAdmitsSpentOnly(hs, k, v, d) ==
    KeyLimit[k] # NoLimit => keySpent[k][Period(k, d)] + v <= KeyLimit[k]

KeyAdmits(hs, k, v, d) ==
    KeyLimit[k] # NoLimit =>
        keySpent[k][Period(k, d)] + KeyReserved(hs, k, Period(k, d)) + v
            <= KeyLimit[k]

(* Mutant: a scope is checked only if its client sent a limit.             *)
ScopeAdmitsClientOnly(hs, k, s, c, v) ==
    (s # NoScope /\ c # NoLimit) =>
        scopeSpent[k][s] + ScopeReserved(hs, k, s) + v <= ScopeCap(k, c)

ScopeAdmits(hs, k, s, c, v) ==
    (s # NoScope /\ ScopeCap(k, c) # NoLimit) =>
        scopeSpent[k][s] + ScopeReserved(hs, k, s) + v <= ScopeCap(k, c)

Admits(hs, k, s, c, v, d) ==
    /\ KeyAdmits(hs, k, v, d)
    /\ ScopeAdmits(hs, k, s, c, v)

(* Mutant: the period of a hold is one computed when the gateway started.  *)
NewHoldFirstPeriod(k, s, a, d) ==
    [key |-> k, period |-> Period(k, 0), scope |-> s, amount |-> Value(a),
     priced |-> a # Unpriced, task |-> NoTask]

NewHold(k, s, a, d) ==
    [key |-> k, period |-> Period(k, d), scope |-> s, amount |-> Value(a),
     priced |-> a # Unpriced, task |-> NoTask]

(* hold(): check the budgets of the table hs and add a hold to it.  The    *)
(* clock is read twice, by _check and by the construction of the _Hold, so *)
(* midnight may pass between the two readings.                             *)
HoldFrom(hs, k, s, c, a) ==
    /\ nextId <= MaxHolds
    /\ Admits(hs, k, s, c, Value(a), day)
    /\ day' \in {day, day + 1} \cap Days
    /\ holds' = Put(hs, nextId, NewHold(k, s, a, day'))
    /\ nextId' = nextId + 1
    /\ UNCHANGED spending

(* The table and the index after release(h).                               *)
HoldsReleased(h) == Without(holds, h)

(* Mutant: release() forgets the index.                                    *)
IndexReleasedNot(h) == byTask

IndexReleased(h) ==
    IF h \in DOMAIN holds /\ holds[h].task # NoTask
    THEN [byTask EXCEPT ![holds[h].task] = 0]
    ELSE byTask

-----------------------------------------------------------------------------
(* The operations.                                                         *)

HoldAdmitted(k, s, c, a) ==
    /\ HoldFrom(holds, k, s, c, a)
    /\ UNCHANGED byTask

(* bind(): the provider accepted the task.                                 *)
Bind(h, t) ==
    /\ IF h \in DOMAIN holds
       THEN /\ holds' = [holds EXCEPT ![h].task = t]
            /\ byTask' = [byTask EXCEPT ![t] = h]
       ELSE UNCHANGED <<holds, byTask>>
    /\ UNCHANGED <<nextId, day, spending>>

Release(h) ==
    /\ holds' = HoldsReleased(h)
    /\ byTask' = IndexReleased(h)
    /\ UNCHANGED <<nextId, day, spending>>

(* settle(cost=None): the task failed, was cancelled or expired.           *)
Drop(t) ==
    /\ holds' = Without(holds, byTask[t])
    /\ byTask' = [byTask EXCEPT ![t] = 0]
    /\ UNCHANGED <<nextId, day, spending>>

(* settle(cost=c): c is charged to the period the task was admitted in,    *)
(* not to the one it finishes in.                                          *)
Charge(h, c) ==
    LET k == holds[h].key
        p == holds[h].period
        s == holds[h].scope
        over == NonNegative(NonNegative(c) - holds[h].amount)
    IN  /\ keySpent' = [keySpent EXCEPT ![k][p] = @ + NonNegative(c)]
        /\ keyOver' = [keyOver EXCEPT ![k][p] = @ + over]
        /\ IF s = NoScope
           THEN UNCHANGED <<scopeSpent, scopeOver>>
           ELSE /\ scopeSpent' = [scopeSpent EXCEPT ![k][s] = @ + NonNegative(c)]
                /\ scopeOver' = [scopeOver EXCEPT ![k][s] = @ + over]

Settle(t, c) ==
    /\ holds' = Without(holds, byTask[t])
    /\ byTask' = [byTask EXCEPT ![t] = 0]
    /\ IF byTask[t] \in DOMAIN holds
       THEN Charge(byTask[t], c)
       ELSE UNCHANGED spending
    /\ UNCHANGED <<nextId, day>>

(* The clock moves on.                                                     *)
Midnight ==
    /\ day < MaxDay
    /\ day' = day + 1
    /\ UNCHANGED <<holds, byTask, nextId, spending>>

-----------------------------------------------------------------------------
LedgerInit ==
    /\ holds = [h \in {} |-> h]
    /\ byTask = [t \in Tasks |-> 0]
    /\ keySpent = [k \in Keys |-> [p \in Days |-> 0]]
    /\ scopeSpent = [k \in Keys |-> [s \in Scopes |-> 0]]
    /\ keyOver = [k \in Keys |-> [p \in Days |-> 0]]
    /\ scopeOver = [k \in Keys |-> [s \in Scopes |-> 0]]
    /\ nextId = 1
    /\ day = 0

(* execute_plan binds a hold at most once.                                 *)
BindAccepted ==
    \E h \in DOMAIN holds, t \in Tasks :
        /\ holds[h].task = NoTask
        /\ UniqueTasks => \A g \in DOMAIN holds : holds[g].task # t
        /\ Bind(h, t)

LedgerNext ==
    \/ \E k \in Keys, s \in Scopes \cup {NoScope}, c \in ClientLimits,
          a \in Amounts : HoldAdmitted(k, s, c, a)
    \/ BindAccepted
    \/ \E h \in DOMAIN holds : Release(h)
    \/ \E t \in Tasks : Drop(t)
    \/ \E t \in Tasks, c \in Costs : Settle(t, c)
    \/ Midnight

LedgerSpec == LedgerInit /\ [][LedgerNext]_ledgerVars

-----------------------------------------------------------------------------
(* Properties.                                                             *)

HoldType ==
    [key: Keys, period: Days, scope: Scopes \cup {NoScope}, amount: Nat,
     priced: BOOLEAN, task: Tasks \cup {NoTask}]

(* A table of holds is a partial function from hold ids.                   *)
IsTable(hs) ==
    /\ DOMAIN hs \subseteq 1 .. MaxHolds
    /\ hs \in [DOMAIN hs -> HoldType]

(* The ledger's variables have their types.                                *)
LedgerTypeOK ==
    /\ IsTable(holds)
    /\ \A h \in DOMAIN holds : h < nextId
    /\ byTask \in [Tasks -> 0 .. MaxHolds]
    /\ keySpent \in [Keys -> [Days -> Nat]]
    /\ scopeSpent \in [Keys -> [Scopes -> Nat]]
    /\ keyOver \in [Keys -> [Days -> Nat]]
    /\ scopeOver \in [Keys -> [Scopes -> Nat]]
    /\ nextId \in 1 .. MaxHolds + 1
    /\ day \in Days

(* The index names live holds, each by the token it carries, even when a   *)
(* provider reuses a token: no settlement ever ends another task's hold.   *)
IndexSound ==
    \A t \in Tasks :
        byTask[t] # 0 => /\ byTask[t] \in DOMAIN holds
                         /\ holds[byTask[t]].task = t

(* When tokens are unique, every accepted hold can be found by its token:  *)
(* no reservation is left behind that no settlement can reach.             *)
Settleable ==
    UniqueTasks =>
        \A h \in DOMAIN holds :
            holds[h].task # NoTask => byTask[holds[h].task] = h

(* Nothing is held or spent in a period that has not begun.                *)
NothingAhead ==
    /\ \A h \in DOMAIN holds :
           holds[h].period <= Period(holds[h].key, day)
    /\ \A k \in Keys, p \in Days :
           p > Period(k, day) => keySpent[k][p] = 0

(* A key's commitments of a period, spent and reserved, exceed its limit   *)
(* only by what settlements charged beyond the amount they had held: the   *)
(* checks and holds of concurrent creates never add up to an overrun, not  *)
(* even when midnight passes inside hold().                                *)
WithinKeyBudget ==
    \A k \in Keys, p \in Days :
        KeyLimit[k] # NoLimit =>
            keySpent[k][p] + KeyReserved(holds, k, p)
                <= KeyLimit[k] + keyOver[k][p]

(* The same of every scope and the operator's cap on scopes, whatever      *)
(* limits the clients of that scope send.                                  *)
WithinScopeBudget ==
    \A k \in Keys, s \in Scopes :
        ScopesLimit[k] # NoLimit =>
            scopeSpent[k][s] + ScopeReserved(holds, k, s)
                <= ScopesLimit[k] + scopeOver[k][s]

(* The inductive invariant: the types, the index, and the budgets, which   *)
(* need NothingAhead as a hold checked against one period may be recorded  *)
(* in the next one.                                                        *)
LedgerInv ==
    /\ LedgerTypeOK
    /\ IndexSound
    /\ Settleable
    /\ NothingAhead
    /\ WithinKeyBudget
    /\ WithinScopeBudget

(* What an account's entries come to, counted in units as Held does.       *)
Spread(f, S) == UNION {{x} \X (1 .. f[x]) : x \in S}
Total(f, S) == Cardinality(Spread(f, S))

(* The totals of a key's scopes never exceed those of its periods: what is *)
(* charged to a scope is charged to the key as well.                       *)
ScopesReconcile ==
    \A k \in Keys :
        Total(scopeSpent[k], Scopes) <= Total(keySpent[k], Days)

(* A period that is over takes no more reservations.                       *)
PastPeriodsClose ==
    [][\A k \in Keys, p \in Days :
          p < Period(k, day) =>
              KeyReserved(holds', k, p) <= KeyReserved(holds, k, p)]_ledgerVars

(* Each key and period, and each scope of a key, is an account that keeps  *)
(* its cap.                                                                *)
KeyAccount(k, p) ==
    INSTANCE SpendingCap WITH Cap <- KeyLimit[k],
                              reserved <- KeyReserved(holds, k, p),
                              spent <- keySpent[k][p]

ScopeAccount(k, s) ==
    INSTANCE SpendingCap WITH Cap <- ScopesLimit[k],
                              reserved <- ScopeReserved(holds, k, s),
                              spent <- scopeSpent[k][s]

(* The ledger implements the abstract account for every key and period.    *)
KeyAccountsKept ==
    /\ \A k \in Keys, p \in Days : KeyAccount(k, p)!Init
    /\ [][\A k \in Keys, p \in Days :
              [KeyAccount(k, p)!Next]_(KeyAccount(k, p)!account)]_ledgerVars

(* The ledger implements the abstract account for every scope of a key.    *)
ScopeAccountsKept ==
    /\ \A k \in Keys, s \in Scopes : ScopeAccount(k, s)!Init
    /\ [][\A k \in Keys, s \in Scopes :
              [ScopeAccount(k, s)!Next]_(ScopeAccount(k, s)!account)]_ledgerVars

(* The ledger implements an abstract account for every key and period and  *)
(* for every scope of a key, and the scopes never add up to more than the  *)
(* key they belong to.                                                     *)
AccountsKept ==
    /\ KeyAccountsKept
    /\ ScopeAccountsKept
    /\ []ScopesReconcile
=============================================================================
