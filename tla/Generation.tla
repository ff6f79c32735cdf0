----------------------------- MODULE Generation -----------------------------
(***************************************************************************)
(* A create from the request to the settled task: the create handlers of   *)
(* server/routes/*.py and server/mcp.py, services.py, execute_plan of      *)
(* auto_mode.py, tasks/store.py, tasks/supervisor.py and the ledger.       *)
(*                                                                         *)
(* The gateway runs on one event loop: a handler only loses control where  *)
(* it awaits something that is not ready.  Each action is the code between *)
(* two such points.  A create can be suspended, and cancelled, while it    *)
(*                                                                         *)
(*   "queued"    waits for the guard of its idempotency scope,             *)
(*   "routing"   has a plan and awaits the plugins' route hooks,           *)
(*   "creating"  awaits the provider's create call,                        *)
(*   "syncing"   polls until the task is done (wait=True only),            *)
(*   "leaving"   awaits the release of the plugins it leased.              *)
(*                                                                         *)
(* A failed attempt, the release of its hold and the hold of the next      *)
(* candidate are one step.  The order in which candidates are tried, which *)
(* depends on health and latency scores, is left open.                     *)
(***************************************************************************)
EXTENDS CostLedger, Sequences

CONSTANTS
    Requests,       \* the creates of a run
    NoRequest,      \* the owner of a task no create was answered with
    IdemScopes,     \* (owner key, modality, Idempotency-Key)
    NoIdem,         \* a create without an Idempotency-Key
    IdemScope,      \* the idempotency scope of a request
    Body,           \* its request fingerprint
    KeyOf,          \* its API key
    BudgetScope,    \* its routing.budget.scope
    ClientLimit,    \* its routing.budget.limit_usd
    Offer,          \* the candidates that fit it
    Estimate,       \* the estimate of a candidate
    AllowUnpriced,  \* budget.allow_unpriced
    RouteHooks,     \* plugins may narrow a plan
    SyncWait,       \* the requests created with wait=True
    MayCancel,      \* the requests that may be cancelled
    MayClose        \* the gateway may shut down

MaxErrors == 3      \* _MAX_CONSECUTIVE_POLL_ERRORS

ASSUME RequestAssumption ==
    /\ NoRequest \notin Requests
    /\ NoIdem \notin IdemScopes
    /\ IdemScope \in [Requests -> IdemScopes \cup {NoIdem}]
    /\ KeyOf \in [Requests -> Keys]
    /\ BudgetScope \in [Requests -> Scopes \cup {NoScope}]
    /\ ClientLimit \in [Requests -> ClientLimits]
    /\ \A r \in Requests : Offer[r] \subseteq DOMAIN Estimate
    /\ \A c \in DOMAIN Estimate : Estimate[c] \in Amounts
    /\ DOMAIN Body = Requests

ASSUME OptionAssumption ==
    /\ AllowUnpriced \in BOOLEAN
    /\ RouteHooks \in BOOLEAN
    /\ MayClose \in BOOLEAN
    /\ SyncWait \subseteq Requests
    /\ MayCancel \subseteq Requests

VARIABLES
    pc,         \* where a request is suspended
    outcome,    \* how it ended
    answer,     \* the task it answered with
    guard,      \* TaskStore._idempotency_locks: holder first, then waiters
    records,    \* TaskStore: the record of each idempotency scope
    left,       \* RoutePlan.candidates not tried yet
    hold,       \* the hold of the current attempt
    job,        \* what the provider made of the current create call
    made,       \* the tasks providers ever made
    bound,      \* history: the request a task was accepted for
    entry,      \* AsyncTaskSupervisor._entries: the snapshot's status
    errors,     \* _Entry.consecutive_errors
    closed,     \* AsyncTaskSupervisor._closed
    charged     \* history: how often a task was charged

requestVars == <<pc, outcome, answer, left, hold, job>>
storeVars == <<guard, records>>
taskVars == <<made, bound, entry, errors, closed, charged>>
vars == <<requestVars, storeVars, taskVars, ledgerVars>>

NoRecord == [task |-> NoTask, body |-> NoTask]

-----------------------------------------------------------------------------
(* The idempotency guard and the record store.                             *)

(* Mutant: the guard is not awaited.                                       *)
OwnsAlways(r) == TRUE

Owns(r) ==
    IdemScope[r] # NoIdem => Head(guard[IdemScope[r]]) = r

Join(r) ==
    IF IdemScope[r] = NoIdem THEN guard
    ELSE [guard EXCEPT ![IdemScope[r]] = Append(@, r)]

(* Mutant: nobody ever leaves the guard.                                   *)
LeaveNever(r) == guard

(* A queue without its i-th entry.                                         *)
Shortened(q, i) == SubSeq(q, 1, i - 1) \o SubSeq(q, i + 1, Len(q))

Place(r, q) == CHOOSE i \in 1 .. Len(q) : q[i] = r

(* Leaving the guard, or its queue.                                        *)
Leave(r) ==
    IF IdemScope[r] = NoIdem THEN guard
    ELSE [guard EXCEPT ![IdemScope[r]] = Shortened(@, Place(r, @))]

RecordOf(r) ==
    IF IdemScope[r] = NoIdem THEN NoRecord ELSE records[IdemScope[r]]

(* The handler returns or raises.                                          *)
Answer(r, how, t) ==
    /\ pc' = [pc EXCEPT ![r] = "answered"]
    /\ outcome' = [outcome EXCEPT ![r] = how]
    /\ answer' = [answer EXCEPT ![r] = t]
    /\ guard' = Leave(r)

-----------------------------------------------------------------------------
(* Routing and attempts.                                                   *)

Budgeted(r) ==
    \/ KeyLimit[KeyOf[r]] # NoLimit
    \/ BudgetScope[r] # NoScope /\ ScopeCap(KeyOf[r], ClientLimit[r]) # NoLimit

AdmitsFrom(hs, r, c) ==
    Admits(hs, KeyOf[r], BudgetScope[r], ClientLimit[r], Value(Estimate[c]), day)

(* _Planner.admit: the budgets are only asked here, nothing is held yet.   *)
Admissible(r) ==
    {c \in Offer[r] :
        Budgeted(r) => /\ Estimate[c] = Unpriced => AllowUnpriced
                       /\ AdmitsFrom(holds, r, c)}

(* execute_plan's loop from one attempt to the next: candidates the budget *)
(* has no room for by now are skipped, and the first other one is held.    *)
NextAttempt(hs, r, cands) ==
    LET rejected == {c \in cands : ~AdmitsFrom(hs, r, c)}
    IN  \/ \E c \in cands, skipped \in SUBSET rejected :
              /\ HoldFrom(hs, KeyOf[r], BudgetScope[r], ClientLimit[r], Estimate[c])
              /\ hold' = [hold EXCEPT ![r] = nextId]
              /\ left' = [left EXCEPT ![r] = cands \ (skipped \cup {c})]
              /\ pc' = [pc EXCEPT ![r] = "creating"]
              /\ UNCHANGED <<outcome, answer, guard>>
        \/ /\ cands = rejected
           /\ Answer(r, "failed", NoTask)
           /\ holds' = hs
           /\ hold' = [hold EXCEPT ![r] = 0]
           /\ left' = [left EXCEPT ![r] = {}]
           /\ UNCHANGED <<nextId, day, spending>>

(* Mutant: a failed attempt keeps its hold.                                *)
AttemptFailsKeepingHold(r, retryable) ==
    /\ NextAttempt(holds, r, IF retryable THEN left[r] ELSE {})
    /\ UNCHANGED byTask
    /\ job' = [job EXCEPT ![r] = NoTask]

(* execute_plan's except branch: the hold is released, and a retryable     *)
(* error moves on to the next candidate.                                   *)
AttemptFails(r, retryable) ==
    /\ NextAttempt(HoldsReleased(hold[r]), r, IF retryable THEN left[r] ELSE {})
    /\ byTask' = IndexReleased(hold[r])
    /\ job' = [job EXCEPT ![r] = NoTask]

-----------------------------------------------------------------------------
(* The supervisor.                                                         *)

(* settlement(): the cost the provider reports, else the estimate held (an *)
(* unpriced model held nothing and is charged nothing).                    *)
ReportedCosts == Costs \cup {Unpriced}
ActualCost(h, c) == IF c = Unpriced THEN holds[h].amount ELSE c

(* Mutant: a failed task is charged like a succeeded one.                  *)
SettleTaskAlways(h, t, status, c, idx) ==
    /\ holds' = Without(holds, h)
    /\ byTask' = idx
    /\ Charge(h, ActualCost(h, c))
    /\ charged' = [charged EXCEPT ![t] = @ + 1]
    /\ UNCHANGED <<nextId, day>>

(* Mutant: a task that failed is not settled.                              *)
SettleTaskSucceeded(h, t, status, c, idx) ==
    /\ IF status = "succeeded" /\ h \in DOMAIN holds
       THEN /\ holds' = Without(holds, h)
            /\ byTask' = idx
            /\ Charge(h, ActualCost(h, c))
            /\ charged' = [charged EXCEPT ![t] = @ + 1]
       ELSE UNCHANGED <<holds, byTask, spending, charged>>
    /\ UNCHANGED <<nextId, day>>

(* The hold h of task t is settled, and the index is left at idx.          *)
SettleTask(h, t, status, c, idx) ==
    /\ holds' = Without(holds, h)
    /\ byTask' = idx
    /\ IF status = "succeeded" /\ h \in DOMAIN holds
       THEN /\ Charge(h, ActualCost(h, c))
            /\ charged' = [charged EXCEPT ![t] = @ + 1]
       ELSE UNCHANGED <<spending, charged>>
    /\ UNCHANGED <<nextId, day>>

(* _GenerationService._start_monitor and AsyncTaskSupervisor.start, for    *)
(* the task of r's attempt, bound just now or, after a sync wait, earlier. *)
(* A task that is terminal already is settled on the spot, and one that is *)
(* registered already is left alone.                                       *)
StartMonitor(r, t, status, c) ==
    /\ ~closed
    /\ entry' = IF entry[t] = "none" THEN [entry EXCEPT ![t] = status] ELSE entry
    /\ pc' = [pc EXCEPT ![r] = "leaving"]
    /\ IF status = "running" \/ entry[t] # "none"
       THEN /\ holds' = [holds EXCEPT ![hold[r]].task = t]
            /\ byTask' = [byTask EXCEPT ![t] = hold[r]]
            /\ UNCHANGED <<nextId, day, spending, charged>>
       ELSE SettleTask(hold[r], t, status, c, [byTask EXCEPT ![t] = 0])
    /\ UNCHANGED <<outcome, answer, hold, left, job, guard>>

Statuses == {"running", "succeeded", "failed"}

-----------------------------------------------------------------------------
(* The steps of a request.                                                 *)

Arrive(r) ==
    /\ pc[r] = "idle"
    /\ pc' = [pc EXCEPT ![r] = "queued"]
    /\ guard' = Join(r)
    /\ UNCHANGED <<outcome, answer, left, hold, job, records, taskVars, ledgerVars>>

(* find_idempotent_record finds one: replay it, or 409.                    *)
Replay(r) ==
    /\ pc[r] = "queued"
    /\ Owns(r)
    /\ RecordOf(r) # NoRecord
    /\ IF RecordOf(r).body = Body[r]
       THEN Answer(r, "replayed", RecordOf(r).task)
       ELSE Answer(r, "conflict", NoTask)
    /\ UNCHANGED <<left, hold, job, records, taskVars, ledgerVars>>

(* plan_route: no candidate left is an error.                              *)
Plan(r) ==
    /\ pc[r] = "queued"
    /\ Owns(r)
    /\ RecordOf(r) = NoRecord
    /\ IF Admissible(r) = {}
       THEN /\ Answer(r, "failed", NoTask)
            /\ UNCHANGED left
       ELSE /\ pc' = [pc EXCEPT ![r] = "routing"]
            /\ left' = [left EXCEPT ![r] = Admissible(r)]
            /\ UNCHANGED <<outcome, answer, guard>>
    /\ UNCHANGED <<hold, job, records, taskVars, ledgerVars>>

(* PluginRuntime.route_plan returns, and the first attempt is held.        *)
RouteResolved(r) ==
    /\ pc[r] = "routing"
    /\ \E chosen \in IF RouteHooks THEN SUBSET left[r] ELSE {left[r]} :
           NextAttempt(holds, r, chosen)
    /\ UNCHANGED <<byTask, job, records, taskVars>>

(* The provider takes the create call, whether or not its answer arrives.  *)
ProviderAccepts(r) ==
    /\ pc[r] = "creating"
    /\ job[r] = NoTask
    /\ \E t \in Tasks : /\ UniqueTasks => t \notin made
                        /\ job' = [job EXCEPT ![r] = t]
                        /\ made' = made \cup {t}
    /\ UNCHANGED <<pc, outcome, answer, left, hold, storeVars, bound, entry,
                   errors, closed, charged, ledgerVars>>

(* Mutant: the task of a create that waits is observed from the start.     *)
CreateAnsweredMonitored(r) ==
    /\ pc[r] = "creating"
    /\ job[r] # NoTask
    /\ bound' = [bound EXCEPT ![job[r]] = r]
    /\ IF r \in SyncWait
       THEN /\ pc' = [pc EXCEPT ![r] = "syncing"]
            /\ Bind(hold[r], job[r])
            /\ entry' = [entry EXCEPT ![job[r]] = "running"]
            /\ UNCHANGED <<outcome, answer, left, hold, job, guard, charged>>
       ELSE \/ \E status \in Statuses, c \in ReportedCosts :
                  StartMonitor(r, job[r], status, c)
            \/ closed /\ AttemptFails(r, TRUE) /\ UNCHANGED <<entry, charged>>
    /\ UNCHANGED <<records, made, errors, closed>>

(* Its answer arrives: accept() binds the hold, and the task is handed to  *)
(* the sync wait or to the supervisor.  A closed supervisor raises, which  *)
(* execute_plan takes for a failed attempt.                                *)
CreateAnswered(r) ==
    /\ pc[r] = "creating"
    /\ job[r] # NoTask
    /\ bound' = [bound EXCEPT ![job[r]] = r]
    /\ IF r \in SyncWait
       THEN /\ pc' = [pc EXCEPT ![r] = "syncing"]
            /\ Bind(hold[r], job[r])
            /\ UNCHANGED <<outcome, answer, left, hold, job, guard, entry, charged>>
       ELSE \/ \E status \in Statuses, c \in ReportedCosts :
                  StartMonitor(r, job[r], status, c)
            \/ closed /\ AttemptFails(r, TRUE) /\ UNCHANGED <<entry, charged>>
    /\ UNCHANGED <<records, made, errors, closed>>

(* The create call raises, retryably or not; the provider may have taken   *)
(* it all the same (a timeout).                                            *)
CreateFails(r) ==
    /\ pc[r] = "creating"
    /\ \E retryable \in BOOLEAN : AttemptFails(r, retryable)
    /\ UNCHANGED <<records, taskVars>>

(* _await_or_timeout ends: the task is terminal, or the wait timed out.    *)
SyncDone(r) ==
    /\ pc[r] = "syncing"
    /\ \/ \E status \in Statuses, c \in ReportedCosts :
             StartMonitor(r, job[r], status, c)
       \/ closed /\ AttemptFails(r, TRUE) /\ UNCHANGED <<entry, charged>>
    /\ UNCHANGED <<records, made, bound, errors, closed>>

(* A poll of the sync wait raises: the attempt failed.                     *)
SyncPollFails(r) ==
    /\ pc[r] = "syncing"
    /\ \E retryable \in BOOLEAN : AttemptFails(r, retryable)
    /\ UNCHANGED <<records, taskVars>>

(* Mutant: the record is not stored.                                       *)
CreatedUnrecorded(r) ==
    /\ pc[r] = "leaving"
    /\ Answer(r, "created", job[r])
    /\ UNCHANGED <<left, hold, job, records, taskVars, ledgerVars>>

(* The leases are released, the record is stored, the handler answers.     *)
Created(r) ==
    /\ pc[r] = "leaving"
    /\ Answer(r, "created", job[r])
    /\ records' = IF IdemScope[r] = NoIdem THEN records
                  ELSE [records EXCEPT ![IdemScope[r]] =
                           [task |-> job[r], body |-> Body[r]]]
    /\ UNCHANGED <<left, hold, job, taskVars, ledgerVars>>

(* CancelledError is no Exception: neither execute_plan nor the services   *)
(* handle it.  Only the guard is given up.                                 *)
Cancel(r) ==
    /\ r \in MayCancel
    /\ pc[r] \notin {"idle", "answered"}
    /\ Answer(r, "cancelled", NoTask)
    /\ UNCHANGED <<left, hold, job, records, taskVars, ledgerVars>>

-----------------------------------------------------------------------------
(* The steps of a monitor, and shutdown.                                   *)

Finish(t, status, c) ==
    /\ entry' = [entry EXCEPT ![t] = status]
    /\ SettleTask(byTask[t], t, status, c, [byTask EXCEPT ![t] = 0])
    /\ UNCHANGED <<requestVars, storeVars, made, bound, closed>>

Polling(t) == entry[t] = "running" /\ ~closed

PollRunning(t) ==
    /\ Polling(t)
    /\ errors[t] # 0
    /\ errors' = [errors EXCEPT ![t] = 0]
    /\ UNCHANGED <<requestVars, storeVars, made, bound, entry, closed, charged,
                   ledgerVars>>

PollTerminal(t) ==
    /\ Polling(t)
    /\ \E status \in Statuses \ {"running"}, c \in ReportedCosts :
           Finish(t, status, c)
    /\ errors' = [errors EXCEPT ![t] = 0]

PollError(t) ==
    /\ Polling(t)
    /\ errors' = [errors EXCEPT ![t] = @ + 1]
    /\ IF errors[t] + 1 >= MaxErrors
       THEN Finish(t, "failed", Unpriced)
       ELSE UNCHANGED <<requestVars, storeVars, made, bound, entry, closed,
                        charged, ledgerVars>>

(* AsyncTaskSupervisor.aclose: no monitor runs, or is started, any more.   *)
Close ==
    /\ MayClose
    /\ ~closed
    /\ closed' = TRUE
    /\ UNCHANGED <<requestVars, storeVars, made, bound, entry, errors, charged,
                   ledgerVars>>

-----------------------------------------------------------------------------
Init ==
    /\ LedgerInit
    /\ pc = [r \in Requests |-> "idle"]
    /\ outcome = [r \in Requests |-> "none"]
    /\ answer = [r \in Requests |-> NoTask]
    /\ guard = [s \in IdemScopes |-> <<>>]
    /\ records = [s \in IdemScopes |-> NoRecord]
    /\ left = [r \in Requests |-> {}]
    /\ hold = [r \in Requests |-> 0]
    /\ job = [r \in Requests |-> NoTask]
    /\ made = {}
    /\ bound = [t \in Tasks |-> NoRequest]
    /\ entry = [t \in Tasks |-> "none"]
    /\ errors = [t \in Tasks |-> 0]
    /\ closed = FALSE
    /\ charged = [t \in Tasks |-> 0]

(* What the gateway and the providers it calls owe a request: every await  *)
(* ends.                                                                   *)
Progress(r) ==
    \/ Replay(r)
    \/ Plan(r)
    \/ RouteResolved(r)
    \/ ProviderAccepts(r)
    \/ CreateAnswered(r)
    \/ CreateFails(r)
    \/ SyncDone(r)
    \/ SyncPollFails(r)
    \/ Created(r)

Poll(t) == PollRunning(t) \/ PollTerminal(t) \/ PollError(t)

Next ==
    \/ \E r \in Requests : Arrive(r) \/ Progress(r) \/ Cancel(r)
    \/ \E t \in Tasks : Poll(t)
    \/ Close

Spec == Init /\ [][Next]_vars

FairSpec ==
    /\ Spec
    /\ \A r \in Requests : WF_vars(Progress(r))
    /\ \A t \in Tasks : WF_vars(PollTerminal(t))

-----------------------------------------------------------------------------
(* Properties.                                                             *)

Stages == {"idle", "queued", "routing", "creating", "syncing", "leaving",
           "answered"}
Outcomes == {"none", "created", "replayed", "conflict", "failed", "cancelled"}
Bodies == {Body[r] : r \in Requests}

(* The variables of a create have their types.                             *)
GenerationTypeOK ==
    /\ pc \in [Requests -> Stages]
    /\ outcome \in [Requests -> Outcomes]
    /\ answer \in [Requests -> Tasks \cup {NoTask}]
    /\ guard \in [IdemScopes -> Seq(Requests)]
    /\ records \in [IdemScopes ->
                       [task: Tasks, body: Bodies] \cup {NoRecord}]
    /\ left \in [Requests -> SUBSET DOMAIN Estimate]
    /\ hold \in [Requests -> 0 .. MaxHolds]
    /\ job \in [Requests -> Tasks \cup {NoTask}]
    /\ made \subseteq Tasks
    /\ bound \in [Tasks -> Requests \cup {NoRequest}]
    /\ entry \in [Tasks -> {"none"} \cup Statuses]
    /\ errors \in [Tasks -> 0 .. MaxErrors]
    /\ closed \in BOOLEAN
    /\ charged \in [Tasks -> Nat]

InFlight(r) == pc[r] \in {"creating", "syncing"}
PastGuard(r) == pc[r] \in {"routing", "creating", "syncing", "leaving"}

(* The guard of a scope holds the creates that are under way under its     *)
(* key, each once.  Only its head is past the wait, and its scope has no   *)
(* record for as long as it is.                                            *)
GuardSound ==
    /\ \A s \in IdemScopes : \A i, j \in 1 .. Len(guard[s]) :
           guard[s][i] = guard[s][j] => i = j
    /\ \A r \in Requests : IdemScope[r] # NoIdem =>
           (pc[r] \notin {"idle", "answered"} <=>
               \E i \in 1 .. Len(guard[IdemScope[r]]) :
                   guard[IdemScope[r]][i] = r)
    /\ \A r \in Requests :
           PastGuard(r) => Owns(r) /\ RecordOf(r) = NoRecord

(* An attempt in flight has a hold of its own, which carries the task once *)
(* the provider's acceptance is known and not before.                      *)
AttemptsSound ==
    /\ \A r \in Requests : hold[r] < nextId
    /\ \A r, q \in Requests : hold[r] = hold[q] /\ hold[r] # 0 => r = q
    /\ \A r \in Requests : pc[r] \in {"idle", "queued", "routing"} =>
           hold[r] = 0 /\ job[r] = NoTask
    /\ \A r \in Requests : InFlight(r) => hold[r] \in DOMAIN holds
    /\ \A r \in Requests : pc[r] = "creating" =>
           /\ holds[hold[r]].task = NoTask
           /\ job[r] # NoTask => bound[job[r]] = NoRequest
    /\ \A r \in Requests : pc[r] = "syncing" =>
           /\ job[r] # NoTask
           /\ holds[hold[r]].task = job[r]
           /\ entry[job[r]] = "none"
    /\ \A r \in Requests : pc[r] = "leaving" => job[r] # NoTask

(* A task belongs to one create, and is observed, indexed or charged only  *)
(* after it was accepted for it.                                           *)
TasksSound ==
    /\ \A r \in Requests : job[r] # NoTask => job[r] \in made
    /\ \A r, q \in Requests : job[r] = job[q] /\ job[r] # NoTask => r = q
    /\ \A t \in Tasks : bound[t] # NoRequest => t \in made
    /\ \A t \in Tasks :
           entry[t] # "none" \/ byTask[t] # 0 => bound[t] # NoRequest
    /\ \A t \in Tasks :
           entry[t] \in {"none", "running"} => errors[t] < MaxErrors
    /\ closed => MayClose

(* A create that is answered stays so, and every answer and every record   *)
(* names the task of a create that was answered "created".                 *)
AnswersSound ==
    /\ \A r \in Requests : outcome[r] = "none" <=> pc[r] # "answered"
    /\ \A r \in Requests : answer[r] # NoTask =>
           \E q \in Requests : outcome[q] = "created" /\ job[q] = answer[r]
    /\ \A s \in IdemScopes : records[s] # NoRecord =>
           \E q \in Requests : outcome[q] = "created" /\ job[q] = records[s].task

(* Unless the gateway closes or the create waits for its result, the task  *)
(* accepted for a create is the one it ends with, and unless it may be     *)
(* cancelled, the one on record.                                           *)
AcceptedLast ==
    \A t \in Tasks, r \in Requests \ SyncWait :
        bound[t] = r /\ ~closed =>
            /\ pc[r] \in {"leaving", "answered"}
            /\ job[r] = t
            /\ \/ IdemScope[r] = NoIdem
               \/ r \in MayCancel
               \/ pc[r] = "leaving"
               \/ RecordOf(r).task = t

(* Every reservation has somebody who will end it: the create call that is *)
(* still awaited or a monitor; or it belongs to a create that was          *)
(* cancelled in the middle of its attempt.                                 *)
HoldsOwned ==
    \A h \in DOMAIN holds :
        \/ \E r \in Requests : hold[r] = h /\ InFlight(r)
        \/ \E t \in Tasks : byTask[t] = h /\ entry[t] = "running"
        \/ \E r \in Requests : hold[r] = h /\ outcome[r] = "cancelled"

(* Every task under observation still has its reservation: no release or   *)
(* retry takes it away while the provider works.                           *)
ObservedTasksHeld ==
    \A t \in Tasks : entry[t] = "running" => byTask[t] # 0

(* The inductive invariant: the ledger's, the types, and that reservations *)
(* and their owners belong together: no hold without somebody to end it,   *)
(* no observed task without its hold.                                      *)
GenerationInv ==
    /\ LedgerInv
    /\ GenerationTypeOK
    /\ GuardSound
    /\ AttemptsSound
    /\ TasksSound
    /\ AnswersSound
    /\ AcceptedLast
    /\ HoldsOwned
    /\ ObservedTasksHeld

(* A task is charged once if it succeeded under observation, and never     *)
(* otherwise.                                                              *)
ChargedOnce ==
    \A t \in Tasks : charged[t] = IF entry[t] = "succeeded" THEN 1 ELSE 0

(* A create is paid for once and observed once, whatever happens to its    *)
(* attempts: only the task a create ends with, or was cancelled with, is   *)
(* under observation, holds a reservation or was charged.  A task that a   *)
(* provider took in a call that timed out, one whose sync wait failed and  *)
(* one that a closing supervisor refused cost the client nothing, also     *)
(* when the fallback after them is charged (execute_plan's except branch,  *)
(* _start_monitor).                                                        *)
OneGenerationPaid ==
    \A t \in Tasks :
        (entry[t] # "none" \/ byTask[t] # 0 \/ charged[t] # 0) =>
            \E r \in Requests :
                job[r] = t /\ outcome[r] \in {"none", "created", "cancelled"}

(* A retry under an idempotency key starts no generation after one that    *)
(* was accepted.                                                           *)
NoSecondGeneration ==
    \A t, u \in Tasks :
        /\ bound[t] # NoRequest
        /\ bound[u] # NoRequest
        /\ IdemScope[bound[t]] # NoIdem
        /\ IdemScope[bound[t]] = IdemScope[bound[u]]
        => t = u

(* Every create of a run is one of the abstract creates: at most one task  *)
(* on record per scope, and replays answer with it.                        *)
Idempotent == INSTANCE IdempotentCreate
IdempotentCreates == Idempotent!Spec

(* Every reservation bound to a task ends while the gateway runs, also     *)
(* when other creates fail, fall back or are cancelled.  (A create that is *)
(* cancelled in its sync wait leaves its reservation: see HoldsOwned.      *)
(* Creates that wait are not in MayCancel here.)                           *)
ReservationsEnd ==
    \A h \in 1 .. MaxHolds :
        (h \in DOMAIN holds /\ holds[h].task # NoTask)
            ~> (h \notin DOMAIN holds \/ closed)

(* Every create that arrived is answered: no waiter of a guard starves,    *)
(* whoever of the others fails or is cancelled.                            *)
EveryCreateAnswered ==
    \A r \in Requests : pc[r] = "queued" ~> pc[r] = "answered"
=============================================================================
