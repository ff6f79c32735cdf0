-------------------------- MODULE IdempotentCreate --------------------------
(***************************************************************************)
(* What an Idempotency-Key promises to the clients of a create, without    *)
(* the guard, the retries and the providers behind it: of the creates of a *)
(* scope at most one creates the task on record, once, and every later one *)
(* with the same body is answered with that very task.                     *)
(***************************************************************************)
CONSTANTS Requests, IdemScopes, NoIdem, IdemScope, Body, Tasks, NoTask

VARIABLES
    outcome,    \* how a create ended, "none" while it runs
    answer,     \* the task it answered with
    records     \* the task and body on record for a scope

NoRecord == [task |-> NoTask, body |-> NoTask]

Record(r) ==
    IF IdemScope[r] = NoIdem THEN NoRecord ELSE records[IdemScope[r]]

Ends(r, how, t) ==
    /\ outcome[r] = "none"
    /\ outcome' = [outcome EXCEPT ![r] = how]
    /\ answer' = [answer EXCEPT ![r] = t]

Init ==
    /\ outcome = [r \in Requests |-> "none"]
    /\ answer = [r \in Requests |-> NoTask]
    /\ records = [s \in IdemScopes |-> NoRecord]

Create(r) ==
    /\ Record(r) = NoRecord
    /\ \E t \in Tasks :
          /\ Ends(r, "created", t)
          /\ \A q \in Requests : answer[q] # t
          /\ records' = [s \in IdemScopes |->
                            IF s = IdemScope[r]
                            THEN [task |-> t, body |-> Body[r]]
                            ELSE records[s]]

Replay(r) ==
    /\ Record(r) # NoRecord
    /\ Record(r).body = Body[r]
    /\ Ends(r, "replayed", Record(r).task)
    /\ UNCHANGED records

Conflict(r) ==
    /\ Record(r) # NoRecord
    /\ Record(r).body # Body[r]
    /\ Ends(r, "conflict", NoTask)
    /\ UNCHANGED records

(* A create only fails where none has succeeded; it may be cancelled any   *)
(* time.  Neither leaves a record.                                         *)
GiveUp(r) ==
    /\ \/ Record(r) = NoRecord /\ Ends(r, "failed", NoTask)
       \/ Ends(r, "cancelled", NoTask)
    /\ UNCHANGED records

Next == \E r \in Requests : Create(r) \/ Replay(r) \/ Conflict(r) \/ GiveUp(r)

Spec == Init /\ [][Next]_<<outcome, answer, records>>
=============================================================================
