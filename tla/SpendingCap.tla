----------------------------- MODULE SpendingCap -----------------------------
(***************************************************************************)
(* What a budget promises, without the ledger that keeps it: one account   *)
(* with a cap, an amount reserved for work that is running and an amount   *)
(* spent on work that is finished.                                         *)
(*                                                                         *)
(*   - The reserved amount only grows into room the cap still has.         *)
(*   - Spending is never undone.                                           *)
(*   - No step both reserves more and spends more.                         *)
(*                                                                         *)
(* billing.py's CostLedger keeps one such account for every API key and    *)
(* budget period, and one for every client scope of a key.                 *)
(***************************************************************************)
EXTENDS Integers

CONSTANTS
    Cap,        \* the account's limit, or NoLimit
    NoLimit     \* no cap applies to this account

VARIABLES
    reserved,   \* held for tasks that have not finished
    spent       \* charged for tasks that have

account == <<reserved, spent>>

Init ==
    /\ reserved = 0
    /\ spent = 0

(* A task is admitted (or replaces a task given up in the same step).      *)
Reserve ==
    /\ reserved' > reserved
    /\ spent' = spent
    /\ Cap # NoLimit => spent + reserved' <= Cap

(* A reservation ends, at no cost or at some cost.                         *)
Finish ==
    /\ reserved' <= reserved
    /\ spent' >= spent

Next == Reserve \/ Finish

Spec == Init /\ [][Next]_account
=============================================================================
