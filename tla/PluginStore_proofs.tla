-------------------------- MODULE PluginStore_proofs --------------------------
(***************************************************************************)
(* Theorems about PluginStore, for any number of requests, settings,       *)
(* commits, edits and deaths of the process, wherever requests are         *)
(* cancelled.                                                              *)
(*                                                                         *)
(* Kept is the inductive invariant.  What the store promises between its   *)
(* operations holds because, at each step of one, the original package is  *)
(* still somewhere (OriginalKept) and what is moved in its place is what   *)
(* was scanned (OperationSound).                                           *)
(***************************************************************************)
EXTENDS PluginStore, TLAPS

Kept == TypeOK /\ OperationSound /\ OriginalKept /\ RequestsCurrent

USE DEF Contents, Entries, Requests, Operations

-----------------------------------------------------------------------------
(* The operations, by action; first the three that need more than a look.  *)

(* An operation that is refused, or fails to fetch, ends as it began.      *)
LEMMA EndingEarly ==
    ASSUME Kept, up, op.stage = "begun", Ends,
           revision' \in {revision, revision + 1}, error' \in BOOLEAN,
           UNCHANGED <<up, record, active, attempted, diskVars, worldVars, ghosts>>
    PROVE  Kept'
<1> USE StoreAssumption, NoneAssumption DEF Kept, NoOp, Ends, Kind, Fetches, Stages,
         memoryVars, diskVars, clientVars, worldVars, ghosts
<1>1. TypeOK'
  BY DEF TypeOK
<1>2. OperationSound'
  BY DEF TypeOK, OperationSound
<1>3. OriginalKept'
  BY DEF TypeOK, OperationSound, OriginalKept, Original, Matches
<1>4. RequestsCurrent'
  BY DEF TypeOK, RequestsCurrent
<1> QED  BY <1>1, <1>2, <1>3, <1>4

(* What is scanned is what will be staged, or the package in place.        *)
LEMMA BeginStep ==
    ASSUME Kept, Begin
    PROVE  Kept'
<1> USE StoreAssumption, NoneAssumption DEF Kept, NoOp, Ends, Kind, Fetches, Wanted, Loads,
         Stages, Kinds, memoryVars, diskVars, clientVars, worldVars, ghosts
<1>0. /\ up /\ op.stage = "begun"
      /\ UNCHANGED <<up, record, active, diskVars, worldVars, ghosts>>
  BY DEF Begin
<1>1. CASE /\ Ends /\ UNCHANGED attempted
           /\ revision' \in {revision, revision + 1} /\ error' \in BOOLEAN
  BY <1>0, <1>1, EndingEarly
<1>2. CASE /\ ~Refused /\ Kind = "reload" /\ package # None
           /\ attempted' = package
           /\ op' = [op EXCEPT !.stage = "loading", !.scanned = package]
           /\ UNCHANGED <<error, clientVars, revision>>
  <2>1. TypeOK'
    BY <1>0, <1>2 DEF TypeOK
  <2>2. OperationSound'
    BY <1>0, <1>2 DEF TypeOK, OperationSound
  <2>3. OriginalKept'
    BY <1>0, <1>2 DEF TypeOK, OperationSound, OriginalKept, Original, Matches
  <2>4. RequestsCurrent'
    BY <1>0, <1>2 DEF TypeOK, RequestsCurrent
  <2> QED  BY <2>1, <2>2, <2>3, <2>4
<1>3. CASE /\ ~Refused /\ Kind # "reload"
           /\ LET new == IF Fetches THEN [commit |-> remote, text |-> 0] ELSE package
              IN  op' = [op EXCEPT !.stage = IF Loads THEN "loading" ELSE "preparing",
                                   !.staged = IF Fetches THEN new ELSE None,
                                   !.scanned = new]
           /\ UNCHANGED <<revision, attempted, error, clientVars>>
  <2> DEFINE new == IF Fetches THEN [commit |-> remote, text |-> 0] ELSE package
             next == IF Loads THEN "loading" ELSE "preparing"
             staged == IF Fetches THEN new ELSE None
  <2>1. /\ new \in Contents /\ staged \in Contents
        /\ Fetches => new \in Packages /\ staged # None
        /\ next \in {"loading", "preparing"}
    BY DEF TypeOK, Packages
  <2>2. op' = [op EXCEPT !.stage = next, !.staged = staged, !.scanned = new]
    BY <1>3
  <2>3. /\ op'.stage = next /\ op'.staged = staged /\ op'.scanned = new
        /\ op'.backup = None /\ op'.loaded = None
        /\ op' \in Operations
    <3> HIDE DEF new, next, staged
    <3>1. op \in Operations
          /\ op.backup = None /\ op.loaded = None
      BY <1>0 DEF TypeOK, OperationSound
    <3> QED  BY <2>1, <2>2, <3>1
  <2>4. next = "loading" => new # None
    BY <1>3, <2>1 DEF Refused, TypeOK
  <2>5. Kind = "put" /\ record = None => new # None /\ new = package
    BY <1>3 DEF Refused
  <2>6. Fetches => staged = new
    OBVIOUS
  <2>7. ~Fetches => staged = None
    OBVIOUS
  <2>8. UNCHANGED <<Kind, Fetches>>
    BY <1>3
  <2> HIDE DEF new, next, staged
  <2>9. TypeOK'
    BY <1>0, <1>3, <2>1, <2>3 DEF TypeOK
  <2>10. OperationSound'
    <3> HIDE DEF Fetches, Kind
    <3> QED  BY <1>0, <1>3, <2>1, <2>3, <2>4, <2>5, <2>6, <2>7, <2>8 DEF OperationSound
  <2>11. OriginalKept'
    BY <1>0, <1>3, <2>1, <2>3 DEF TypeOK, OperationSound, OriginalKept, Original, Matches
  <2>12. RequestsCurrent'
    BY <1>0, <1>3, <2>1, <2>3 DEF TypeOK, RequestsCurrent
  <2> QED  BY <2>9, <2>10, <2>11, <2>12
<1> QED  BY <1>0, <1>1, <1>2, <1>3 DEF Begin, BeginReload, TypeOK

(* The record that is written is that of the package in place; when it is  *)
(* not written the original is the backup.                                 *)
LEMMA PersistStep ==
    ASSUME Kept, Persist
    PROVE  Kept'
<1> USE StoreAssumption, NoneAssumption DEF Kept, NoOp, To, Kind, Fetches, Wanted,
         Stages, Kinds, memoryVars, diskVars, clientVars, worldVars, ghosts
<1>1. CASE To("cleanup") /\ UNCHANGED saved
  <2>0. /\ UNCHANGED <<up, memoryVars, package, clientVars, worldVars, ghosts>>
        /\ up /\ op.stage = IF Fetches THEN "replaced" ELSE "preparing"
    BY DEF Persist
  <2>1. TypeOK'
    BY <1>1, <2>0 DEF TypeOK
  <2>2. OperationSound'
    BY <1>1, <2>0 DEF TypeOK, OperationSound
  <2>3. OriginalKept'
    BY <1>1, <2>0 DEF TypeOK, OperationSound, OriginalKept, Original, Matches
  <2>4. RequestsCurrent'
    BY <1>1, <2>0 DEF TypeOK, RequestsCurrent
  <2> QED  BY <2>1, <2>2, <2>3, <2>4
<1>2. CASE saved' = NewRecord /\ To("saved")
  <2>0. /\ UNCHANGED <<up, memoryVars, package, clientVars, worldVars, ghosts>>
        /\ op.stage = IF Fetches THEN "replaced" ELSE "preparing"
        /\ up /\ Kind # "reload"
    BY DEF Persist
  <2>1. holder \in Clients /\ Kind \in Kinds /\ Wanted \in Settings
    BY <2>0 DEF TypeOK
  <2>2. /\ Kind = "delete" => NewRecord = None
        /\ Kind # "delete" => NewRecord \in Records
        /\ Fetches => package # None /\ package.commit = NewRecord.commit
        /\ Kind = "put" /\ record = None => package # None /\ package.commit = NewRecord.commit
        /\ Kind = "put" /\ record # None => NewRecord.commit = record.commit
    <3>1. CASE Kind = "delete"
      BY <3>1 DEF NewRecord
    <3>2. CASE Kind # "delete" /\ (Fetches \/ record = None)
      <4>1. op.scanned \in Packages /\ package # None /\ package.commit = op.scanned.commit
        BY <2>0, <2>1, <3>2 DEF TypeOK, OperationSound
      <4>2. NewRecord = [options |-> Wanted, commit |-> op.scanned.commit]
        BY <3>2 DEF NewRecord
      <4> HIDE DEF Wanted, Kind
      <4>3. NewRecord \in Records /\ NewRecord.commit = op.scanned.commit
        BY <4>1, <4>2, <2>1 DEF Packages, Records
      <4> QED  BY <3>2, <4>1, <4>3
    <3>3. CASE Kind # "delete" /\ ~Fetches /\ record # None
      <4>1. record \in Records
        BY <3>3 DEF TypeOK
      <4>2. NewRecord = [options |-> Wanted, commit |-> record.commit]
        BY <3>3 DEF NewRecord
      <4> HIDE DEF Wanted, Kind
      <4>3. NewRecord \in Records /\ NewRecord.commit = record.commit
        BY <4>1, <4>2, <2>1 DEF Records
      <4> QED  BY <3>3, <4>3
    <3> QED  BY <3>1, <3>2, <3>3
  <2>3. saved = record
    BY <2>0 DEF OriginalKept
  <2>4. Original = IF Fetches THEN op.backup ELSE package
    BY <2>0 DEF Original
  <2>5. /\ op'.stage = "saved" /\ op'.staged = op.staged /\ op'.backup = op.backup
        /\ op'.scanned = op.scanned /\ op'.loaded = op.loaded
        /\ op' \in Operations
    BY <1>2 DEF TypeOK
  <2>6. UNCHANGED <<Kind, Fetches, Wanted>>
    BY <2>0
  <2>7. Original' = package
    BY <2>0, <2>5 DEF Original
  <2>8. TypeOK'
    BY <1>2, <2>0, <2>2, <2>5 DEF TypeOK
  <2>9. OperationSound'
    <3> HIDE DEF Wanted, Kind
    <3> QED  BY <1>2, <2>0, <2>2, <2>5, <2>6 DEF OperationSound
  <2>10. OriginalKept'
    <3>1. CASE Kind = "delete"
      BY <1>2, <2>0, <2>2, <2>5, <2>6, <3>1 DEF OriginalKept
    <3>2. CASE Fetches \/ record = None
      <4> HIDE DEF Kind
      <4> QED  BY <1>2, <2>0, <2>1, <2>2, <2>5, <2>6, <2>7, <3>2 DEF OriginalKept, Matches, TypeOK
    <3>3. CASE Kind = "put" /\ record # None
      <4> HIDE DEF Kind
      <4>1. record \in Records /\ saved' # None /\ saved'.commit = saved.commit /\ ~Fetches
        BY <1>2, <2>2, <2>3, <3>3 DEF TypeOK
      <4> QED  BY <1>2, <2>0, <2>3, <2>4, <2>5, <2>6, <2>7, <3>3, <4>1 DEF OriginalKept, Matches
    <3> QED  BY <2>0, <2>1, <3>1, <3>2, <3>3
  <2>11. RequestsCurrent'
    BY <1>2, <2>0, <2>5 DEF TypeOK, RequestsCurrent
  <2> QED  BY <2>8, <2>9, <2>10, <2>11
<1> QED  BY <1>1, <1>2 DEF Persist

-----------------------------------------------------------------------------

(* A client reads the current record and revision.                         *)
LEMMA ReadStep ==
    ASSUME Kept, NEW c \in Clients, Read(c)
    PROVE  Kept'
<1> USE StoreAssumption, NoneAssumption DEF Kept, Read, NoOp, Kind, Fetches,
         memoryVars, diskVars, clientVars, worldVars, ghosts, Kinds
<1>1. TypeOK'
  BY DEF TypeOK, OperationSound
<1>2. OperationSound'
  BY DEF TypeOK, OperationSound, OriginalKept, RequestsCurrent
<1>3. OriginalKept'
  BY DEF TypeOK, OperationSound, OriginalKept, Original, Matches
<1>4. RequestsCurrent'
  BY DEF TypeOK, OriginalKept, RequestsCurrent
<1> QED  BY <1>1, <1>2, <1>3, <1>4

(* The options are looked up; a request that is current looks up the       *)
(* current ones.                                                           *)
LEMMA LookupStep ==
    ASSUME Kept, NEW c \in Clients, Lookup(c)
    PROVE  Kept'
<1> USE StoreAssumption, NoneAssumption DEF Kept, Lookup, NoOp, Kind, Fetches,
         memoryVars, diskVars, clientVars, worldVars, ghosts
<1>1. TypeOK'
  <2>1. record # None => record.options \in Settings
    BY DEF TypeOK, Records
  <2>2. client[c] \in Requests
    BY DEF TypeOK
  <2>3. client' \in [Clients -> Requests]
    BY <2>1, <2>2 DEF TypeOK
  <2> QED  BY <2>3 DEF TypeOK
<1>2. OperationSound'
  BY DEF TypeOK, OperationSound, OriginalKept, RequestsCurrent
<1>3. OriginalKept'
  BY DEF TypeOK, OperationSound, OriginalKept, Original, Matches
<1>4. RequestsCurrent'
  BY DEF TypeOK, OriginalKept, RequestsCurrent
<1> QED  BY <1>1, <1>2, <1>3, <1>4

(* Only a request whose revision is current gets the locks.                *)
LEMMA AcquireStep ==
    ASSUME Kept, NEW c \in Clients, Acquire(c)
    PROVE  Kept'
<1> USE StoreAssumption, NoneAssumption DEF Kept, Acquire, NoOp, Kind,
         Fetches, memoryVars, diskVars, clientVars, worldVars, ghosts, Stages
<1>1. TypeOK'
  BY DEF TypeOK, OperationSound
<1>2. OperationSound'
  BY DEF TypeOK, OperationSound, OriginalKept, RequestsCurrent
<1>3. OriginalKept'
  BY DEF TypeOK, OperationSound, OriginalKept, Original, Matches
<1>4. RequestsCurrent'
  BY DEF TypeOK, OriginalKept, RequestsCurrent
<1> QED  BY <1>1, <1>2, <1>3, <1>4

(* What is loaded was scanned before.                                      *)
LEMMA LoadStep ==
    ASSUME Kept, Load
    PROVE  Kept'
<1> USE StoreAssumption, NoneAssumption DEF Kept, Load, NoOp, Kind, Fetches,
         memoryVars, diskVars, clientVars, worldVars, ghosts, Source, Stages
<1>1. TypeOK'
  <2>1. Source \in Contents
    BY DEF TypeOK
  <2>2. op' = [op EXCEPT !.stage = "preparing", !.loaded = Source]
    OBVIOUS
  <2> HIDE DEF Source
  <2>3. op' \in Operations /\ op'.stage = "preparing"
    BY <2>1, <2>2 DEF TypeOK
  <2> QED  BY <2>3 DEF TypeOK
<1>2. OperationSound'
  BY DEF TypeOK, OperationSound, OriginalKept, RequestsCurrent
<1>3. OriginalKept'
  BY DEF TypeOK, OperationSound, OriginalKept, Original, Matches
<1>4. RequestsCurrent'
  BY DEF TypeOK, OriginalKept, RequestsCurrent
<1> QED  BY <1>1, <1>2, <1>3, <1>4

(* Nothing was moved: the original is the package in place.                *)
LEMMA LoadFailsStep ==
    ASSUME Kept, LoadFails
    PROVE  Kept'
<1> USE StoreAssumption, NoneAssumption DEF Kept, LoadFails, NoOp, To, Kind,
         Fetches, memoryVars, diskVars, clientVars, worldVars, ghosts, Stages
<1>1. TypeOK'
  BY DEF TypeOK, OperationSound
<1>2. OperationSound'
  BY DEF TypeOK, OperationSound, OriginalKept, RequestsCurrent
<1>3. OriginalKept'
  BY DEF TypeOK, OperationSound, OriginalKept, Original, Matches
<1>4. RequestsCurrent'
  BY DEF TypeOK, OriginalKept, RequestsCurrent
<1> QED  BY <1>1, <1>2, <1>3, <1>4

(* The original moves to the backup.                                       *)
LEMMA SetAsideStep ==
    ASSUME Kept, SetAside
    PROVE  Kept'
<1> USE StoreAssumption, NoneAssumption DEF Kept, SetAside, NoOp, Kind,
         Fetches, memoryVars, diskVars, clientVars, worldVars, ghosts, Stages
<1>1. TypeOK'
  BY DEF TypeOK, OperationSound
<1>2. OperationSound'
  BY DEF TypeOK, OperationSound, OriginalKept, RequestsCurrent
<1>3. OriginalKept'
  BY DEF TypeOK, OperationSound, OriginalKept, Original, Matches
<1>4. RequestsCurrent'
  BY DEF TypeOK, OriginalKept, RequestsCurrent
<1> QED  BY <1>1, <1>2, <1>3, <1>4

(* The original is the backup, what is in place is what was scanned.       *)
LEMMA ReplaceStep ==
    ASSUME Kept, Replace
    PROVE  Kept'
<1> USE StoreAssumption, NoneAssumption DEF Kept, Replace, NoOp, Kind,
         Fetches, memoryVars, diskVars, clientVars, worldVars, ghosts, Stages
<1>1. TypeOK'
  BY DEF TypeOK, OperationSound
<1>2. OperationSound'
  BY DEF TypeOK, OperationSound, OriginalKept, RequestsCurrent
<1>3. OriginalKept'
  BY DEF TypeOK, OperationSound, OriginalKept, Original, Matches
<1>4. RequestsCurrent'
  BY DEF TypeOK, OriginalKept, RequestsCurrent
<1> QED  BY <1>1, <1>2, <1>3, <1>4

(* Memory follows the state file, and with the new revision no request that*)
(* is under way is current any more.                                       *)
LEMMA CommitStep ==
    ASSUME Kept, Commit
    PROVE  Kept'
<1> USE StoreAssumption, NoneAssumption DEF Kept, Commit, NoOp, Kind, Fetches,
         memoryVars, diskVars, clientVars, worldVars, ghosts, NowMissed,
         Stages
<1>1. TypeOK'
  <2>1. NowMissed \subseteq Packages
    BY DEF TypeOK, OperationSound
  <2>2. attempted' \in Contents /\ error' \in BOOLEAN /\ revision' \in Nat
    BY DEF TypeOK
  <2> HIDE DEF NowMissed
  <2> QED  BY <2>1, <2>2 DEF TypeOK
<1>2. OperationSound'
  BY DEF TypeOK, OperationSound, OriginalKept, RequestsCurrent
<1>3. OriginalKept'
  BY DEF TypeOK, OperationSound, OriginalKept, Original, Matches
<1>4. RequestsCurrent'
  BY DEF TypeOK, OriginalKept, RequestsCurrent
<1> QED  BY <1>1, <1>2, <1>3, <1>4

(* A reload changes neither record nor package.                            *)
LEMMA PublishReloadStep ==
    ASSUME Kept, PublishReload
    PROVE  Kept'
<1> USE StoreAssumption, NoneAssumption DEF Kept, PublishReload, NoOp, Kind,
         Fetches, memoryVars, diskVars, clientVars, worldVars, ghosts,
         NowMissed, Stages
<1>1. TypeOK'
  BY DEF TypeOK, OperationSound
<1>2. OperationSound'
  BY DEF TypeOK, OperationSound, OriginalKept, RequestsCurrent
<1>3. OriginalKept'
  BY DEF TypeOK, OperationSound, OriginalKept, Original, Matches
<1>4. RequestsCurrent'
  BY DEF TypeOK, OriginalKept, RequestsCurrent
<1> QED  BY <1>1, <1>2, <1>3, <1>4

(* Where the record was written the package in place is the recorded one;  *)
(* of a deletion neither is left.                                          *)
LEMMA FinishStep ==
    ASSUME Kept, Finish
    PROVE  Kept'
<1> USE StoreAssumption, NoneAssumption DEF Kept, Finish, NoOp, Ends, Kind,
         Fetches, memoryVars, diskVars, clientVars, worldVars, ghosts, Stages
<1>1. TypeOK'
  <2>1. /\ attempted' \in Contents /\ package' \in Contents
        /\ revision' \in Nat /\ torn' \in BOOLEAN
    BY DEF TypeOK
  <2>2. client' \in [Clients -> Requests]
    BY DEF TypeOK
  <2> QED  BY <2>1, <2>2 DEF TypeOK
<1>2. OperationSound'
  <2>1. up' /\ op' = NoOp
    BY DEF OperationSound
  <2> QED  BY <2>1 DEF OperationSound
<1>3. OriginalKept'
  <2>1. up /\ record' = saved' /\ saved' = saved /\ strays' = strays
    BY DEF OperationSound, OriginalKept
  <2>2. Original' = package' /\ Original = package
    BY DEF Original
  <2>3. CASE Kind = "delete"
    BY <2>1, <2>2, <2>3 DEF OperationSound, OriginalKept, Matches
  <2>4. CASE Fetches
    BY <2>1, <2>2, <2>4 DEF OperationSound, OriginalKept, Matches
  <2>5. CASE Kind # "delete" /\ ~Fetches
    BY <2>1, <2>2, <2>5 DEF TypeOK, OriginalKept, Kinds
  <2> QED  BY <2>3, <2>4, <2>5
<1>4. RequestsCurrent'
  BY DEF TypeOK, OriginalKept, RequestsCurrent
<1> QED  BY <1>1, <1>2, <1>3, <1>4

(* What is put in place is the original.                                   *)
LEMMA CleanupStep ==
    ASSUME Kept, Cleanup
    PROVE  Kept'
<1> USE StoreAssumption, NoneAssumption DEF Kept, Cleanup, NoOp, Ends, Kind,
         Fetches, memoryVars, diskVars, clientVars, worldVars, ghosts, Stages
<1>1. TypeOK'
  BY DEF TypeOK, OperationSound
<1>2. OperationSound'
  BY DEF TypeOK, OperationSound, OriginalKept, RequestsCurrent
<1>3. OriginalKept'
  BY DEF TypeOK, OperationSound, OriginalKept, Original, Matches
<1>4. RequestsCurrent'
  BY DEF TypeOK, OriginalKept, RequestsCurrent
<1> QED  BY <1>1, <1>2, <1>3, <1>4

(* Nothing was moved.                                                      *)
LEMMA CancelStep ==
    ASSUME Kept, Cancel
    PROVE  Kept'
<1> USE StoreAssumption, NoneAssumption DEF Kept, Cancel, NoOp, To, Ends,
         Kind, Fetches, memoryVars, diskVars, clientVars, worldVars, ghosts,
         GivenUp, Stages
<1>1. TypeOK'
  BY DEF TypeOK, OperationSound
<1>2. OperationSound'
  BY DEF TypeOK, OperationSound, OriginalKept, RequestsCurrent
<1>3. OriginalKept'
  BY DEF TypeOK, OperationSound, OriginalKept, Original, Matches
<1>4. RequestsCurrent'
  BY DEF TypeOK, OriginalKept, RequestsCurrent
<1> QED  BY <1>1, <1>2, <1>3, <1>4

(* What was set aside stays in a hidden directory, and the store is torn if*)
(* package and record differ.                                              *)
LEMMA CancelCloseStep ==
    ASSUME Kept, CancelClose
    PROVE  Kept'
<1> USE StoreAssumption, NoneAssumption DEF Kept, CancelClose, NoOp, Ends,
         Kind, Fetches, memoryVars, diskVars, clientVars, worldVars, ghosts,
         GivenUp, Matches, Stages
<1>1. TypeOK'
  BY DEF TypeOK, OperationSound
<1>2. OperationSound'
  BY DEF TypeOK, OperationSound, OriginalKept, RequestsCurrent
<1>3. OriginalKept'
  BY DEF TypeOK, OperationSound, OriginalKept, Original, Matches
<1>4. RequestsCurrent'
  BY DEF TypeOK, OriginalKept, RequestsCurrent
<1> QED  BY <1>1, <1>2, <1>3, <1>4

(* What was staged and set aside stays in a hidden directory, and the store*)
(* is torn if package and record differ.                                   *)
LEMMA CrashStep ==
    ASSUME Kept, Crash
    PROVE  Kept'
<1> USE StoreAssumption, NoneAssumption DEF Kept, Crash, NoOp, Kind, Fetches,
         memoryVars, diskVars, clientVars, worldVars, ghosts, Matches, Stages
<1>1. TypeOK'
  <2>1. strays' \subseteq Packages /\ torn' \in BOOLEAN
    BY DEF TypeOK
  <2>2. client' \in [Clients -> Requests]
    BY DEF TypeOK
  <2> QED  BY <2>1, <2>2 DEF TypeOK
<1>2. OperationSound'
  BY DEF TypeOK, OperationSound, OriginalKept, RequestsCurrent
<1>3. OriginalKept'
  BY DEF TypeOK, OperationSound, OriginalKept, Original, Matches
<1>4. RequestsCurrent'
  BY DEF TypeOK, OriginalKept, RequestsCurrent
<1> QED  BY <1>1, <1>2, <1>3, <1>4

(* Memory is read from the state file, with a revision no client holds.    *)
LEMMA RestartStep ==
    ASSUME Kept, Restart
    PROVE  Kept'
<1> USE StoreAssumption, NoneAssumption DEF Kept, Restart, NoOp, Kind,
         Fetches, memoryVars, diskVars, clientVars, worldVars, ghosts, Stages
<1>1. TypeOK'
  <2>1. /\ attempted' \in Contents /\ active' \in Contents /\ error' \in BOOLEAN
        /\ revision' \in Nat /\ missed' \subseteq Packages
    BY DEF TypeOK
  <2>2. /\ holder' \in {Watcher, NoHolder} /\ op' \in Operations
        /\ (holder' = NoHolder) <=> (op'.stage = "idle")
    BY DEF TypeOK
  <2> QED  BY <2>1, <2>2 DEF TypeOK
<1>2. OperationSound'
  BY DEF TypeOK, OperationSound, OriginalKept, RequestsCurrent
<1>3. OriginalKept'
  BY DEF TypeOK, OperationSound, OriginalKept, Original, Matches
<1>4. RequestsCurrent'
  BY DEF TypeOK, OriginalKept, RequestsCurrent
<1> QED  BY <1>1, <1>2, <1>3, <1>4

(* The watcher takes the locks for a reload.                               *)
LEMMA WatchStep ==
    ASSUME Kept, Watch
    PROVE  Kept'
<1> USE StoreAssumption, NoneAssumption DEF Kept, Watch, NoOp, Kind, Fetches,
         memoryVars, diskVars, clientVars, worldVars, ghosts, Stages
<1>1. TypeOK'
  BY ZenonT(40) DEF TypeOK, OperationSound
<1>2. OperationSound'
  BY ZenonT(40) DEF TypeOK, OperationSound, OriginalKept, RequestsCurrent
<1>3. OriginalKept'
  BY DEF TypeOK, OperationSound, OriginalKept, Original, Matches
<1>4. RequestsCurrent'
  BY DEF TypeOK, OriginalKept, RequestsCurrent
<1> QED  BY <1>1, <1>2, <1>3, <1>4

(* An edited package keeps its commit.                                     *)
LEMMA EditStep ==
    ASSUME Kept, Edit
    PROVE  Kept'
<1> USE StoreAssumption, NoneAssumption DEF Kept, Edit, NoOp, Kind, Fetches,
         memoryVars, diskVars, clientVars, worldVars, ghosts
<1>1. /\ package \in Packages /\ package' \in Packages
      /\ package'.commit = package.commit
  <2>1. package \in Packages /\ package' = [package EXCEPT !.text = 1 - package.text]
    BY DEF TypeOK
  <2>2. package.text \in {0, 1} /\ 1 - package.text \in {0, 1}
    BY <2>1 DEF Packages
  <2> QED  BY <2>1, <2>2 DEF Packages
<1>2. /\ UNCHANGED <<up, record, saved, op, holder, client>>
      /\ UNCHANGED <<torn, strays, revision>>
  OBVIOUS
<1> HIDE DEF Edit
<1>3. TypeOK'
  <2> USE DEF Edit
  <2> QED  BY <1>1 DEF TypeOK
<1>4. OperationSound'
  BY <1>1, <1>2 DEF TypeOK, OperationSound
<1>5. OriginalKept'
  <2>1. \/ Original' = Original
        \/ Original' # None /\ Original # None /\ Original'.commit = Original.commit
    BY <1>1, <1>2 DEF Original
  <2>2. Matches(saved, Original) => Matches(saved', Original')
    BY <1>2, <2>1 DEF Matches
  <2>3. saved' # None => \E x \in ({Original'} \cup strays') \ {None} : x.commit = saved'.commit
    BY <1>2, <2>1 DEF OriginalKept
  <2> QED  BY <1>2, <2>2, <2>3 DEF OriginalKept
<1>6. RequestsCurrent'
  BY <1>2 DEF RequestsCurrent
<1> QED  BY <1>3, <1>4, <1>5, <1>6

(* The ref moves on, nothing here does.                                    *)
LEMMA PushStep ==
    ASSUME Kept, Push
    PROVE  Kept'
<1> USE StoreAssumption, NoneAssumption DEF Kept, Push, NoOp, Kind, Fetches,
         memoryVars, diskVars, clientVars, worldVars, ghosts
<1>1. TypeOK'
  BY DEF TypeOK, OperationSound
<1>2. OperationSound'
  BY DEF TypeOK, OperationSound, OriginalKept, RequestsCurrent
<1>3. OriginalKept'
  BY DEF TypeOK, OperationSound, OriginalKept, Original, Matches
<1>4. RequestsCurrent'
  BY DEF TypeOK, OriginalKept, RequestsCurrent
<1> QED  BY <1>1, <1>2, <1>3, <1>4

-----------------------------------------------------------------------------
(* What the store promises between its operations follows.                 *)
LEMMA KeptPackages == Kept => PackagesKept
<1> SUFFICES ASSUME Kept PROVE PackagesKept
  OBVIOUS
<1>1. RecordedOnDisk
  <2>1. Original \in {package, op.backup}
    BY DEF Original
  <2> QED  BY <2>1 DEF Kept, OriginalKept, RecordedOnDisk
<1>2. RecordedInPlace
  <2> SUFFICES ASSUME up, holder = NoHolder
               PROVE  record = saved /\ (torn \/ Matches(record, package))
    BY DEF RecordedInPlace
  <2>1. op.stage = "idle"
    BY DEF Kept, TypeOK
  <2> QED  BY <2>1 DEF Kept, OriginalKept, Original
<1> QED  BY <1>1, <1>2 DEF Kept, PackagesKept

(* Nothing installed, or an installed package that is running.             *)
LEMMA InitKept == Init => Kept
<1> SUFFICES ASSUME Init PROVE Kept
  OBVIOUS
<1> USE StoreAssumption, NoneAssumption DEF Init, NoOp, NotAsked, Kind, Fetches
<1>0. /\ record # None => record \in Records /\ record.commit = 1
      /\ record \in Entries /\ package \in Contents
      /\ package # None => package.commit = 1
      /\ record = None <=> package = None
  BY DEF Records, Packages
<1>1. TypeOK
  <2>1. op \in Operations
    BY DEF Stages
  <2>2. client \in [Clients -> Requests]
    BY DEF Kinds
  <2>3. active \in Contents /\ attempted \in Contents /\ remote \in 1..MaxCommit
    BY <1>0
  <2>4. (holder = NoHolder) <=> (op.stage = "idle")
    OBVIOUS
  <2> QED  BY <1>0, <2>1, <2>2, <2>3, <2>4 DEF TypeOK
<1>2. OperationSound
  BY DEF OperationSound
<1>3. OriginalKept
  BY <1>0 DEF OriginalKept, Original, Matches
<1>4. RequestsCurrent
  BY DEF RequestsCurrent
<1> QED  BY <1>1, <1>2, <1>3, <1>4 DEF Kept

(* One step per action.                                                    *)
LEMMA NextKept == Kept /\ [Next]_vars => Kept'
<1> SUFFICES ASSUME Kept, [Next]_vars PROVE Kept'
  OBVIOUS
<1>1. CASE UNCHANGED vars
  BY <1>1 DEF Kept, TypeOK, OperationSound, OriginalKept, Original, RequestsCurrent, Kind,
              Fetches, vars, memoryVars, diskVars, clientVars, worldVars, ghosts
<1>2. ASSUME NEW c \in Clients, Read(c) \/ Lookup(c) \/ Acquire(c)
      PROVE  Kept'
  BY <1>2, ReadStep, LookupStep, AcquireStep
<1>3. CASE Work
  BY <1>3, BeginStep, LoadStep, LoadFailsStep, SetAsideStep, ReplaceStep, PersistStep,
     CommitStep, PublishReloadStep, FinishStep, CleanupStep DEF Work
<1>4. CASE Cancel \/ CancelClose \/ Crash \/ Restart \/ Watch \/ Edit \/ Push
  BY <1>4, CancelStep, CancelCloseStep, CrashStep, RestartStep, WatchStep, EditStep, PushStep
<1> QED  BY <1>1, <1>2, <1>3, <1>4 DEF Next

(* Package, record and state file stay together through installations,     *)
(* updates and their failures, and the recorded package is on disk         *)
(* wherever the process dies (install_github, _persist).                   *)
THEOREM PackagesAlwaysKept == Spec => []PackagesKept
<1>1. Spec => []Kept
  BY InitKept, NextKept, PTL DEF Spec
<1> QED  BY <1>1, KeptPackages, PTL

(* The state file is written by the operation that has the locks, when it  *)
(* persists, and by nobody else.                                           *)
LEMMA SavedByPersist ==
    ASSUME [Next]_vars, saved' # saved
    PROVE  Persist /\ saved' = NewRecord
<1>1. Persist
  BY DEF Next, Work, Read, Lookup, Acquire, Begin, Load, LoadFails, SetAside, Replace,
         Commit, PublishReload, Finish, Cleanup, Cancel, CancelClose, Crash, Restart,
         Watch, Edit, Push, vars, diskVars
<1> QED  BY <1>1 DEF Persist

(* The one that has the locks when it persists saw the current record.     *)
LEMMA SeenStep ==
    ASSUME Kept, [Next]_vars, saved' # saved
    PROVE  /\ client[holder].saw = record
           /\ Kind = "update" => saved'.options = record.options
<1> USE StoreAssumption DEF Kept
<1>1. Persist /\ saved' = NewRecord
  BY SavedByPersist
<1>2. holder \in Clients /\ op.stage \in {"replaced", "preparing"}
  BY <1>1 DEF Persist, TypeOK, Kind
<1>3. /\ client[holder].stage = IF Kind = "update" THEN "ready" ELSE "read"
      /\ client[holder].revision = revision
  BY <1>2 DEF RequestsCurrent
<1>4. /\ client[holder].saw = record
      /\ Kind = "update" => client[holder].options = record.options
  BY <1>2, <1>3 DEF RequestsCurrent
<1>5. ASSUME Kind = "update" PROVE saved'.options = record.options
  <2>1. saved' = [options |-> client[holder].options, commit |-> op.scanned.commit]
    BY <1>1, <1>5 DEF NewRecord, Wanted, Fetches
  <2> QED  BY <1>4, <1>5, <2>1
<1> QED  BY <1>4, <1>5

(* Every change of the state file is made over the record its sender saw,  *)
(* and an update writes the current options (update_github).               *)
THEOREM ChangesAreSeen == Spec => ChangesSeenRecord
<1>1. Spec => []Kept
  BY InitKept, NextKept, PTL DEF Spec
<1>2. Kept /\ [Next]_vars =>
         [saved' # saved =>
             /\ client[holder].saw = record
             /\ Kind = "update" => saved'.options = record.options]_vars
  BY SeenStep
<1> QED  BY <1>1, <1>2, PTL DEF Spec, ChangesSeenRecord
=============================================================================
