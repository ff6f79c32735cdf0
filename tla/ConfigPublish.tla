---------------------------- MODULE ConfigPublish ----------------------------
(***************************************************************************)
(* Edits of the live configuration: management.py, the management routes   *)
(* and the file written by secrets.py.                                     *)
(*                                                                         *)
(* A client reads the configuration and its revision and sends an edit     *)
(* with If-Match.  Under plugins.runtime_lock the gateway checks the       *)
(* revision, prepares a new registry, has a thread write the file, and     *)
(* publishes settings, registry and revision in one event-loop step.  The  *)
(* last two are a task of their own, shielded from the cancellation of the *)
(* caller.  The process may crash and come back from the file.             *)
(*                                                                         *)
(* A configuration is the set of edits it contains.                        *)
(***************************************************************************)
EXTENDS Naturals, Sequences

CONSTANTS
    Edits,          \* the edits of a run
    Replaces,       \* those that send a whole configuration (PUT /config)
    Persistent,     \* management_config_path is set
    MaxCancels,     \* cancellations one edit may suffer
    MaxRevision     \* bound: revisions a crash or a plugin may add

ASSUME EditAssumption ==
    /\ Replaces \subseteq Edits
    /\ Persistent \in BOOLEAN
    /\ MaxCancels \in Nat
    /\ MaxRevision \in Nat

VARIABLES
    runtime,    \* app.state.settings and the registry
    revision,   \* ManagementService.revision, 0 is none
    disk,       \* the overlay file
    queue,      \* runtime_lock: its holder, then its waiters
    stage,      \* where an edit is suspended
    result,     \* how it ended
    seen,       \* its If-Match
    sent,       \* the whole configuration its client would send
    config,     \* what _apply made of it
    commit,     \* the _publish task
    thread,     \* the thread that writes the file
    cancels     \* cancellations so far

editVars == <<stage, result, config, cancels>>
clientVars == <<seen, sent>>
storeVars == <<runtime, revision, disk>>
vars == <<editVars, clientVars, storeVars, queue, commit, thread>>

Holds(e) == queue # <<>> /\ Head(queue) = e

(* The queue when the edit at position i has left it.                      *)
Shortened(i) == SubSeq(queue, 1, i - 1) \o SubSeq(queue, i + 1, Len(queue))

(* asyncio.Lock: its holder releases it, a cancelled waiter is removed.    *)
Leave(e) == queue' = Shortened(CHOOSE i \in 1 .. Len(queue) : queue[i] = e)

(* Mutant: a cancelled edit keeps the lock.                                *)
FinishKeepingLock(e, how) ==
    /\ stage' = [stage EXCEPT ![e] = "done"]
    /\ result' = [result EXCEPT ![e] = how]
    /\ IF how = "cancelled" THEN UNCHANGED queue ELSE Leave(e)

(* The edit ends and gives up the lock, or its place in the queue.         *)
Finish(e, how) ==
    /\ stage' = [stage EXCEPT ![e] = "done"]
    /\ result' = [result EXCEPT ![e] = how]
    /\ Leave(e)

-----------------------------------------------------------------------------
(* The steps of an edit.                                                   *)

Read(e) ==
    /\ stage[e] = "idle"
    /\ seen' = [seen EXCEPT ![e] = revision]
    /\ sent' = [sent EXCEPT ![e] = runtime \cup {e}]
    /\ UNCHANGED <<editVars, storeVars, queue, commit, thread>>

Send(e) ==
    /\ stage[e] = "idle"
    /\ stage' = [stage EXCEPT ![e] = "waiting"]
    /\ queue' = Append(queue, e)
    /\ UNCHANGED <<result, config, cancels, clientVars, storeVars, commit, thread>>

(* Mutant: If-Match is not compared.                                       *)
MatchesAny(e) == seen[e] # 0

(* _check_revision                                                         *)
Matches(e) == seen[e] = revision

(* update and update_resource with the lock: one replaces the              *)
(* configuration, the other changes one resource of the current one.       *)
Begin(e) ==
    /\ stage[e] = "waiting"
    /\ Holds(e)
    /\ IF Matches(e)
       THEN \/ /\ stage' = [stage EXCEPT ![e] = "preparing"]
               /\ config' = [config EXCEPT ![e] =
                      IF e \in Replaces THEN sent[e] ELSE runtime \cup {e}]
               /\ UNCHANGED <<result, queue>>
            \/ Finish(e, "invalid") /\ UNCHANGED config
       ELSE Finish(e, "stale") /\ UNCHANGED config
    /\ UNCHANGED <<cancels, clientVars, storeVars, commit, thread>>

(* The plugins' hooks and the thread of _prepare_registry are done.        *)
Prepared(e) ==
    /\ stage[e] = "preparing"
    /\ \/ /\ stage' = [stage EXCEPT ![e] = "committing"]
          /\ commit' = [commit EXCEPT ![e] = "writing"]
          /\ thread' = [thread EXCEPT ![e] =
                 IF Persistent THEN "running" ELSE "written"]
          /\ UNCHANGED <<result, queue>>
       \/ Finish(e, "invalid") /\ UNCHANGED <<commit, thread>>
    /\ UNCHANGED <<config, cancels, clientVars, storeVars>>

(* atomic_write: the file is replaced or left as it was.                   *)
DiskWrites(e) ==
    /\ thread[e] = "running"
    /\ \/ /\ disk' = config[e]
          /\ thread' = [thread EXCEPT ![e] =
                 IF commit[e] = "writing" THEN "written" ELSE "none"]
       \/ /\ thread' = [thread EXCEPT ![e] =
                 IF commit[e] = "writing" THEN "failed" ELSE "none"]
          /\ UNCHANGED disk
    /\ UNCHANGED <<editVars, clientVars, runtime, revision, queue, commit>>

(* _publish, once the file is written.                                     *)
Publish(e) ==
    /\ commit[e] = "writing"
    /\ thread[e] = "written"
    /\ runtime' = config[e]
    /\ revision' = revision + 1
    /\ commit' = [commit EXCEPT ![e] = "published"]
    /\ thread' = [thread EXCEPT ![e] = "none"]
    /\ UNCHANGED <<editVars, clientVars, disk, queue>>

PersistFails(e) ==
    /\ commit[e] = "writing"
    /\ thread[e] = "failed"
    /\ commit' = [commit EXCEPT ![e] = "failed"]
    /\ thread' = [thread EXCEPT ![e] = "none"]
    /\ UNCHANGED <<editVars, clientVars, storeVars, queue>>

(* Mutant: an edit whose file write failed keeps the lock.                 *)
ReturnOnSuccess(e) ==
    /\ stage[e] \in {"committing", "joining"}
    /\ commit[e] = "published"
    /\ Finish(e, IF stage[e] = "joining" THEN "cancelled" ELSE "ok")
    /\ UNCHANGED <<config, cancels, clientVars, storeVars, commit, thread>>

(* The handler learns how the commit ended.                                *)
Return(e) ==
    /\ stage[e] \in {"committing", "joining"}
    /\ \/ /\ commit[e] = "published"
          /\ Finish(e, IF stage[e] = "joining" THEN "cancelled" ELSE "ok")
       \/ commit[e] = "failed" /\ Finish(e, "failed")
    /\ UNCHANGED <<config, cancels, clientVars, storeVars, commit, thread>>

-----------------------------------------------------------------------------
(* Cancellation, crashes and plugins.                                      *)

(* The commit is cancelled with its awaiter: a thread that has not started *)
(* is dropped, a running one goes on.                                      *)
Abandon(e) ==
    /\ commit[e] = "writing"
    /\ commit' = [commit EXCEPT ![e] = "cancelled"]
    /\ \/ thread' = [thread EXCEPT ![e] = "none"]
       \/ thread[e] = "running" /\ UNCHANGED thread

(* Mutant: the first cancellation ends the edit.                           *)
CancelAtOnce(e) ==
    /\ stage[e] \notin {"idle", "done"}
    /\ cancels[e] < MaxCancels
    /\ cancels' = [cancels EXCEPT ![e] = @ + 1]
    /\ Finish(e, "cancelled")
    /\ \/ Abandon(e)
       \/ commit[e] # "writing" /\ UNCHANGED <<commit, thread>>
    /\ UNCHANGED <<config, clientVars, storeVars>>

(* The first cancellation leaves a commit alone and waits for it; the next *)
(* one hits that wait, which is not shielded.                              *)
Cancel(e) ==
    /\ stage[e] \notin {"idle", "done"}
    /\ cancels[e] < MaxCancels
    /\ cancels' = [cancels EXCEPT ![e] = @ + 1]
    /\ \/ /\ stage[e] = "committing"
          /\ stage' = [stage EXCEPT ![e] = "joining"]
          /\ UNCHANGED <<result, queue, commit, thread>>
       \/ /\ stage[e] \in {"waiting", "preparing"}
          /\ Finish(e, "cancelled")
          /\ UNCHANGED <<commit, thread>>
       \/ /\ stage[e] = "joining"
          /\ Finish(e, "cancelled")
          /\ \/ Abandon(e)
             \/ commit[e] # "writing" /\ UNCHANGED <<commit, thread>>
    /\ UNCHANGED <<config, clientVars, storeVars>>

(* The process dies and starts again from the file.                        *)
Crash ==
    /\ revision < MaxRevision
    /\ revision' = revision + 1
    /\ runtime' = IF Persistent THEN disk ELSE {}
    /\ queue' = <<>>
    /\ stage' = [e \in Edits |-> IF stage[e] = "idle" THEN "idle" ELSE "done"]
    /\ result' = [e \in Edits |->
          IF stage[e] \in {"idle", "done"} THEN result[e] ELSE "lost"]
    /\ commit' = [e \in Edits |->
          IF commit[e] = "writing" THEN "cancelled" ELSE commit[e]]
    /\ thread' = [e \in Edits |-> "none"]
    /\ UNCHANGED <<config, cancels, clientVars, disk>>

(* publish_runtime: a plugin changed the provider types.                   *)
PluginPublishes ==
    /\ queue = <<>>
    /\ revision < MaxRevision
    /\ revision' = revision + 1
    /\ UNCHANGED <<editVars, clientVars, runtime, disk, queue, commit, thread>>

-----------------------------------------------------------------------------
Init ==
    /\ runtime = {}
    /\ revision = 1
    /\ disk = {}
    /\ queue = <<>>
    /\ stage = [e \in Edits |-> "idle"]
    /\ result = [e \in Edits |-> "none"]
    /\ seen = [e \in Edits |-> 0]
    /\ sent = [e \in Edits |-> {e}]
    /\ config = [e \in Edits |-> {}]
    /\ commit = [e \in Edits |-> "none"]
    /\ thread = [e \in Edits |-> "none"]
    /\ cancels = [e \in Edits |-> 0]

Progress(e) == Begin(e) \/ Prepared(e) \/ Publish(e) \/ PersistFails(e) \/ Return(e)

Next ==
    \/ \E e \in Edits :
          Read(e) \/ Send(e) \/ Progress(e) \/ DiskWrites(e) \/ Cancel(e)
    \/ Crash
    \/ PluginPublishes

Spec == Init /\ [][Next]_vars

(* Hooks and file writes end.                                              *)
FairSpec ==
    /\ Spec
    /\ \A e \in Edits : WF_vars(Progress(e)) /\ WF_vars(DiskWrites(e))

-----------------------------------------------------------------------------
(* Properties.                                                             *)

Stages == {"idle", "waiting", "preparing", "committing", "joining", "done"}
Results == {"none", "ok", "stale", "invalid", "failed", "cancelled", "lost"}

(* The variables have their types.                                         *)
TypeOK ==
    /\ runtime \subseteq Edits
    /\ revision \in Nat
    /\ disk \subseteq Edits
    /\ queue \in Seq(Edits)
    /\ stage \in [Edits -> Stages]
    /\ result \in [Edits -> Results]
    /\ seen \in [Edits -> Nat]
    /\ sent \in [Edits -> SUBSET Edits]
    /\ config \in [Edits -> SUBSET Edits]
    /\ commit \in [Edits -> {"none", "writing", "published", "failed", "cancelled"}]
    /\ thread \in [Edits -> {"none", "running", "written", "failed"}]
    /\ cancels \in [Edits -> 0 .. MaxCancels]

(* The file and the running gateway agree whenever no file write is under  *)
(* way, whatever failed, was cancelled or crashed in between.              *)
DiskMatchesRuntime ==
    (Persistent /\ \A e \in Edits : thread[e] = "none") => disk = runtime

(* The queue of the lock holds the edits that run, each once, and what is  *)
(* past the lock holds it: no edit leaves it behind.                       *)
QueueSound ==
    /\ \A i, j \in 1 .. Len(queue) : queue[i] = queue[j] => i = j
    /\ \A e \in Edits :
          /\ stage[e] \notin {"idle", "done"}
                <=> \E i \in 1 .. Len(queue) : queue[i] = e
          /\ stage[e] \in {"preparing", "committing", "joining"} => Holds(e)

(* Only the edit that has the lock has a disk thread, and its commit waits *)
(* for it: no later edit races an earlier write of the file.               *)
OneDiskWriter ==
    \A e \in Edits :
        /\ thread[e] # "none" <=> commit[e] = "writing"
        /\ thread[e] # "none" => stage[e] \in {"committing", "joining"}
        /\ thread[e] \in {"running", "failed"} => Persistent

(* How far an edit is: what it has committed, suffered and answered.       *)
StepsInOrder ==
    \A e \in Edits :
        /\ stage[e] \in {"idle", "waiting", "preparing"} => commit[e] = "none"
        /\ stage[e] \in {"committing", "joining"}
              => commit[e] \in {"writing", "published", "failed"}
        /\ stage[e] = "joining" => cancels[e] # 0
        /\ stage[e] # "done" => result[e] = "none"
        /\ result[e] = "ok" => commit[e] = "published"
        /\ result[e] = "failed" => commit[e] = "failed"

(* A configuration that is prepared or written is the current one and the  *)
(* edit, and one whose revision still matches will be.                     *)
BuiltOnCurrent ==
    \A e \in Edits :
        /\ seen[e] <= revision
        /\ stage[e] \in {"idle", "waiting"} /\ Matches(e) => sent[e] = runtime \cup {e}
        /\ stage[e] = "preparing" \/ thread[e] # "none" => config[e] = runtime \cup {e}

(* The file is the current configuration, or the one about to be published. *)
DiskFollows ==
    /\ DiskMatchesRuntime
    /\ ~Persistent => disk = {}
    /\ Persistent => \A e \in Edits :
          thread[e] # "none" => disk = IF thread[e] = "written" THEN config[e] ELSE runtime

(* What an edit has left in memory and on disk when it is that far.        *)
TracesMatchSteps ==
    \A e \in Edits :
        /\ \/ stage[e] \in {"idle", "waiting", "preparing"}
           \/ thread[e] \in {"running", "failed"}
           \/ commit[e] = "failed"
           \/ result[e] \in {"stale", "invalid"}
           => e \notin runtime \cup disk
        /\ Persistent /\ commit[e] = "published" => e \in runtime

(* An acknowledged edit is never lost to a concurrent edit, nor, when the  *)
(* configuration is persistent, to a crash.                                *)
AcknowledgedEditsLast ==
    Persistent => \A e \in Edits : result[e] = "ok" => e \in runtime

(* An edit that was refused left nothing behind, in memory or on disk.     *)
RefusedEditsLeaveNothing ==
    \A e \in Edits :
        result[e] \in {"stale", "invalid", "failed"} => e \notin runtime \cup disk

(* The inductive invariant: types, lock, disk thread, and what is in       *)
(* memory and on disk at every step of an edit.                            *)
ConfigInv ==
    /\ TypeOK
    /\ QueueSound
    /\ OneDiskWriter
    /\ StepsInOrder
    /\ BuiltOnCurrent
    /\ DiskFollows
    /\ TracesMatchSteps

(* An edit is kept whole or not at all.                                    *)
EditsAllOrNothing ==
    /\ AcknowledgedEditsLast
    /\ RefusedEditsLeaveNothing

(* Every edit is answered.                                                 *)
EditsAnswered ==
    \A e \in Edits : stage[e] = "waiting" ~> stage[e] = "done"
=============================================================================
