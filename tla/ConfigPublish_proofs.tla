------------------------ MODULE ConfigPublish_proofs ------------------------
(***************************************************************************)
(* Theorems about ConfigPublish, for any number of edits, when no edit is  *)
(* cancelled more than once.                                               *)
(***************************************************************************)
EXTENDS ConfigPublish, SequenceTheorems, TLAPS

(* Taking position k out of a sequence.                                    *)
LEMMA ShortenedSeq ==
    ASSUME NEW S, NEW q \in Seq(S), NEW k \in 1 .. Len(q)
    PROVE  LET r == SubSeq(q, 1, k - 1) \o SubSeq(q, k + 1, Len(q))
           IN  /\ r \in Seq(S)
               /\ Len(r) = Len(q) - 1
               /\ \A i \in 1 .. Len(q) - 1 : r[i] = IF i < k THEN q[i] ELSE q[i + 1]
<1> DEFINE front == SubSeq(q, 1, k - 1)
           back == SubSeq(q, k + 1, Len(q))
<1>0. Len(q) \in Nat /\ k \in Nat /\ k - 1 \in Nat /\ k <= Len(q) /\ q \in [1 .. Len(q) -> S]
  BY LenProperties
<1>a. \A n, m \in Nat : m <= n =>
         n - (m + 1) + 1 = n - m /\ (m + 1 <= n \/ n - m = 0)
  OBVIOUS
<1>1. /\ front \in Seq(S)
      /\ Len(front) = k - 1
      /\ \A i \in 1 .. k - 1 : front[i] = q[i]
  <2>1. \A i \in 1 .. k - 1 : q[i] \in S
    BY <1>0
  <2>2. /\ front \in Seq(S)
        /\ Len(front) = IF 1 <= k - 1 THEN k - 1 - 1 + 1 ELSE 0
        /\ \A i \in 1 .. k - 1 - 1 + 1 : front[i] = q[1 + i - 1]
    BY <2>1, <1>0, SubSeqProperties
  <2> HIDE DEF front
  <2> QED  BY <2>2, <1>0
<1>2. /\ back \in Seq(S)
      /\ Len(back) = Len(q) - k
      /\ \A i \in 1 .. Len(q) - k : back[i] = q[k + i]
  <2>1. \A i \in k + 1 .. Len(q) : q[i] \in S
    BY <1>0
  <2>2. /\ back \in Seq(S)
        /\ Len(back) = IF k + 1 <= Len(q) THEN Len(q) - (k + 1) + 1 ELSE 0
        /\ \A i \in 1 .. Len(q) - (k + 1) + 1 : back[i] = q[(k + 1) + i - 1]
    BY <2>1, <1>0, SubSeqProperties
  <2>3. \A i \in 1 .. Len(q) - k : (k + 1) + i - 1 = k + i
    BY <1>0
  <2>4. Len(q) - (k + 1) + 1 = Len(q) - k /\ (k + 1 <= Len(q) \/ Len(q) - k = 0)
    BY <1>0, <1>a, Zenon
  <2> HIDE DEF back
  <2>5. \A i \in 1 .. Len(q) - k : back[i] = q[k + i]
    BY <2>2, <2>3, <2>4
  <2> QED  BY <2>2, <2>4, <2>5
<1> HIDE DEF front, back
<1>3. /\ front \o back \in Seq(S)
      /\ Len(front \o back) = Len(front) + Len(back)
      /\ \A i \in 1 .. Len(front) + Len(back) :
            (front \o back)[i] = IF i <= Len(front) THEN front[i] ELSE back[i - Len(front)]
  BY <1>1, <1>2, ConcatProperties
<1>4. \A i \in 1 .. Len(q) - 1 : (front \o back)[i] = IF i < k THEN q[i] ELSE q[i + 1]
  BY <1>0, <1>1, <1>2, <1>3, SMTT(30)
<1>5. Len(front \o back) = Len(q) - 1
  BY <1>0, <1>1, <1>2, <1>3
<1> QED  BY <1>3, <1>4, <1>5 DEF front, back

(* An edit that leaves the queue leaves the others there, and the lock     *)
(* with its holder.                                                        *)
LEMMA LeavingTheQueue ==
    ASSUME TypeOK, QueueSound,
           NEW e \in Edits, stage[e] \notin {"idle", "done"}, Leave(e)
    PROVE  /\ queue' \in Seq(Edits)
           /\ \A i, j \in 1 .. Len(queue') : queue'[i] = queue'[j] => i = j
           /\ \A f \in Edits : (\E i \in 1 .. Len(queue') : queue'[i] = f)
                                  <=> f # e /\ \E i \in 1 .. Len(queue) : queue[i] = f
           /\ \A f \in Edits : f # e /\ Holds(f) => Holds(f)'
<1> DEFINE k == CHOOSE i \in 1 .. Len(queue) : queue[i] = e
<1>1. queue \in Seq(Edits) /\ Len(queue) \in Nat
  BY LenProperties DEF TypeOK
<1>2. k \in 1 .. Len(queue) /\ queue[k] = e
  BY DEF QueueSound
<1>3. queue' = SubSeq(queue, 1, k - 1) \o SubSeq(queue, k + 1, Len(queue))
  BY DEF Leave, Shortened
<1> HIDE DEF k
<1>4. /\ queue' \in Seq(Edits)
      /\ Len(queue') = Len(queue) - 1
      /\ \A i \in 1 .. Len(queue) - 1 :
            queue'[i] = IF i < k THEN queue[i] ELSE queue[i + 1]
  BY <1>1, <1>2, <1>3, ShortenedSeq
<1>5. \A i, j \in 1 .. Len(queue) : queue[i] = queue[j] => i = j
  BY DEF QueueSound
<1>6. \A i, j \in 1 .. Len(queue') : queue'[i] = queue'[j] => i = j
  BY <1>1, <1>2, <1>4, <1>5, SMTT(30)
<1>7. ASSUME NEW f \in Edits
      PROVE  (\E i \in 1 .. Len(queue') : queue'[i] = f)
                <=> f # e /\ \E i \in 1 .. Len(queue) : queue[i] = f
  <2>1. ASSUME NEW i \in 1 .. Len(queue'), queue'[i] = f
        PROVE  f # e /\ \E j \in 1 .. Len(queue) : queue[j] = f
    BY <2>1, <1>1, <1>2, <1>4, <1>5
  <2>2. ASSUME NEW i \in 1 .. Len(queue), queue[i] = f, f # e
        PROVE  \E j \in 1 .. Len(queue') : queue'[j] = f
    <3>1. CASE i < k
      BY <3>1, <2>2, <1>1, <1>2, <1>4
    <3>2. CASE i > k
      <4>1. i - 1 \in 1 .. Len(queue') /\ queue'[i - 1] = f
        BY <3>2, <2>2, <1>1, <1>2, <1>4
      <4> QED  BY <4>1
    <3> QED  BY <3>1, <3>2, <2>2, <1>2, <1>1
  <2> QED  BY <2>1, <2>2
<1>8. ASSUME NEW f \in Edits, f # e, Holds(f)
      PROVE  Holds(f)'
  <2>1. queue # <<>> /\ queue[1] = f /\ Len(queue) # 0
    BY <1>8, <1>1, EmptySeq DEF Holds
  <2>2. k # 1 /\ Len(queue) > 1
    BY <2>1, <1>8, <1>2, <1>1
  <2>3. Len(queue') # 0 /\ queue'[1] = f
    BY <2>1, <2>2, <1>4, <1>2, <1>1
  <2>4. queue' # <<>>
    BY <2>3, <1>4, EmptySeq
  <2> QED  BY <2>3, <2>4, <1>4 DEF Holds
<1> QED  BY <1>4, <1>6, <1>7, <1>8

(* The same of an edit that ends.                                          *)
LEMMA Finishing ==
    ASSUME TypeOK, QueueSound, NEW e \in Edits, NEW how \in Results,
           stage[e] \notin {"idle", "done"}, Finish(e, how)
    PROVE  /\ queue' \in Seq(Edits)
           /\ stage' \in [Edits -> Stages] /\ result' \in [Edits -> Results]
           /\ stage'[e] = "done" /\ result'[e] = how
           /\ \A f \in Edits \ {e} : stage'[f] = stage[f] /\ result'[f] = result[f]
           /\ QueueSound'
<1>1. Leave(e) /\ stage' = [stage EXCEPT ![e] = "done"] /\ result' = [result EXCEPT ![e] = how]
  BY DEF Finish
<1>2. /\ queue' \in Seq(Edits)
      /\ \A i, j \in 1 .. Len(queue') : queue'[i] = queue'[j] => i = j
      /\ \A f \in Edits : (\E i \in 1 .. Len(queue') : queue'[i] = f)
                             <=> f # e /\ \E i \in 1 .. Len(queue) : queue[i] = f
      /\ \A f \in Edits : f # e /\ Holds(f) => Holds(f)'
  BY <1>1, LeavingTheQueue
<1>3. /\ stage' \in [Edits -> Stages] /\ result' \in [Edits -> Results]
      /\ stage'[e] = "done" /\ result'[e] = how
      /\ \A f \in Edits \ {e} : stage'[f] = stage[f] /\ result'[f] = result[f]
  BY <1>1 DEF TypeOK, Stages
<1>4. ASSUME NEW f \in Edits
      PROVE  /\ stage'[f] \notin {"idle", "done"}
                   <=> \E i \in 1 .. Len(queue') : queue'[i] = f
             /\ stage'[f] \in {"preparing", "committing", "joining"} => Holds(f)'
  <2>1. CASE f = e
    BY <2>1, <1>2, <1>3
  <2>2. CASE f # e
    BY <2>2, <1>2, <1>3 DEF QueueSound
  <2> QED  BY <2>1, <2>2
<1> QED  BY <1>2, <1>3, <1>4 DEF QueueSound

(* There is one holder.                                                    *)
LEMMA OneHolder ==
    ASSUME ConfigInv, NEW e \in Edits, NEW f \in Edits,
           stage[e] \in {"preparing", "committing", "joining"},
           stage[f] \in {"preparing", "committing", "joining"} \/ thread[f] # "none"
    PROVE  e = f
BY DEF ConfigInv, QueueSound, OneDiskWriter, Holds

LEMMA InitConfig == Init => ConfigInv
<1> SUFFICES ASSUME Init PROVE ConfigInv
  OBVIOUS
<1>0. queue = <<>> /\ queue \in Seq(Edits) /\ Len(queue) = 0
  BY EmptySeq DEF Init
<1>1. TypeOK
  BY <1>0, EditAssumption DEF Init, TypeOK, Stages, Results
<1>2. QueueSound
  BY <1>0 DEF Init, QueueSound
<1>3. OneDiskWriter /\ StepsInOrder
  BY DEF Init, OneDiskWriter, StepsInOrder
<1>4. BuiltOnCurrent
  <2> SUFFICES ASSUME NEW e \in Edits
               PROVE  /\ seen[e] <= revision /\ ~Matches(e)
                      /\ ~(stage[e] = "preparing" \/ thread[e] # "none")
    BY DEF BuiltOnCurrent
  <2>1. seen[e] = 0 /\ revision = 1 /\ stage[e] = "idle" /\ thread[e] = "none"
    BY DEF Init
  <2> QED  BY <2>1 DEF Matches
<1>5. DiskFollows /\ TracesMatchSteps
  BY DEF Init, DiskFollows, DiskMatchesRuntime, TracesMatchSteps
<1> QED  BY <1>1, <1>2, <1>3, <1>4, <1>5 DEF ConfigInv

LEMMA ReadStep ==
    ASSUME ConfigInv, NEW e \in Edits, Read(e)
    PROVE  ConfigInv'
<1> USE DEF ConfigInv
<1>1. /\ UNCHANGED <<editVars, storeVars, queue, commit, thread>>
      /\ stage[e] = "idle"
      /\ seen' = [seen EXCEPT ![e] = revision] /\ sent' = [sent EXCEPT ![e] = runtime \cup {e}]
  BY DEF Read
<1> USE DEF editVars, storeVars
<1>2. TypeOK'
  BY <1>1 DEF TypeOK
<1>3. QueueSound' /\ OneDiskWriter' /\ StepsInOrder' /\ DiskFollows' /\ TracesMatchSteps'
  BY <1>1 DEF QueueSound, Holds, OneDiskWriter, StepsInOrder, DiskFollows,
              DiskMatchesRuntime, TracesMatchSteps
<1>4. BuiltOnCurrent'
  BY <1>1 DEF BuiltOnCurrent, Matches, TypeOK
<1> QED  BY <1>2, <1>3, <1>4

LEMMA SendStep ==
    ASSUME ConfigInv, NEW e \in Edits, Send(e)
    PROVE  ConfigInv'
<1> USE DEF ConfigInv
<1>1. /\ UNCHANGED <<result, config, cancels, clientVars, storeVars, commit, thread>>
      /\ stage[e] = "idle" /\ stage' = [stage EXCEPT ![e] = "waiting"]
      /\ queue' = Append(queue, e)
  BY DEF Send
<1> USE DEF clientVars, storeVars
<1>2. /\ queue \in Seq(Edits) /\ Len(queue) \in Nat
      /\ queue' \in Seq(Edits) /\ Len(queue') = Len(queue) + 1 /\ queue' # <<>>
      /\ \A i \in 1 .. Len(queue) : queue'[i] = queue[i]
      /\ queue'[Len(queue) + 1] = e
      /\ queue # <<>> => Head(queue') = Head(queue)
  BY <1>1 DEF TypeOK
<1>3. TypeOK'
  BY <1>1, <1>2 DEF TypeOK, Stages
<1>4. QueueSound'
  <2>1. \A f \in Edits : Holds(f) => Holds(f)'
    BY <1>2 DEF Holds
  <2>2. \A i \in 1 .. Len(queue) : queue[i] # e
    BY <1>1 DEF QueueSound
  <2>3. \A i, j \in 1 .. Len(queue') : queue'[i] = queue'[j] => i = j
    BY <1>2, <2>2 DEF QueueSound
  <2>4. \A f \in Edits : (\E i \in 1 .. Len(queue') : queue'[i] = f)
                            <=> f = e \/ \E i \in 1 .. Len(queue) : queue[i] = f
    BY <1>2
  <2>5. stage'[e] = "waiting" /\ \A f \in Edits \ {e} : stage'[f] = stage[f]
    BY <1>1 DEF TypeOK
  <2> QED  BY <2>1, <2>3, <2>4, <2>5 DEF QueueSound
<1>5. OneDiskWriter' /\ StepsInOrder' /\ DiskFollows' /\ TracesMatchSteps' /\ BuiltOnCurrent'
  BY <1>1 DEF OneDiskWriter, StepsInOrder, DiskFollows, DiskMatchesRuntime,
              TracesMatchSteps, BuiltOnCurrent, Matches, TypeOK
<1> QED  BY <1>3, <1>4, <1>5

LEMMA BeginStep ==
    ASSUME ConfigInv, NEW e \in Edits, Begin(e)
    PROVE  ConfigInv'
<1> USE DEF ConfigInv
<1>1. /\ stage[e] = "waiting" /\ Holds(e)
      /\ UNCHANGED <<cancels, clientVars, storeVars, commit, thread>>
  BY DEF Begin
<1> USE DEF clientVars, storeVars
<1>2. thread[e] = "none" /\ e \notin runtime \cup disk
  BY <1>1 DEF OneDiskWriter, TracesMatchSteps
<1>3. CASE /\ Matches(e)
           /\ stage' = [stage EXCEPT ![e] = "preparing"]
           /\ config' = [config EXCEPT ![e] = IF e \in Replaces THEN sent[e] ELSE runtime \cup {e}]
           /\ UNCHANGED <<result, queue>>
  <2>1. config'[e] = runtime \cup {e} /\ \A f \in Edits \ {e} : config'[f] = config[f]
    BY <1>1, <1>3 DEF BuiltOnCurrent, TypeOK
  <2>2. stage'[e] = "preparing" /\ \A f \in Edits \ {e} : stage'[f] = stage[f]
    BY <1>3 DEF TypeOK
  <2>3. TypeOK'
    BY <1>1, <1>3 DEF TypeOK, Stages
  <2>4. QueueSound'
    BY <1>1, <1>3, <2>2 DEF QueueSound, Holds
  <2>5. OneDiskWriter' /\ StepsInOrder'
    BY <1>1, <1>2, <1>3, <2>2 DEF OneDiskWriter, StepsInOrder
  <2>6. BuiltOnCurrent'
    BY <1>1, <1>3, <2>1, <2>2 DEF BuiltOnCurrent, Matches
  <2>7. DiskFollows'
    BY <1>1, <1>2, <1>3, <2>1 DEF DiskFollows, DiskMatchesRuntime
  <2>8. TracesMatchSteps'
    BY <1>1, <1>2, <1>3, <2>2 DEF TracesMatchSteps
  <2> QED  BY <2>3, <2>4, <2>5, <2>6, <2>7, <2>8
<1>4. CASE \E how \in {"invalid", "stale"} : Finish(e, how) /\ UNCHANGED config
  <2> PICK how \in {"invalid", "stale"} : Finish(e, how) /\ UNCHANGED config
    BY <1>4
  <2>1. /\ queue' \in Seq(Edits)
        /\ stage' \in [Edits -> Stages] /\ result' \in [Edits -> Results]
        /\ stage'[e] = "done" /\ result'[e] = how
        /\ \A f \in Edits \ {e} : stage'[f] = stage[f] /\ result'[f] = result[f]
        /\ QueueSound'
    BY <1>1, Finishing DEF Results
  <2>2. TypeOK'
    BY <1>1, <2>1 DEF TypeOK
  <2>3. OneDiskWriter' /\ StepsInOrder'
    BY <1>1, <1>2, <2>1 DEF OneDiskWriter, StepsInOrder
  <2>4. BuiltOnCurrent' /\ DiskFollows'
    BY <1>1, <2>1 DEF BuiltOnCurrent, Matches, DiskFollows, DiskMatchesRuntime
  <2>5. TracesMatchSteps'
    BY <1>1, <1>2, <2>1 DEF TracesMatchSteps
  <2> QED  BY <2>1, <2>2, <2>3, <2>4, <2>5
<1> QED  BY <1>3, <1>4 DEF Begin

LEMMA PreparedStep ==
    ASSUME ConfigInv, NEW e \in Edits, Prepared(e)
    PROVE  ConfigInv'
<1> USE DEF ConfigInv
<1>1. /\ stage[e] = "preparing"
      /\ UNCHANGED <<config, cancels, clientVars, storeVars>>
  BY DEF Prepared
<1> USE DEF clientVars, storeVars
<1>2. /\ Holds(e) /\ thread[e] = "none" /\ commit[e] = "none" /\ e \notin runtime \cup disk
      /\ config[e] = runtime \cup {e}
  BY <1>1 DEF OneDiskWriter, TracesMatchSteps, BuiltOnCurrent, StepsInOrder, QueueSound
<1>3. \A f \in Edits : thread[f] = "none"
  BY <1>1, <1>2, OneHolder
<1>4. CASE /\ stage' = [stage EXCEPT ![e] = "committing"]
           /\ commit' = [commit EXCEPT ![e] = "writing"]
           /\ thread' = [thread EXCEPT ![e] = IF Persistent THEN "running" ELSE "written"]
           /\ UNCHANGED <<result, queue>>
  <2>1. /\ stage'[e] = "committing" /\ commit'[e] = "writing"
        /\ thread'[e] = IF Persistent THEN "running" ELSE "written"
        /\ \A f \in Edits \ {e} :
              stage'[f] = stage[f] /\ commit'[f] = commit[f] /\ thread'[f] = thread[f]
    BY <1>4 DEF TypeOK
  <2>2. TypeOK'
    BY <1>1, <1>4 DEF TypeOK, Stages
  <2>3. QueueSound'
    BY <1>1, <1>4, <2>1 DEF QueueSound, Holds
  <2>4. OneDiskWriter' /\ StepsInOrder'
    BY <1>1, <1>2, <1>4, <2>1 DEF OneDiskWriter, StepsInOrder
  <2>5. BuiltOnCurrent'
    BY <1>1, <1>2, <2>1 DEF BuiltOnCurrent, Matches
  <2>6. DiskFollows'
    BY <1>1, <1>3, <2>1 DEF DiskFollows, DiskMatchesRuntime
  <2>7. TracesMatchSteps'
    BY <1>1, <1>2, <1>4, <2>1 DEF TracesMatchSteps
  <2> QED  BY <2>2, <2>3, <2>4, <2>5, <2>6, <2>7
<1>5. CASE Finish(e, "invalid") /\ UNCHANGED <<commit, thread>>
  <2>1. /\ queue' \in Seq(Edits)
        /\ stage' \in [Edits -> Stages] /\ result' \in [Edits -> Results]
        /\ stage'[e] = "done" /\ result'[e] = "invalid"
        /\ \A f \in Edits \ {e} : stage'[f] = stage[f] /\ result'[f] = result[f]
        /\ QueueSound'
    BY <1>1, <1>5, Finishing DEF Results
  <2>2. TypeOK'
    BY <1>1, <1>5, <2>1 DEF TypeOK
  <2>3. OneDiskWriter' /\ StepsInOrder'
    BY <1>1, <1>2, <1>5, <2>1 DEF OneDiskWriter, StepsInOrder
  <2>4. BuiltOnCurrent' /\ DiskFollows'
    BY <1>1, <1>5, <2>1 DEF BuiltOnCurrent, Matches, DiskFollows, DiskMatchesRuntime
  <2>5. TracesMatchSteps'
    BY <1>1, <1>2, <1>5, <2>1 DEF TracesMatchSteps
  <2> QED  BY <2>1, <2>2, <2>3, <2>4, <2>5
<1> QED  BY <1>4, <1>5 DEF Prepared

LEMMA DiskWritesStep ==
    ASSUME ConfigInv, NEW e \in Edits, DiskWrites(e)
    PROVE  ConfigInv'
<1> USE DEF ConfigInv
<1>1. /\ thread[e] = "running"
      /\ UNCHANGED <<editVars, clientVars, runtime, revision, queue, commit>>
  BY DEF DiskWrites
<1> USE DEF editVars, clientVars
<1>2. /\ commit[e] = "writing" /\ stage[e] \in {"committing", "joining"} /\ Persistent
      /\ config[e] = runtime \cup {e} /\ e \notin runtime \cup disk /\ disk = runtime
  BY <1>1 DEF OneDiskWriter, BuiltOnCurrent, TracesMatchSteps, DiskFollows
<1>3. \A f \in Edits \ {e} : thread[f] = "none"
  BY <1>2, OneHolder
<1>4. PICK how \in {"written", "failed"} :
         /\ thread' = [thread EXCEPT ![e] = how]
         /\ disk' = IF how = "written" THEN config[e] ELSE disk
  BY <1>1, <1>2 DEF DiskWrites
<1>5. thread'[e] = how /\ \A f \in Edits \ {e} : thread'[f] = "none"
  BY <1>3, <1>4 DEF TypeOK
<1>6. TypeOK'
  BY <1>1, <1>4 DEF TypeOK
<1>7. QueueSound'
  BY <1>1 DEF QueueSound, Holds
<1>8. OneDiskWriter' /\ StepsInOrder'
  BY <1>1, <1>2, <1>3, <1>5 DEF OneDiskWriter, StepsInOrder
<1>9. BuiltOnCurrent'
  BY <1>1, <1>2, <1>5 DEF BuiltOnCurrent, Matches
<1>10. DiskFollows'
  BY <1>1, <1>2, <1>4, <1>5 DEF DiskFollows, DiskMatchesRuntime
<1>11. TracesMatchSteps'
  <2> SUFFICES ASSUME NEW f \in Edits
               PROVE  /\ \/ stage[f] \in {"idle", "waiting", "preparing"}
                         \/ thread'[f] \in {"running", "failed"}
                         \/ commit[f] = "failed"
                         \/ result[f] \in {"stale", "invalid"}
                         => f \notin runtime \cup disk'
                      /\ Persistent /\ commit[f] = "published" => f \in runtime
    BY <1>1 DEF TracesMatchSteps
  <2>1. CASE f = e
    <3>1. commit[e] = "writing" /\ stage[e] \notin {"idle", "waiting", "preparing"}
          /\ result[e] = "none"
      BY <1>2 DEF StepsInOrder
    <3> QED  BY <2>1, <3>1, <1>2, <1>4, <1>5
  <2>2. CASE f # e
    <3>1. disk' \subseteq disk \cup {e}
      BY <1>2, <1>4
    <3> QED  BY <2>2, <3>1, <1>3, <1>5 DEF TracesMatchSteps
  <2> QED  BY <2>1, <2>2
<1> QED  BY <1>6, <1>7, <1>8, <1>9, <1>10, <1>11

LEMMA PublishStep ==
    ASSUME ConfigInv, NEW e \in Edits, Publish(e)
    PROVE  ConfigInv'
<1> USE DEF ConfigInv
<1>1. /\ commit[e] = "writing" /\ thread[e] = "written"
      /\ runtime' = config[e] /\ revision' = revision + 1
      /\ commit' = [commit EXCEPT ![e] = "published"]
      /\ thread' = [thread EXCEPT ![e] = "none"]
      /\ UNCHANGED <<editVars, clientVars, disk, queue>>
  BY DEF Publish
<1> USE DEF editVars, clientVars
<1>2. /\ stage[e] \in {"committing", "joining"} /\ runtime' = runtime \cup {e}
      /\ result[e] = "none" /\ (Persistent => disk = runtime \cup {e})
  BY <1>1 DEF OneDiskWriter, BuiltOnCurrent, StepsInOrder, DiskFollows
<1>3. \A f \in Edits \ {e} : thread[f] = "none" /\ stage[f] # "preparing"
  BY <1>2, OneHolder
<1>4. /\ commit'[e] = "published" /\ \A f \in Edits \ {e} : commit'[f] = commit[f]
      /\ \A f \in Edits : thread'[f] = "none"
  BY <1>1, <1>3 DEF TypeOK
<1>5. TypeOK'
  BY <1>1 DEF TypeOK
<1>6. QueueSound'
  BY <1>1 DEF QueueSound, Holds
<1>7. OneDiskWriter' /\ StepsInOrder'
  BY <1>1, <1>2, <1>3, <1>4 DEF OneDiskWriter, StepsInOrder
<1>8. BuiltOnCurrent'
  <2>1. \A f \in Edits : seen[f] \in Nat /\ revision \in Nat /\ seen[f] <= revision
    BY DEF TypeOK, BuiltOnCurrent
  <2>2. \A f \in Edits : seen'[f] <= revision' /\ seen'[f] # revision'
    BY <1>1, <2>1
  <2>3. \A f \in Edits : stage'[f] # "preparing" /\ thread'[f] = "none"
    BY <1>1, <1>2, <1>3, <1>4
  <2> QED  BY <2>2, <2>3 DEF BuiltOnCurrent, Matches
<1>9. DiskFollows'
  BY <1>1, <1>2, <1>4 DEF DiskFollows, DiskMatchesRuntime
<1>10. TracesMatchSteps'
  <2>1. \A f \in Edits \ {e} :
           /\ \/ stage'[f] \in {"idle", "waiting", "preparing"}
              \/ thread'[f] \in {"running", "failed"}
              \/ commit'[f] = "failed"
              \/ result'[f] \in {"stale", "invalid"}
              => f \notin runtime' \cup disk'
           /\ Persistent /\ commit'[f] = "published" => f \in runtime'
    BY <1>1, <1>2, <1>3, <1>4 DEF TracesMatchSteps
  <2>2. e \in runtime' /\ commit'[e] = "published" /\ thread'[e] = "none"
        /\ stage'[e] \notin {"idle", "waiting", "preparing"} /\ result'[e] = "none"
    BY <1>1, <1>2, <1>4
  <2> QED  BY <2>1, <2>2 DEF TracesMatchSteps
<1> QED  BY <1>5, <1>6, <1>7, <1>8, <1>9, <1>10

LEMMA PersistFailsStep ==
    ASSUME ConfigInv, NEW e \in Edits, PersistFails(e)
    PROVE  ConfigInv'
<1> USE DEF ConfigInv
<1>1. /\ commit[e] = "writing" /\ thread[e] = "failed"
      /\ commit' = [commit EXCEPT ![e] = "failed"]
      /\ thread' = [thread EXCEPT ![e] = "none"]
      /\ UNCHANGED <<editVars, clientVars, storeVars, queue>>
  BY DEF PersistFails
<1> USE DEF editVars, clientVars, storeVars
<1>2. /\ stage[e] \in {"committing", "joining"} /\ result[e] = "none"
      /\ e \notin runtime \cup disk /\ disk = runtime
  BY <1>1 DEF OneDiskWriter, TracesMatchSteps, StepsInOrder, DiskFollows
<1>3. \A f \in Edits \ {e} : thread[f] = "none"
  BY <1>2, OneHolder
<1>4. /\ commit'[e] = "failed" /\ \A f \in Edits \ {e} : commit'[f] = commit[f]
      /\ \A f \in Edits : thread'[f] = "none"
  BY <1>1, <1>3 DEF TypeOK
<1>5. TypeOK'
  BY <1>1 DEF TypeOK
<1>6. QueueSound'
  BY <1>1 DEF QueueSound, Holds
<1>7. OneDiskWriter' /\ StepsInOrder'
  BY <1>1, <1>2, <1>3, <1>4 DEF OneDiskWriter, StepsInOrder
<1>8. BuiltOnCurrent'
  BY <1>1, <1>4 DEF BuiltOnCurrent, Matches
<1>9. DiskFollows'
  BY <1>1, <1>2, <1>4 DEF DiskFollows, DiskMatchesRuntime
<1>10. TracesMatchSteps'
  BY <1>1, <1>2, <1>4 DEF TracesMatchSteps
<1> QED  BY <1>5, <1>6, <1>7, <1>8, <1>9, <1>10

LEMMA ReturnStep ==
    ASSUME ConfigInv, NEW e \in Edits, Return(e)
    PROVE  ConfigInv'
<1> USE DEF ConfigInv
<1>1. PICK how \in {"ok", "cancelled", "failed"} :
        /\ stage[e] \in {"committing", "joining"}
        /\ UNCHANGED <<config, cancels, clientVars, storeVars, commit, thread>>
        /\ Finish(e, how)
        /\ how = "ok" => commit[e] = "published"
        /\ how = "failed" => commit[e] = "failed"
        /\ commit[e] # "writing"
  BY DEF Return
<1> USE DEF clientVars, storeVars
<1>2. /\ queue' \in Seq(Edits)
      /\ stage' \in [Edits -> Stages] /\ result' \in [Edits -> Results]
      /\ stage'[e] = "done" /\ result'[e] = how
      /\ \A f \in Edits \ {e} : stage'[f] = stage[f] /\ result'[f] = result[f]
      /\ QueueSound'
  BY <1>1, Finishing DEF Results
<1>3. thread[e] = "none"
  BY <1>1 DEF OneDiskWriter
<1>4. TypeOK'
  BY <1>1, <1>2 DEF TypeOK
<1>5. OneDiskWriter' /\ StepsInOrder'
  BY <1>1, <1>2, <1>3 DEF OneDiskWriter, StepsInOrder
<1>6. BuiltOnCurrent' /\ DiskFollows'
  BY <1>1, <1>2 DEF BuiltOnCurrent, Matches, DiskFollows, DiskMatchesRuntime
<1>7. TracesMatchSteps'
  BY <1>1, <1>2 DEF TracesMatchSteps
<1> QED  BY <1>2, <1>4, <1>5, <1>6, <1>7

(* Only the first cancellation of an edit leaves its commit alone, so the  *)
(* edits of this theorem are cancelled once.                               *)
LEMMA CancelStep ==
    ASSUME ConfigInv, MaxCancels <= 1, NEW e \in Edits, Cancel(e)
    PROVE  ConfigInv'
<1> USE DEF ConfigInv
<1>1. /\ stage[e] \notin {"idle", "done"} /\ cancels[e] < MaxCancels
      /\ cancels' = [cancels EXCEPT ![e] = @ + 1]
      /\ UNCHANGED <<config, clientVars, storeVars>>
  BY DEF Cancel
<1> USE DEF clientVars, storeVars
<1>2. /\ cancels[e] = 0 /\ MaxCancels \in Nat /\ 1 <= MaxCancels /\ stage[e] # "joining"
  BY <1>1, EditAssumption DEF StepsInOrder, TypeOK
<1>3. /\ cancels' \in [Edits -> 0 .. MaxCancels] /\ cancels'[e] = 1
      /\ \A f \in Edits \ {e} : cancels'[f] = cancels[f]
  BY <1>1, <1>2 DEF TypeOK
<1>4. CASE /\ stage[e] = "committing" /\ stage' = [stage EXCEPT ![e] = "joining"]
           /\ UNCHANGED <<result, queue, commit, thread>>
  <2>1. stage'[e] = "joining" /\ \A f \in Edits \ {e} : stage'[f] = stage[f]
    BY <1>4 DEF TypeOK
  <2>2. TypeOK'
    BY <1>1, <1>3, <1>4 DEF TypeOK, Stages
  <2>3. QueueSound'
    BY <1>4, <2>1 DEF QueueSound, Holds
  <2>4. OneDiskWriter' /\ StepsInOrder'
    BY <1>3, <1>4, <2>1 DEF OneDiskWriter, StepsInOrder
  <2>5. BuiltOnCurrent' /\ DiskFollows' /\ TracesMatchSteps'
    BY <1>1, <1>4, <2>1 DEF BuiltOnCurrent, Matches, DiskFollows, DiskMatchesRuntime,
                            TracesMatchSteps
  <2> QED  BY <2>2, <2>3, <2>4, <2>5
<1>5. CASE /\ stage[e] \in {"waiting", "preparing"} /\ Finish(e, "cancelled")
           /\ UNCHANGED <<commit, thread>>
  <2>1. /\ queue' \in Seq(Edits)
        /\ stage' \in [Edits -> Stages] /\ result' \in [Edits -> Results]
        /\ stage'[e] = "done" /\ result'[e] = "cancelled"
        /\ \A f \in Edits \ {e} : stage'[f] = stage[f] /\ result'[f] = result[f]
        /\ QueueSound'
    BY <1>5, Finishing DEF Results
  <2>2. thread[e] = "none"
    BY <1>5 DEF OneDiskWriter
  <2>3. TypeOK'
    BY <1>1, <1>3, <1>5, <2>1 DEF TypeOK
  <2>4. OneDiskWriter' /\ StepsInOrder'
    BY <1>3, <1>5, <2>1, <2>2, SMTT(30) DEF OneDiskWriter, StepsInOrder
  <2>5. BuiltOnCurrent' /\ DiskFollows' /\ TracesMatchSteps'
    BY <1>1, <1>5, <2>1 DEF BuiltOnCurrent, Matches, DiskFollows, DiskMatchesRuntime,
                            TracesMatchSteps
  <2> QED  BY <2>1, <2>3, <2>4, <2>5
<1> QED  BY <1>2, <1>4, <1>5 DEF Cancel

LEMMA CrashStep ==
    ASSUME ConfigInv, Crash
    PROVE  ConfigInv'
<1> USE DEF ConfigInv
<1>1. /\ revision' = revision + 1
      /\ runtime' = (IF Persistent THEN disk ELSE {})
      /\ queue' = <<>>
      /\ stage' = [e \in Edits |-> IF stage[e] = "idle" THEN "idle" ELSE "done"]
      /\ result' = [e \in Edits |-> IF stage[e] \in {"idle", "done"} THEN result[e] ELSE "lost"]
      /\ commit' = [e \in Edits |-> IF commit[e] = "writing" THEN "cancelled" ELSE commit[e]]
      /\ thread' = [e \in Edits |-> "none"]
      /\ UNCHANGED <<config, cancels, clientVars, disk>>
  BY DEF Crash
<1> USE DEF clientVars
<1>2. queue' \in Seq(Edits) /\ Len(queue') = 0
  BY <1>1, EmptySeq
<1>3. TypeOK'
  BY <1>1, <1>2 DEF TypeOK, Stages, Results
<1>4. QueueSound'
  BY <1>1, <1>2 DEF QueueSound
<1>5. OneDiskWriter' /\ StepsInOrder'
  BY <1>1 DEF OneDiskWriter, StepsInOrder
<1>6. BuiltOnCurrent'
  <2>1. \A f \in Edits : seen[f] \in Nat /\ revision \in Nat /\ seen[f] <= revision
    BY DEF TypeOK, BuiltOnCurrent
  <2>2. \A f \in Edits : seen'[f] <= revision' /\ seen'[f] # revision'
    BY <1>1, <2>1
  <2>3. \A f \in Edits : stage'[f] # "preparing" /\ thread'[f] = "none"
    BY <1>1
  <2> QED  BY <2>2, <2>3 DEF BuiltOnCurrent, Matches
<1>7. DiskFollows'
  BY <1>1 DEF DiskFollows, DiskMatchesRuntime
<1>8. Persistent => runtime \subseteq disk
  <2>1. CASE \A f \in Edits : thread[f] = "none"
    BY <2>1 DEF DiskFollows, DiskMatchesRuntime
  <2>2. ASSUME NEW f \in Edits, thread[f] # "none", Persistent
        PROVE  runtime \subseteq disk
    BY <2>2 DEF DiskFollows, BuiltOnCurrent
  <2> QED  BY <2>1, <2>2
<1>9. TracesMatchSteps'
  <2> SUFFICES ASSUME NEW f \in Edits
               PROVE  /\ \/ stage'[f] \in {"idle", "waiting", "preparing"}
                         \/ commit'[f] = "failed"
                         \/ result'[f] \in {"stale", "invalid"}
                         => f \notin runtime' \cup disk'
                      /\ Persistent /\ commit'[f] = "published" => f \in runtime'
    BY <1>1 DEF TracesMatchSteps
  <2>1. runtime' \cup disk' \subseteq runtime \cup disk
    BY <1>1
  <2>2. /\ stage'[f] \in {"idle", "waiting", "preparing"} => stage[f] = "idle"
        /\ commit'[f] = "failed" => commit[f] = "failed"
        /\ commit'[f] = "published" => commit[f] = "published"
        /\ result'[f] \in {"stale", "invalid"} => result[f] \in {"stale", "invalid"}
    BY <1>1
  <2> QED  BY <2>1, <2>2, <1>1, <1>8 DEF TracesMatchSteps
<1> QED  BY <1>3, <1>4, <1>5, <1>6, <1>7, <1>9

LEMMA PluginPublishesStep ==
    ASSUME ConfigInv, PluginPublishes
    PROVE  ConfigInv'
<1> USE DEF ConfigInv
<1>1. /\ queue = <<>> /\ revision' = revision + 1
      /\ UNCHANGED <<editVars, clientVars, runtime, disk, queue, commit, thread>>
  BY DEF PluginPublishes
<1> USE DEF editVars, clientVars
<1>2. TypeOK'
  BY <1>1 DEF TypeOK
<1>3. QueueSound' /\ OneDiskWriter' /\ StepsInOrder' /\ DiskFollows' /\ TracesMatchSteps'
  BY <1>1 DEF QueueSound, Holds, OneDiskWriter, StepsInOrder, DiskFollows,
              DiskMatchesRuntime, TracesMatchSteps
<1>4. BuiltOnCurrent'
  <2>1. \A f \in Edits : seen[f] \in Nat /\ revision \in Nat /\ seen[f] <= revision
    BY DEF TypeOK, BuiltOnCurrent
  <2>2. \A f \in Edits : seen'[f] <= revision' /\ seen'[f] # revision'
    BY <1>1, <2>1
  <2> QED  BY <1>1, <2>2 DEF BuiltOnCurrent, Matches
<1> QED  BY <1>2, <1>3, <1>4

(* ConfigInv holds throughout: an edit that is being prepared or written   *)
(* is built on the configuration in force, one thread writes the file, and *)
(* what an edit leaves in memory and on disk matches how far it came.      *)
THEOREM ConfigInvariant ==
    ASSUME MaxCancels <= 1
    PROVE  Spec => []ConfigInv
<1>1. Init => ConfigInv
  BY InitConfig
<1>2. ConfigInv /\ [Next]_vars => ConfigInv'
  <2> SUFFICES ASSUME ConfigInv, [Next]_vars
               PROVE  ConfigInv'
    OBVIOUS
  <2>1. ASSUME NEW e \in Edits, Read(e) PROVE ConfigInv'
    BY <2>1, ReadStep
  <2>2. ASSUME NEW e \in Edits, Send(e) PROVE ConfigInv'
    BY <2>2, SendStep
  <2>3. ASSUME NEW e \in Edits, Progress(e) PROVE ConfigInv'
    BY <2>3, BeginStep, PreparedStep, PublishStep, PersistFailsStep, ReturnStep DEF Progress
  <2>4. ASSUME NEW e \in Edits, DiskWrites(e) PROVE ConfigInv'
    BY <2>4, DiskWritesStep
  <2>5. ASSUME NEW e \in Edits, Cancel(e) PROVE ConfigInv'
    BY <2>5, CancelStep
  <2>6. CASE Crash
    BY <2>6, CrashStep
  <2>7. CASE PluginPublishes
    BY <2>7, PluginPublishesStep
  <2>8. CASE UNCHANGED vars
    BY <2>8 DEF vars, editVars, clientVars, storeVars, ConfigInv, TypeOK, QueueSound, Holds,
                OneDiskWriter, StepsInOrder, BuiltOnCurrent, Matches, DiskFollows,
                DiskMatchesRuntime, TracesMatchSteps
  <2> QED  BY <2>1, <2>2, <2>3, <2>4, <2>5, <2>6, <2>7, <2>8 DEF Next
<1> QED  BY <1>1, <1>2, PTL DEF Spec

(* The file and the running gateway agree whenever no write is under way,  *)
(* for any number of concurrent edits, failed writes and crashes.          *)
THEOREM DiskAgrees ==
    ASSUME MaxCancels <= 1
    PROVE  Spec => []DiskMatchesRuntime
<1>1. ConfigInv => DiskMatchesRuntime
  BY DEF ConfigInv, DiskFollows
<1> QED  BY <1>1, ConfigInvariant, PTL

(* No acknowledged edit is lost and no refused one leaves a trace.         *)
THEOREM EditsKeptWhole ==
    ASSUME MaxCancels <= 1
    PROVE  Spec => []EditsAllOrNothing
<1>1. ConfigInv => EditsAllOrNothing
  BY DEF ConfigInv, StepsInOrder, TracesMatchSteps, EditsAllOrNothing,
         AcknowledgedEditsLast, RefusedEditsLeaveNothing
<1> QED  BY <1>1, ConfigInvariant, PTL
=============================================================================
