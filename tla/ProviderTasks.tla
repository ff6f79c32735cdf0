---------------------------- MODULE ProviderTasks ----------------------------
(***************************************************************************)
(* One task of one adapter, from create to the end of its reservation: the *)
(* vendor's job or generation calls, the adapter's own record of the task, *)
(* and the gateway polling it, first inside a synchronous create           *)
(* (_await_or_timeout), then by the supervisor's monitor.  The polls of a  *)
(* task come one after the other: its id is answered to the client only    *)
(* when the monitor has its snapshot.                                      *)
(***************************************************************************)
EXTENDS AdapterReplies, Naturals

CONSTANTS
    Adapters,       \* the adapters the runs pick from
    MaxStarted,     \* bound: generation calls of one task
    MaxTurns        \* bound: turns of FLUX's own poll loop (150 in the code)

ASSUME ProviderBounds == MaxStarted \in Nat \ {0} /\ MaxTurns \in Nat \ {0}

MaxPollErrors == 3      \* _MAX_CONSECUTIVE_POLL_ERRORS
MaxCreateAttempts == 3  \* acestep's _create_max_attempts

(* Adapters whose create starts a job at the vendor.                       *)
JobAdapters == {"minimax_video", "omni", "veo", "xai_video", "volcengine_video",
    "openrouter_video", "dashscope_video", "dashscope_native_video", "mureka", "udio",
    "openai_video", "acestep"}

(* Adapters that generate inside the first poll of a task they made up.    *)
ImageAdapters == {"openai_image", "xai_image", "volcengine_image", "openrouter_image",
    "imagen", "gemini_image", "stability_image"}
CallAdapters == ImageAdapters \cup {"minimax_music", "lyria", "vertex_music", "svd",
    "elevenlabs_music", "acestep_completion", "speech"}
LoopAdapters == {"flux", "dashscope_image"}
VoiceAdapters == {"minimax_voice", "openai_voice", "elevenlabs_voice"}

ASSUME KnownAdapters ==
    Adapters \subseteq JobAdapters \cup CallAdapters \cup LoopAdapters \cup VoiceAdapters

VARIABLES
    adapter,    \* the adapter that owns the task
    sync,       \* created with wait=True
    watch,      \* who looks at the task now
    step,       \* the call in progress of an adapter that makes several
    job,        \* the vendor's job, or the voice's verification
    rec,        \* the adapter's record: [status, media, verify]
    shown,      \* the supervisor's snapshot, or the last task the create saw
    errors,     \* consecutive failed polls of the monitor
    hold,       \* the ledger's reservation: "held", "charged", "released"
    started,    \* history: generations the vendor may have started
    unread,     \* history: those whose answer had no verdict
    turns       \* turns of the adapter's own poll loop, or create attempts

vars == <<adapter, sync, watch, step, job, rec, shown, errors, hold, started, unread, turns>>

NoJob == [word |-> "none", media |-> FALSE]

-----------------------------------------------------------------------------
(* The vendors' vocabularies, as docs/providers/reference.md and the       *)
(* comments beside the adapters' calls state them; the adapters' own       *)
(* tables are in AdapterReplies.  A job ends with one of the end words.    *)
(* "unlisted" is a stage on the way that nobody wrote down, and "unlisted  *)
(* end" an end that nobody wrote down.                                     *)

DoneWords == {"succeeded", "success", "completed", "complete", "done", "SUCCEEDED", "1"}

FailedWords == {"failed", "error", "cancelled", "expired", "incomplete",
    "budget_exceeded", "requires_action", "FAILED", "CANCELED", "UNKNOWN",
    "fail_message", "FAIL", "FAIL, no tracks", "2"}

EndWords == DoneWords \cup FailedWords \cup {"unlisted end"}

DashScopeStates ==
    {"PENDING", "RUNNING", "SUSPENDED", "SUCCEEDED", "FAILED", "CANCELED", "UNKNOWN"}

VendorWords ==
    [minimax_video |-> {"queued", "running", "processing", "succeeded", "failed", "cancelled"},
     omni |-> {"queued", "in_progress", "completed", "failed", "cancelled", "incomplete",
               "budget_exceeded", "requires_action"},
     veo |-> {"undone", "done", "error"},
     xai_video |-> {"pending", "done", "failed"},
     volcengine_video |-> {"queued", "running", "succeeded", "failed", "cancelled"},
     openrouter_video |-> {"pending", "in_progress", "completed", "failed", "cancelled", "expired"},
     dashscope_video |-> DashScopeStates,
     dashscope_native_video |-> DashScopeStates,
     dashscope_image |-> DashScopeStates,
     mureka |-> {"queued", "pending", "running", "processing", "succeeded", "success",
                 "completed", "failed", "error"},
     udio |-> {"text", "first", "complete", "fail_message", "FAIL", "FAIL, no tracks"},
     openai_video |-> {"queued", "in_progress", "completed", "failed"},
     acestep |-> {"0", "1", "2"},
     flux |-> {"completed", "failed"}]

(* Veo's operation says no more than whether it is done.                   *)
Vocabulary(a) ==
    VendorWords[a] \cup (IF a = "veo" THEN {} ELSE {"unlisted", "unlisted end"})

PollOf(a, answer) ==
    CASE a = "minimax_video" -> MinimaxVideoPoll(answer)
      [] a = "omni" -> OmniTask(answer)
      [] a = "veo" -> VeoPoll(answer)
      [] a = "xai_video" -> XaiVideoPoll(answer)
      [] a = "volcengine_video" -> VolcengineVideoPoll(answer)
      [] a = "openrouter_video" -> OpenRouterVideoPoll(answer)
      [] a \in {"dashscope_video", "dashscope_native_video"} -> DashScopeVideoPoll(answer)
      [] a = "mureka" -> MurekaPoll(answer)
      [] a = "udio" -> UdioPoll(answer)
      [] a = "openai_video" -> OpenAIVideoPoll(answer)
      [] a = "acestep" -> AcestepPoll(answer)

GenerateOf(a, answer) ==
    CASE a = "openai_image" -> SyncImageGet(OpenAIImage(answer))
      [] a = "xai_image" -> SyncImageGet(XaiImage(answer))
      [] a = "volcengine_image" -> SyncImageGet(VolcengineImage(answer))
      [] a = "openrouter_image" -> SyncImageGet(OpenRouterImage(answer))
      [] a = "imagen" -> SyncImageGet(GenaiImagen(answer))
      [] a = "gemini_image" -> SyncImageGet(GenaiContentImage(answer))
      [] a = "stability_image" -> SyncImageGet(StabilityImage(answer))
      [] a = "minimax_music" -> MinimaxMusicGet(answer)
      [] a = "lyria" -> LyriaGet(answer)
      [] a = "vertex_music" -> VertexMusicGet(answer)
      [] a = "svd" -> SvdGet(answer)
      [] a = "elevenlabs_music" -> ElevenLabsMusicGet(answer)
      [] a = "acestep_completion" -> CompletionGet(answer)
      [] a = "speech" -> SpeechObserve(answer)

-----------------------------------------------------------------------------
(* What the gateway does with a poll.                                      *)

(* settlement: the callback settles the task under the id the poll         *)
(* returned; a reservation filed under another id is not found.            *)
Settle(t) ==
    IF ~t.own THEN hold
    ELSE IF t.status = "succeeded" THEN "charged" ELSE "released"

(* The supervisor takes over, or ends at once with a terminal task.        *)
Observe(t) ==
    /\ shown' = t
    /\ IF t.status \in Terminal
       THEN watch' = "ended" /\ hold' = Settle(t)
       ELSE watch' = "monitor" /\ UNCHANGED hold

(* Mutant: the create that fails while it waits keeps its reservation.     *)
SyncPolledKeepingHold(t) ==
    /\ watch = "wait"
    /\ UNCHANGED errors
    /\ \/ /\ t = Raised
          /\ watch' = "create failed"
          /\ UNCHANGED <<shown, hold>>
       \/ /\ t # Raised
          /\ t.status \in Terminal
          /\ Observe(t)
       \/ /\ t # Raised
          /\ t.status \notin Terminal
          /\ shown' = t
          /\ UNCHANGED <<watch, hold>>

(* A poll inside the create: its exception is the create's.                *)
SyncPolled(t) ==
    /\ watch = "wait"
    /\ UNCHANGED errors
    /\ \/ /\ t = Raised
          /\ watch' = "create failed"
          /\ hold' = "released"
          /\ UNCHANGED shown
       \/ /\ t # Raised
          /\ t.status \in Terminal
          /\ Observe(t)
       \/ /\ t # Raised
          /\ t.status \notin Terminal
          /\ shown' = t
          /\ UNCHANGED <<watch, hold>>

(* A poll of the monitor: only MaxPollErrors failures in a row end a task. *)
MonitorPolled(t) ==
    /\ watch = "monitor"
    /\ \/ /\ t = Raised
          /\ errors' = errors + 1
          /\ IF errors' = MaxPollErrors
             THEN Observe([shown EXCEPT !.status = "failed"])
             ELSE UNCHANGED <<watch, shown, hold>>
       \/ /\ t # Raised
          /\ errors' = 0
          /\ Observe(t)

Polled(t) == SyncPolled(t) \/ MonitorPolled(t)

(* The sync wait's deadline passes between two polls.                      *)
SyncWaitTimesOut ==
    /\ watch = "wait"
    /\ step = "none"
    /\ Observe(shown)
    /\ UNCHANGED <<adapter, sync, step, job, rec, errors, started, unread, turns>>

Watched == watch \in {"wait", "monitor"}

-----------------------------------------------------------------------------
(* Creates.                                                                *)

(* The supervisor registers the task of an asynchronous create; execute_plan *)
(* has bound the hold to its id.                                           *)
Accepted(t) ==
    IF sync THEN shown' = t /\ watch' = "wait" /\ UNCHANGED hold ELSE Observe(t)

CreateOf(a, got) ==
    CASE a = "minimax_video" -> MinimaxVideoCreate(got)
      [] a = "omni" -> OmniCreate(got)
      [] a = "veo" -> VeoCreate(got)
      [] a = "xai_video" -> XaiVideoCreate(got)
      [] a = "volcengine_video" -> VolcengineVideoCreate(got)
      [] a = "openrouter_video" -> OpenRouterVideoCreate(got)
      [] a = "dashscope_video" -> DashScopeVideoCreate(got)
      [] a = "dashscope_native_video" -> DashScopeNativeCreate(got)
      [] a = "mureka" -> MurekaCreate(got)
      [] a = "udio" -> UdioCreate(got)
      [] a = "openai_video" -> OpenAIVideoCreate(got)
      [] a = "acestep" -> AcestepCreate(got)
      [] a = "minimax_music" -> MinimaxMusicCreate(got)
      [] a = "lyria" -> LyriaCreate(got)
      [] a = "vertex_music" -> VertexMusicCreate(got)
      [] a = "svd" -> SvdCreate(got)
      [] a = "elevenlabs_music" -> ElevenLabsMusicCreate(got)
      [] a = "acestep_completion" -> CompletionCreate(got)
      [] a = "speech" -> SpeechCreate(got)
      [] a \in VoiceAdapters -> VoiceCreate(got)
      [] a \in ImageAdapters \cup LoopAdapters -> SyncImageCreate(got)

(* Nothing but a record: the generation waits for the first poll.          *)
CreateLocal ==
    /\ watch = "create"
    /\ adapter \notin JobAdapters
    /\ rec' = [rec EXCEPT !.status = "pending"]
    /\ Accepted(CreateOf(adapter, [ok |-> TRUE]))
    /\ UNCHANGED <<adapter, sync, step, job, errors, started, unread, turns>>

(* The request lacks what the adapter insists on: no record is made.       *)
CreateLocalFails ==
    /\ watch = "create"
    /\ adapter \notin JobAdapters
    /\ CreateOf(adapter, [ok |-> FALSE]) = Raised
    /\ watch' = "create failed"
    /\ hold' = "released"
    /\ UNCHANGED <<adapter, sync, step, job, rec, shown, errors, started, unread, turns>>

CreateJob ==
    /\ watch = "create"
    /\ adapter \in JobAdapters
    /\ \E w \in Vocabulary(adapter) \ DoneWords :
         /\ job' = [word |-> w, media |-> FALSE]
         /\ Accepted(CreateOf(adapter, [id |-> TRUE, word |-> w]))
    /\ started' = started + 1
    /\ turns' = 0
    /\ UNCHANGED <<adapter, sync, step, rec, errors, unread>>

(* acestep submits again after a timeout, or a 502, 503 or 504.            *)
ResubmitJob ==
    /\ watch = "create"
    /\ adapter = "acestep"
    /\ turns < MaxCreateAttempts - 1
    /\ turns' = turns + 1
    /\ started' = started + 1
    /\ unread' = unread + 1
    /\ UNCHANGED <<adapter, sync, watch, step, job, rec, shown, errors, hold>>

(* No task id: refused, no answer, or an answer without one.               *)
CreateJobFails ==
    /\ watch = "create"
    /\ adapter \in JobAdapters
    /\ CreateOf(adapter, [id |-> FALSE]) = Raised
    /\ watch' = "create failed"
    /\ hold' = "released"
    /\ turns' = 0
    /\ \/ UNCHANGED <<started, unread>>
       \/ started' = started + 1 /\ unread' = unread + 1
    /\ UNCHANGED <<adapter, sync, step, job, rec, shown, errors>>

-----------------------------------------------------------------------------
(* Adapters with a job at the vendor.                                      *)

Live == job # NoJob /\ job.word \notin EndWords \cup {"unverified", "verified"}

VendorMoves ==
    /\ Live
    /\ \E w \in Vocabulary(adapter) \ {job.word}, m \in BOOLEAN :
         /\ m => w \in DoneWords \cup {"unlisted end"}
         /\ job' = [word |-> w, media |-> m]
    /\ UNCHANGED <<adapter, sync, watch, step, rec, shown, errors, hold, started, unread, turns>>

(* A readable answer.  OpenAI's video is downloaded in the same poll.      *)
PollReads ==
    /\ Watched
    /\ adapter \in JobAdapters
    /\ Polled(PollOf(adapter, job))
    /\ UNCHANGED <<adapter, sync, step, job, rec, started, unread, turns>>

DownloadFails ==
    /\ Watched
    /\ adapter = "openai_video"
    /\ job.word = "completed"
    /\ Polled(OpenAIVideoPoll([job EXCEPT !.media = FALSE]))
    /\ UNCHANGED <<adapter, sync, step, job, rec, started, unread, turns>>

(* A body without a status.                                                *)
PollReadsNothing ==
    /\ Watched
    /\ adapter \in JobAdapters \ {"veo", "openai_video"}
    /\ Polled(PollOf(adapter, NoJob))
    /\ UNCHANGED <<adapter, sync, step, job, rec, started, unread, turns>>

(* A timeout, a transport error, HTTP 400 and above, or a garbled body.    *)
PollFails ==
    /\ Watched
    /\ adapter \in JobAdapters
    /\ Polled(Raised)
    /\ UNCHANGED <<adapter, sync, step, job, rec, started, unread, turns>>

-----------------------------------------------------------------------------
(* Adapters that generate inside a poll.                                   *)

Open == rec.status \in {"pending", "running"}

(* The answers that leave no trace of a generation at the vendor.          *)
NotStarted == {"refused", "rejected"}

Record(status) == [rec EXCEPT !.status = status, !.media = status = "succeeded"]

GenerateInPoll ==
    /\ Watched
    /\ adapter \in CallAdapters
    /\ Open
    /\ started < MaxStarted
    /\ \E a \in Answers :
         LET got == GenerateOf(adapter, a)
         IN  /\ rec' = [Record(got.rec) EXCEPT !.media = got.view.media]
             /\ Polled(got.view)
             /\ started' = IF a \in NotStarted THEN started ELSE started + 1
             /\ unread' = IF a \in {"unfinished", "garbled", "lost"}
                          THEN unread + 1 ELSE unread
    /\ UNCHANGED <<adapter, sync, step, job, turns>>

(* A task that ended is shown from the record, without a call.             *)
PollCached ==
    /\ Watched
    /\ adapter \notin JobAdapters
    /\ rec.status \in {"succeeded", "failed"}
    /\ Polled(View(rec.status, rec.media))
    /\ UNCHANGED <<adapter, sync, step, job, rec, started, unread, turns>>

-----------------------------------------------------------------------------
(* FLUX and DashScope images: the poll submits a job and loops on it.      *)

LoopEnds(got) ==
    /\ step' = "none"
    /\ rec' = [Record(got.rec) EXCEPT !.media = got.view.media]
    /\ Polled(got.view)

LoopSubmit ==
    /\ Watched
    /\ adapter \in LoopAdapters
    /\ Open
    /\ step = "none"
    /\ adapter = "dashscope_image" => ~sync
    /\ started' = started + 1
    /\ \/ /\ step' = "polling"
          /\ job' = [word |-> "unlisted", media |-> FALSE]
          /\ rec' = [rec EXCEPT !.status = "running"]
          /\ UNCHANGED <<unread, watch, shown, errors, hold>>
       \/ /\ LoopEnds(SyncImageGet("raised"))
          /\ unread' = unread + 1
          /\ UNCHANGED job
    /\ UNCHANGED <<adapter, sync, turns>>

(* The submit is refused; DashScope's rejection of asynchronous calls      *)
(* turns to the synchronous one, within the same poll.                     *)
LoopRefused ==
    /\ Watched
    /\ adapter \in LoopAdapters
    /\ Open
    /\ step = "none"
    /\ adapter = "dashscope_image" => ~sync
    /\ \/ /\ LoopEnds(SyncImageGet("raised"))
       \/ /\ adapter = "dashscope_image"
          /\ step' = "inline"
          /\ rec' = [rec EXCEPT !.status = "running"]
          /\ UNCHANGED <<watch, shown, errors, hold>>
    /\ UNCHANGED <<adapter, sync, job, started, unread, turns>>

LoopImages(status) ==
    CASE status # "succeeded" -> {"raised"}
      [] job.media -> {"media"}
      [] OTHER -> {"blank", "empty"}

FluxTurn ==
    /\ adapter = "flux"
    /\ step = "polling"
    /\ turns < MaxTurns
    /\ LET status == Reported(FluxWords, "running", job.word)
       IN  \/ /\ status = "running"
              /\ turns' = turns + 1
              /\ UNCHANGED <<step, rec, watch, shown, errors, hold>>
           \/ /\ status # "running"
              /\ \E images \in LoopImages(status) : LoopEnds(SyncImageGet(images))
              /\ UNCHANGED turns
    /\ UNCHANGED <<adapter, sync, job, started, unread>>

FluxGivesUp ==
    /\ adapter = "flux"
    /\ step = "polling"
    /\ turns = MaxTurns
    /\ LoopEnds(SyncImageGet("raised"))
    /\ UNCHANGED <<adapter, sync, job, started, unread, turns>>

(* _poll_task: only a terminal status ends the loop.                       *)
DashScopeTurn ==
    /\ adapter = "dashscope_image"
    /\ step = "polling"
    /\ LET status == Reported(DashScopeWords, "running", job.word)
       IN  /\ status \in Terminal
           /\ \E images \in LoopImages(status) : LoopEnds(SyncImageGet(images))
    /\ UNCHANGED <<adapter, sync, job, started, unread, turns>>

(* An answer without output counts as "running": the loop goes on.         *)
DashScopeTurnNoOutput ==
    /\ adapter = "dashscope_image"
    /\ step = "polling"
    /\ step' = "polling again"
    /\ UNCHANGED <<adapter, sync, watch, job, rec, shown, errors, hold, started, unread, turns>>

DashScopeTurnAgain ==
    /\ step = "polling again"
    /\ step' = "polling"
    /\ UNCHANGED <<adapter, sync, watch, job, rec, shown, errors, hold, started, unread, turns>>

(* A failed poll of the job is the failure of the whole generation.        *)
LoopPollFails ==
    /\ step = "polling"
    /\ LoopEnds(SyncImageGet("raised"))
    /\ UNCHANGED <<adapter, sync, job, started, unread, turns>>

DashScopeInline ==
    /\ adapter = "dashscope_image"
    /\ Open
    /\ Watched
    /\ step = IF sync THEN "none" ELSE "inline"
    /\ \E a \in {"media", "blank", "raised"} : LoopEnds(SyncImageGet(a))
    /\ started' = started + 1
    /\ UNCHANGED <<adapter, sync, job, unread, turns>>

-----------------------------------------------------------------------------
(* Voice clones.                                                           *)

(* Loading the samples and, for MiniMax and OpenAI, a first upload.        *)
ClonePrepare ==
    /\ Watched
    /\ adapter \in VoiceAdapters
    /\ Open /\ ~rec.verify
    /\ step = "none"
    /\ \/ /\ step' = "prepared"
          /\ rec' = [rec EXCEPT !.status = "running"]
          /\ UNCHANGED <<watch, shown, errors, hold>>
       \/ LoopEnds(Kept(View("failed", FALSE)))
    /\ UNCHANGED <<adapter, sync, job, started, unread, turns>>

(* The clone; ElevenLabs may ask for a verification of the voice.          *)
CloneCall ==
    /\ step = "prepared"
    /\ \/ LoopEnds(SpeechObserve("media")) /\ UNCHANGED job
       \/ \E a \in Answers \ {"media", "blank"} : LoopEnds(SpeechObserve(a)) /\ UNCHANGED job
       \/ /\ adapter = "elevenlabs_voice"
          /\ job' = [word |-> "unverified", media |-> TRUE]
          /\ step' = "none"
          /\ rec' = [status |-> "running", media |-> TRUE, verify |-> TRUE]
          /\ Polled(View("running", TRUE))
    /\ started' = started + 1
    /\ UNCHANGED <<adapter, sync, unread, turns>>

VendorVerifies ==
    /\ job.word = "unverified"
    /\ job' = [job EXCEPT !.word = "verified"]
    /\ UNCHANGED <<adapter, sync, watch, step, rec, shown, errors, hold, started, unread, turns>>

(* Only a verification that was seen counts.                               *)
VerificationSeen(seen) == seen /\ job.word = "verified"

(* The voice is not cloned again: only its verification is looked up.      *)
CheckVerification ==
    /\ Watched
    /\ rec.verify
    /\ Open
    /\ \/ \E seen \in BOOLEAN :
            LET done == VerificationSeen(seen)
            IN  /\ rec' = [rec EXCEPT !.status = IF done THEN "succeeded" ELSE @,
                                      !.verify = ~done]
                /\ Polled(View(rec'.status, TRUE))
       \/ UNCHANGED rec /\ Polled(Raised)
    /\ UNCHANGED <<adapter, sync, step, job, started, unread, turns>>

-----------------------------------------------------------------------------
Init ==
    /\ adapter \in Adapters
    /\ sync \in BOOLEAN
    /\ watch = "create"
    /\ step = "none"
    /\ job = NoJob
    /\ rec = [status |-> "none", media |-> FALSE, verify |-> FALSE]
    /\ shown = View("none", FALSE)
    /\ errors = 0
    /\ hold = "held"
    /\ started = 0
    /\ unread = 0
    /\ turns = 0

VendorNext == VendorMoves \/ VendorVerifies

PollNext ==
    \/ PollReads \/ PollReadsNothing \/ PollFails \/ DownloadFails
    \/ GenerateInPoll \/ PollCached
    \/ LoopSubmit \/ LoopRefused \/ LoopPollFails \/ FluxTurn \/ FluxGivesUp
    \/ DashScopeTurn \/ DashScopeTurnNoOutput \/ DashScopeTurnAgain \/ DashScopeInline
    \/ ClonePrepare \/ CloneCall \/ CheckVerification

Next ==
    \/ CreateLocal \/ CreateLocalFails \/ CreateJob \/ ResubmitJob \/ CreateJobFails
    \/ SyncWaitTimesOut
    \/ PollNext
    \/ VendorNext

Spec == Init /\ [][Next]_vars

(* The monitor keeps polling, vendors answer readably again and again, and *)
(* end their jobs.                                                         *)
FairSpec ==
    /\ Spec
    /\ WF_vars(CreateLocal \/ CreateLocalFails \/ CreateJob \/ CreateJobFails)
    /\ WF_vars(SyncWaitTimesOut)
    /\ WF_vars(PollReads)
    /\ WF_vars(GenerateInPoll \/ PollCached)
    /\ WF_vars(LoopSubmit \/ LoopRefused \/ FluxTurn \/ FluxGivesUp \/ DashScopeInline)
    /\ SF_vars(DashScopeTurn)
    /\ WF_vars(DashScopeTurnAgain)
    /\ WF_vars(ClonePrepare \/ CloneCall)
    /\ WF_vars(VendorVerifies)
    /\ SF_vars(CheckVerification /\ rec'.status = "succeeded")
    /\ WF_vars(VendorMoves /\ job'.word \in EndWords)

-----------------------------------------------------------------------------
(* Properties.                                                             *)

(* Adapters that check a success for media before they show it.            *)
ChecksMedia == {"minimax_video", "omni", "mureka", "udio", "acestep", "minimax_music",
    "lyria", "vertex_music", "svd", "elevenlabs_music", "acestep_completion", "speech",
    "gemini_image"} \cup VoiceAdapters

(* Adapters that call again when an answer had no verdict.                 *)
CallsAgain == {"minimax_music", "lyria", "svd", "acestep"}

(* The id of a task that is settled differs from the one it was bound to.  *)
Strays == adapter = "acestep_completion" /\ ~shown.own

(* The values of the state.                                                *)
ProviderTypeOK ==
    /\ watch \in {"create", "wait", "monitor", "ended", "create failed"}
    /\ step \in {"none", "polling", "polling again", "inline", "prepared"}
    /\ rec.status \in {"none", "pending", "running", "succeeded", "failed"}
    /\ shown.status \in Terminal \cup {"none", "pending", "running"}
    /\ errors \in 0..MaxPollErrors
    /\ hold \in {"held", "charged", "released"}
    /\ started \in 0..(MaxStarted + MaxCreateAttempts)

(* A task is generated once.  An answer that settled the question, good or *)
(* bad, is never followed by another call; the adapters that call again    *)
(* only do so after an answer without a verdict.                           *)
GeneratedOnce ==
    started <= 1 + (IF adapter \in CallsAgain THEN unread ELSE 0)

(* A job shown as succeeded ended well by its vendor's own words, and one  *)
(* shown as failed did not deliver, unless no poll was read MaxPollErrors  *)
(* times.                                                                  *)
AgreesWithVendor ==
    adapter \in JobAdapters =>
        /\ shown.status = "succeeded" => job.word \in DoneWords
        /\ shown.status \in Terminal \ {"succeeded"} =>
              errors = MaxPollErrors \/ job.word \in FailedWords \/ ~job.media

(* Success is only charged for adapters that check it together with the    *)
(* media: not a task without a file, a URL or a voice.                     *)
ChargedWithMedia ==
    hold = "charged" /\ adapter \in ChecksMedia => shown.media

(* A voice is shown as usable only after its verification, when the vendor *)
(* asked for one.                                                          *)
VoiceUsableWhenVerified ==
    adapter \in VoiceAdapters /\ shown.status = "succeeded" => job.word # "unverified"

(* The reservation of a task lasts exactly as long as the task is open: it *)
(* is charged when the task succeeded and released otherwise.              *)
HoldFollowsTask ==
    ~Strays =>
        /\ hold = "charged" <=> watch = "ended" /\ shown.status = "succeeded"
        /\ hold = "held" <=> watch \in {"create", "wait", "monitor"}

(* The gateway and the adapter's record agree on how a generation ended: a *)
(* task is not shown as ended while its record would let it run again, and *)
(* no create fails, with its reservation released, on a recorded success.  *)
RecordAgrees ==
    adapter \notin JobAdapters =>
        /\ watch = "ended" => shown.status = rec.status \/ errors = MaxPollErrors
        /\ watch = "create failed" => rec.status # "succeeded"

(* The types, and that a task's money follows what is shown of it: held    *)
(* while it is open, charged for media alone.                              *)
ProviderInv ==
    /\ ProviderTypeOK
    /\ HoldFollowsTask
    /\ ChargedWithMedia

(* How a task is shown to end is how it ended, at the vendor and in the    *)
(* adapter's own record.                                                   *)
EndsAgree ==
    /\ AgreesWithVendor
    /\ RecordAgrees
    /\ VoiceUsableWhenVerified

(* Tasks whose vendor's end is not readable: a job that ended under a word *)
(* nobody wrote down, which counts as running for ever, Udio's FAIL before *)
(* any track, and calls that keep being answered without a verdict.        *)
Unreadable ==
    \/ job.word \in {"unlisted end", "FAIL, no tracks"}
    \/ started = MaxStarted /\ Open

(* Every accepted task ends, in the create or in the monitor: each word a  *)
(* vendor is documented to end a job with is in its adapter's table, or    *)
(* the task would be polled for ever.                                      *)
EveryTaskEnds ==
    (watch \in {"wait", "monitor"}) ~> (~Watched \/ Unreadable)
=============================================================================
