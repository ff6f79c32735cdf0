--------------------------- MODULE AdapterReplies ---------------------------
(***************************************************************************)
(* What each adapter of mm_gateway/providers makes of an answer of its     *)
(* vendor: the status words it knows, and the task the gateway is shown.   *)
(*                                                                         *)
(* A vendor's answer about a job is [word, media]: the status it reports   *)
(* ("none" when the body has none) and whether the media is there.  The    *)
(* answer to a generation call made inside a poll is one of Answers.       *)
(***************************************************************************)
EXTENDS FiniteSets

Terminal == {"succeeded", "failed", "cancelled", "expired"}

(* A task as a poll returns it.  own: under the id create returned.        *)
View(status, media) == [status |-> status, media |-> media, own |-> TRUE]

Raised == View("raised", FALSE)     \* the poll raised instead

Answers == {
    "media",        \* usable media
    "blank",        \* an entry of the media list, with neither URL nor bytes
    "empty",        \* a good answer without any entry
    "rejected",     \* a good answer that says the generation failed
    "unfinished",   \* a good answer that says it is not done yet
    "garbled",      \* HTTP 2xx, not JSON
    "refused",      \* HTTP 400 and above
    "lost"}         \* a timeout or a transport error

-----------------------------------------------------------------------------
(* Status words.                                                           *)

Reported(words, otherwise, w) ==
    IF \E s \in DOMAIN words : w \in words[s]
    THEN CHOOSE s \in DOMAIN words : w \in words[s]
    ELSE otherwise

MinimaxVideoWords ==
    [pending |-> {"queued"}, running |-> {"running", "processing"},
     succeeded |-> {"succeeded"}, failed |-> {"failed"}, cancelled |-> {"cancelled"}]

OmniWords ==
    [pending |-> {"queued", "none"}, running |-> {"in_progress"},
     succeeded |-> {"completed"}, cancelled |-> {"cancelled"},
     failed |-> {"failed", "incomplete", "budget_exceeded", "requires_action"}]

VeoWords == [running |-> {"undone"}, succeeded |-> {"done"}, failed |-> {"error"}]

XaiVideoWords ==
    [pending |-> {"pending"}, succeeded |-> {"done"}, failed |-> {"failed"}]

VolcengineWords ==
    [pending |-> {"queued"}, running |-> {"running"}, succeeded |-> {"succeeded"},
     failed |-> {"failed"}, cancelled |-> {"cancelled"}]

OpenRouterWords ==
    [pending |-> {"pending"}, running |-> {"in_progress"},
     succeeded |-> {"completed"}, failed |-> {"failed"},
     cancelled |-> {"cancelled"}, expired |-> {"expired"}]

DashScopeWords ==
    [pending |-> {"PENDING"}, running |-> {"RUNNING", "SUSPENDED"},
     succeeded |-> {"SUCCEEDED"}, failed |-> {"FAILED", "UNKNOWN"},
     cancelled |-> {"CANCELED"}]

(* Mutant: one of the words the vendor ends a job with is not listed.      *)
MurekaWordsShort ==
    [pending |-> {"queued", "pending"}, running |-> {"running", "processing"},
     succeeded |-> {"succeeded", "success", "completed"}, failed |-> {"failed"}]

MurekaWords ==
    [pending |-> {"queued", "pending"}, running |-> {"running", "processing"},
     succeeded |-> {"succeeded", "success", "completed"}, failed |-> {"failed", "error"}]

(* Mutant: the track's first stage already counts as its end.              *)
UdioWordsEarly ==
    [running |-> {"text", "FAIL, no tracks"}, succeeded |-> {"first", "complete"},
     failed |-> {"fail_message", "FAIL"}]

(* The stage of a track; fail_message and FAIL are read before the stage,  *)
(* but only once there are tracks.                                         *)
UdioWords ==
    [running |-> {"text", "first", "FAIL, no tracks"}, succeeded |-> {"complete"},
     failed |-> {"fail_message", "FAIL"}]

OpenAIVideoWords ==
    [pending |-> {"queued"}, running |-> {"in_progress"},
     succeeded |-> {"completed"}, failed |-> {"failed"}]

AcestepWords == [running |-> {"0"}, succeeded |-> {"1"}, failed |-> {"2"}]

(* FLUX: any other word keeps its loop polling.                            *)
FluxWords == [succeeded |-> {"completed"}, failed |-> {"failed"}]

-----------------------------------------------------------------------------
(* One poll of a vendor's job.                                             *)

WhenSucceeded(status, media) == View(status, media /\ status = "succeeded")

(* Succeeded, but with nothing to deliver: shown as failed.                *)
Demoted(v) ==
    IF v.status = "succeeded" /\ ~v.media THEN View("failed", FALSE) ELSE v

MinimaxVideoPoll(a) ==
    IF a.word = "none" THEN Raised
    ELSE Demoted(WhenSucceeded(Reported(MinimaxVideoWords, "running", a.word), a.media))

OmniTask(a) == Demoted(WhenSucceeded(Reported(OmniWords, "running", a.word), a.media))

VeoPoll(a) == WhenSucceeded(Reported(VeoWords, "running", a.word), a.media)

XaiVideoPoll(a) == WhenSucceeded(Reported(XaiVideoWords, "running", a.word), a.media)

(* The URL is copied whatever the status is.                               *)
VolcengineVideoPoll(a) == View(Reported(VolcengineWords, "running", a.word), a.media)

OpenRouterVideoPoll(a) == View(Reported(OpenRouterWords, "running", a.word), a.media)

DashScopeVideoPoll(a) ==
    IF a.word = "none" THEN Raised
    ELSE WhenSucceeded(Reported(DashScopeWords, "running", a.word), a.media)

MurekaPoll(a) == Demoted(WhenSucceeded(Reported(MurekaWords, "running", a.word), a.media))

UdioPoll(a) == Demoted(WhenSucceeded(Reported(UdioWords, "running", a.word), a.media))

(* media: the download on completion worked; its failure is only logged.   *)
OpenAIVideoPoll(a) == WhenSucceeded(Reported(OpenAIVideoWords, "running", a.word), a.media)

(* A result whose file cannot be fetched is handed out as a URL.           *)
AcestepPoll(a) == Demoted(WhenSucceeded(Reported(AcestepWords, "running", a.word), a.media))

-----------------------------------------------------------------------------
(* Creates.  got is [id, word] for a vendor's job: an id came back, and    *)
(* the status with it; [ok] for a task the adapter makes up: the request   *)
(* holds what it insists on (a prompt or lyrics, an image, a valid voice). *)

Submitted(got) == IF got.id THEN View("pending", FALSE) ELSE Raised

SubmittedAs(got, status) == IF got.id THEN View(status, FALSE) ELSE Raised

MadeUp(got) == IF got.ok THEN View("pending", FALSE) ELSE Raised

MinimaxVideoCreate(got) == Submitted(got)
OmniCreate(got) ==
    IF got.id THEN OmniTask([word |-> got.word, media |-> FALSE]) ELSE Raised
VeoCreate(got) == Submitted(got)
XaiVideoCreate(got) == Submitted(got)
VolcengineVideoCreate(got) == Submitted(got)
OpenRouterVideoCreate(got) ==
    SubmittedAs(got, Reported(OpenRouterWords, "pending", got.word))
DashScopeVideoCreate(got) == Submitted(got)
DashScopeNativeCreate(got) == Submitted(got)
MurekaCreate(got) == Submitted(got)
UdioCreate(got) == Submitted(got)
OpenAIVideoCreate(got) ==
    SubmittedAs(got, Reported(OpenAIVideoWords, "running", got.word))
AcestepCreate(got) == Submitted(got)

SyncImageCreate(got) == View("pending", FALSE)
MinimaxMusicCreate(got) == MadeUp(got)
LyriaCreate(got) == MadeUp(got)
VertexMusicCreate(got) == MadeUp(got)
SvdCreate(got) == MadeUp(got)
ElevenLabsMusicCreate(got) == MadeUp(got)
CompletionCreate(got) == MadeUp(got)
SpeechCreate(got) == MadeUp(got)
VoiceCreate(got) == MadeUp(got)

-----------------------------------------------------------------------------
(* A generation call made inside a poll: what the poll returns, and the    *)
(* status it leaves in the adapter's own record of the task.               *)

Kept(v) == [view |-> v, rec |-> v.status]
RaisedAs(status) == [view |-> Raised, rec |-> status]

(* failing: the answers recorded as a failure and raised; unread: those    *)
(* whose exception leaves the record "running"; open: "not done yet".      *)
Verdict(a, failing, unread, open) ==
    IF a \in failing THEN RaisedAs("failed")
    ELSE IF a \in unread THEN RaisedAs("running")
    ELSE IF a \in open THEN Kept(View("running", FALSE))
    ELSE Kept(View("succeeded", a = "media"))

(* The body is parsed outside the try: a garbled one leaves the record.    *)
MinimaxMusicGet(a) ==
    Verdict(a, Answers \ {"media", "garbled", "unfinished"}, {"garbled"}, {"unfinished"})

LyriaGet(a) == Verdict(a, Answers \ {"media", "garbled"}, {"garbled"}, {})

SvdGet(a) == Verdict(a, Answers \ {"media", "garbled"}, {"garbled"}, {})

(* The SDKs raise for everything that is not audio.                        *)
VertexMusicGet(a) == Verdict(a, Answers \ {"media"}, {}, {})

ElevenLabsMusicGet(a) == Verdict(a, Answers \ {"media"}, {}, {})

(* finish_reason "error" and a message without audio are returned as a     *)
(* failed task, and success is returned under the id the answer carries.   *)
CompletionGet(a) ==
    CASE a \in {"refused", "lost", "garbled"} -> RaisedAs("failed")
      [] a = "media" -> Kept([View("succeeded", TRUE) EXCEPT !.own = FALSE])
      [] OTHER -> Kept(View("failed", FALSE))

(* _generate_image of an adapter: the images it returns, or an exception.  *)
FromList(a) ==
    IF a \in {"media", "blank", "empty"} THEN a ELSE "raised"

OpenAIImage(a) == FromList(a)
XaiImage(a) == FromList(a)
VolcengineImage(a) == FromList(a)
OpenRouterImage(a) == FromList(a)
GenaiImagen(a) == FromList(a)

(* Parts without inline data are skipped.                                  *)
GenaiContentImage(a) == FromList(IF a = "blank" THEN "empty" ELSE a)

(* One image is returned whatever the body holds; a filtered one raises.   *)
StabilityImage(a) == FromList(IF a = "empty" THEN "blank" ELSE a)

(* SyncImageTaskMixin.get_image_task: any exception and an empty list fail *)
(* the task; an entry that holds nothing counts as an image.               *)
SyncImageGet(images) ==
    IF images \in {"raised", "empty"} THEN RaisedAs("failed")
    ELSE Kept(View("succeeded", images = "media"))

(* Mutant: an incomplete synthesis is left for the next poll.              *)
SpeechObserveAgain(a) ==
    IF a = "media" THEN Kept(View("succeeded", TRUE))
    ELSE IF a = "unfinished" THEN Kept(View("running", FALSE))
    ELSE Kept(View("failed", FALSE))

(* _observe: an exception of the synthesis is the task's failure.          *)
SpeechObserve(a) ==
    IF a = "media" THEN Kept(View("succeeded", TRUE)) ELSE Kept(View("failed", FALSE))
=============================================================================
