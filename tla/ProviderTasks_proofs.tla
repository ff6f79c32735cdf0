------------------------ MODULE ProviderTasks_proofs ------------------------
(***************************************************************************)
(* The adapters' theorems, for every set of known adapters and every bound *)
(* on repeated calls and turns.                                            *)
(***************************************************************************)
EXTENDS ProviderTasks, TLAPS

-----------------------------------------------------------------------------
(* Status words.                                                           *)

Stages == {"pending", "running", "succeeded", "failed", "cancelled", "expired"}

(* A table keeps the vendors' vocabularies apart: it calls only done words
   a success and only failed words a failure.                              *)
WordsSound(words) ==
    /\ DOMAIN words \subseteq Stages
    /\ \A s \in DOMAIN words :
         /\ s = "succeeded" => words[s] \subseteq DoneWords
         /\ s \in {"failed", "cancelled", "expired"} => words[s] \subseteq FailedWords

(* So does every table of the adapters.                                    *)
LEMMA TablesSound ==
    /\ WordsSound(MinimaxVideoWords) /\ WordsSound(OmniWords) /\ WordsSound(VeoWords)
    /\ WordsSound(XaiVideoWords) /\ WordsSound(VolcengineWords) /\ WordsSound(OpenRouterWords)
    /\ WordsSound(DashScopeWords) /\ WordsSound(MurekaWords) /\ WordsSound(UdioWords)
    /\ WordsSound(OpenAIVideoWords) /\ WordsSound(AcestepWords) /\ WordsSound(FluxWords)
<1>1. WordsSound(MinimaxVideoWords)
    <2>1. /\ DOMAIN MinimaxVideoWords = {"pending", "running", "succeeded", "failed", "cancelled"}
          /\ MinimaxVideoWords.succeeded = {"succeeded"}
          /\ MinimaxVideoWords.failed = {"failed"}
          /\ MinimaxVideoWords.cancelled = {"cancelled"}
        BY DEF MinimaxVideoWords
    <2> QED
        BY <2>1 DEF WordsSound, Stages, DoneWords, FailedWords
<1>2. WordsSound(OmniWords)
    <2>1. /\ DOMAIN OmniWords = {"pending", "running", "succeeded", "cancelled", "failed"}
          /\ OmniWords.succeeded = {"completed"}
          /\ OmniWords.failed = {"failed", "incomplete", "budget_exceeded", "requires_action"}
          /\ OmniWords.cancelled = {"cancelled"}
        BY DEF OmniWords
    <2> QED
        BY <2>1 DEF WordsSound, Stages, DoneWords, FailedWords
<1>3. WordsSound(VeoWords)
    <2>1. /\ DOMAIN VeoWords = {"running", "succeeded", "failed"}
          /\ VeoWords.succeeded = {"done"}
          /\ VeoWords.failed = {"error"}
        BY DEF VeoWords
    <2> QED
        BY <2>1 DEF WordsSound, Stages, DoneWords, FailedWords
<1>4. WordsSound(XaiVideoWords)
    <2>1. /\ DOMAIN XaiVideoWords = {"pending", "succeeded", "failed"}
          /\ XaiVideoWords.succeeded = {"done"}
          /\ XaiVideoWords.failed = {"failed"}
        BY DEF XaiVideoWords
    <2> QED
        BY <2>1 DEF WordsSound, Stages, DoneWords, FailedWords
<1>5. WordsSound(VolcengineWords)
    <2>1. /\ DOMAIN VolcengineWords = {"pending", "running", "succeeded", "failed", "cancelled"}
          /\ VolcengineWords.succeeded = {"succeeded"}
          /\ VolcengineWords.failed = {"failed"}
          /\ VolcengineWords.cancelled = {"cancelled"}
        BY DEF VolcengineWords
    <2> QED
        BY <2>1 DEF WordsSound, Stages, DoneWords, FailedWords
<1>6. WordsSound(OpenRouterWords)
    <2>1. /\ DOMAIN OpenRouterWords =
             {"pending", "running", "succeeded", "failed", "cancelled", "expired"}
          /\ OpenRouterWords.succeeded = {"completed"}
          /\ OpenRouterWords.failed = {"failed"}
          /\ OpenRouterWords.cancelled = {"cancelled"}
          /\ OpenRouterWords.expired = {"expired"}
        BY DEF OpenRouterWords
    <2> QED
        BY <2>1 DEF WordsSound, Stages, DoneWords, FailedWords
<1>7. WordsSound(DashScopeWords)
    <2>1. /\ DOMAIN DashScopeWords = {"pending", "running", "succeeded", "failed", "cancelled"}
          /\ DashScopeWords.succeeded = {"SUCCEEDED"}
          /\ DashScopeWords.failed = {"FAILED", "UNKNOWN"}
          /\ DashScopeWords.cancelled = {"CANCELED"}
        BY DEF DashScopeWords
    <2> QED
        BY <2>1 DEF WordsSound, Stages, DoneWords, FailedWords
<1>8. WordsSound(MurekaWords)
    <2>1. /\ DOMAIN MurekaWords = {"pending", "running", "succeeded", "failed"}
          /\ MurekaWords.succeeded = {"succeeded", "success", "completed"}
          /\ MurekaWords.failed = {"failed", "error"}
        BY DEF MurekaWords
    <2> QED
        BY <2>1 DEF WordsSound, Stages, DoneWords, FailedWords
<1>9. WordsSound(UdioWords)
    <2>1. /\ DOMAIN UdioWords = {"running", "succeeded", "failed"}
          /\ UdioWords.succeeded = {"complete"}
          /\ UdioWords.failed = {"fail_message", "FAIL"}
        BY DEF UdioWords
    <2> QED
        BY <2>1 DEF WordsSound, Stages, DoneWords, FailedWords
<1>10. WordsSound(OpenAIVideoWords)
    <2>1. /\ DOMAIN OpenAIVideoWords = {"pending", "running", "succeeded", "failed"}
          /\ OpenAIVideoWords.succeeded = {"completed"}
          /\ OpenAIVideoWords.failed = {"failed"}
        BY DEF OpenAIVideoWords
    <2> QED
        BY <2>1 DEF WordsSound, Stages, DoneWords, FailedWords
<1>11. WordsSound(AcestepWords)
    <2>1. /\ DOMAIN AcestepWords = {"running", "succeeded", "failed"}
          /\ AcestepWords.succeeded = {"1"}
          /\ AcestepWords.failed = {"2"}
        BY DEF AcestepWords
    <2> QED
        BY <2>1 DEF WordsSound, Stages, DoneWords, FailedWords
<1>12. WordsSound(FluxWords)
    <2>1. /\ DOMAIN FluxWords = {"succeeded", "failed"}
          /\ FluxWords.succeeded = {"completed"}
          /\ FluxWords.failed = {"failed"}
        BY DEF FluxWords
    <2> QED
        BY <2>1 DEF WordsSound, Stages, DoneWords, FailedWords
<1> QED
    BY <1>1, <1>2, <1>3, <1>4, <1>5, <1>6, <1>7, <1>8, <1>9, <1>10, <1>11, <1>12

(* The stage s may stand for a vendor's word w.                            *)
StageOf(s, w) ==
    /\ s \in Stages
    /\ s = "succeeded" => w \in DoneWords
    /\ s \in {"failed", "cancelled", "expired"} => w \in FailedWords

(* A word is reported as a stage that may stand for it.                    *)
LEMMA ReportedSound ==
    ASSUME NEW words, WordsSound(words), NEW otherwise \in {"pending", "running"}, NEW w
    PROVE  StageOf(Reported(words, otherwise, w), w)
<1>1. CASE \E s \in DOMAIN words : w \in words[s]
    <2> DEFINE s == CHOOSE s \in DOMAIN words : w \in words[s]
    <2>1. s \in DOMAIN words /\ w \in words[s]
        BY <1>1
    <2>2. Reported(words, otherwise, w) = s
        BY <1>1 DEF Reported
    <2> HIDE DEF s
    <2> QED
        BY <2>1, <2>2 DEF WordsSound, StageOf
<1>2. CASE ~\E s \in DOMAIN words : w \in words[s]
    BY <1>2 DEF Reported, Stages, StageOf
<1> QED
    BY <1>1, <1>2

(* What a poll of a vendor's job may show for an answer: no success but
   the vendor's, and no failure of a job that delivered.                   *)
VendorView(v, answer) ==
    /\ v \in [status : Stages, media : BOOLEAN, own : {TRUE}]
    /\ v.status = "succeeded" => answer.word \in DoneWords
    /\ v.status \in {"failed", "cancelled", "expired"} =>
         answer.word \in FailedWords \/ (answer.word \in DoneWords /\ ~answer.media)

(* The ways the adapters make a view of a stage make such views.           *)
LEMMA ViewsSound ==
    ASSUME NEW s, NEW answer, StageOf(s, answer.word), answer.media \in BOOLEAN
    PROVE  /\ VendorView(View(s, answer.media), answer)
           /\ VendorView(View(s, FALSE), answer)
           /\ VendorView(WhenSucceeded(s, answer.media), answer)
           /\ VendorView(Demoted(WhenSucceeded(s, answer.media)), answer)
           /\ Demoted(WhenSucceeded(s, answer.media)).status = "succeeded"
                => Demoted(WhenSucceeded(s, answer.media)).media
<1> DEFINE v == WhenSucceeded(s, answer.media)
<1>1. /\ s \in Stages
      /\ s = "succeeded" => answer.word \in DoneWords
      /\ s \in {"failed", "cancelled", "expired"} => answer.word \in FailedWords
    BY DEF StageOf
<1>2. VendorView(View(s, answer.media), answer) /\ VendorView(View(s, FALSE), answer)
    BY <1>1 DEF VendorView, View
<1> DEFINE m == answer.media /\ s = "succeeded"
<1>3. m \in BOOLEAN
    OBVIOUS
<1>4. v = [status |-> s, media |-> m, own |-> TRUE]
    BY DEF WhenSucceeded, View
<1> HIDE DEF m, v
<1>5a. v \in [status : Stages, media : BOOLEAN, own : {TRUE}] /\ v.status = s /\ v.media = m
    BY <1>1, <1>3, <1>4
<1>5. v.status = s /\ (v.media <=> answer.media /\ s = "succeeded")
    BY <1>5a DEF m
<1>6. VendorView(v, answer)
    BY <1>1, <1>5a, <1>5 DEF VendorView
<1>7. CASE v.status = "succeeded" /\ ~v.media
    <2>1. Demoted(v) = [status |-> "failed", media |-> FALSE, own |-> TRUE]
        BY <1>7 DEF Demoted, View
    <2>2. answer.word \in DoneWords /\ ~answer.media
        BY <1>1, <1>5, <1>7
    <2>3. VendorView(Demoted(v), answer) /\ Demoted(v).status # "succeeded"
        BY <2>1, <2>2 DEF VendorView, Stages
    <2> QED
        BY <1>2, <1>6, <2>3 DEF v
<1>8. CASE ~(v.status = "succeeded" /\ ~v.media)
    <2>1. Demoted(v) = v
        BY <1>8 DEF Demoted
    <2> QED
        BY <1>2, <1>6, <1>8, <2>1 DEF v
<1> QED
    BY <1>7, <1>8

(* What a task may be shown as: a stage, under the create's id unless the
   completion adapter answers a success under its own, and no success
   without media where the adapter checks for it.                          *)
Showable(a, v) ==
    /\ v \in [status : Stages, media : BOOLEAN, own : BOOLEAN]
    /\ ~v.own => v.status = "succeeded" /\ a = "acestep_completion"
    /\ v.status = "succeeded" /\ a \in ChecksMedia => v.media

(* A poll of a job raises, or shows what its vendor answered.              *)
JobView(a, v, answer) ==
    v = Raised \/ (VendorView(v, answer) /\ Showable(a, v))

(* So does every adapter's poll of a job.                                  *)
LEMMA PollSound ==
    ASSUME NEW a \in JobAdapters, NEW answer, answer.media \in BOOLEAN
    PROVE  JobView(a, PollOf(a, answer), answer)
<1> DEFINE Plain(words) == View(Reported(words, "running", answer.word), answer.media)
           Checked(words) ==
               WhenSucceeded(Reported(words, "running", answer.word), answer.media)
<1>1. ASSUME NEW words, WordsSound(words)
      PROVE  VendorView(Plain(words), answer) /\ VendorView(Checked(words), answer)
             /\ VendorView(Demoted(Checked(words)), answer)
             /\ (Demoted(Checked(words)).status = "succeeded" => Demoted(Checked(words)).media)
    <2> DEFINE s == Reported(words, "running", answer.word)
    <2>1. "running" \in {"pending", "running"}
        OBVIOUS
    <2>2. StageOf(s, answer.word)
        BY <1>1, <2>1, ReportedSound
    <2> HIDE DEF s
    <2>3. /\ VendorView(View(s, answer.media), answer)
          /\ VendorView(WhenSucceeded(s, answer.media), answer)
          /\ VendorView(Demoted(WhenSucceeded(s, answer.media)), answer)
          /\ Demoted(WhenSucceeded(s, answer.media)).status = "succeeded"
               => Demoted(WhenSucceeded(s, answer.media)).media
        BY <2>2, ViewsSound
    <2> QED
        BY <2>3 DEF s
<1>2. ASSUME NEW v, VendorView(v, answer)
      PROVE  /\ (v.status = "succeeded" => v.media) => JobView(a, v, answer)
             /\ a \notin ChecksMedia => JobView(a, v, answer)
    BY <1>2 DEF JobView, VendorView, Showable
<1> HIDE DEF Plain, Checked
<1>3. JobView(a, Raised, answer)
    BY DEF JobView
<1>4. ASSUME NEW words, WordsSound(words)
      PROVE  /\ JobView(a, Demoted(Checked(words)), answer)
             /\ a \notin ChecksMedia => JobView(a, Checked(words), answer)
                                        /\ JobView(a, Plain(words), answer)
    BY <1>1, <1>2, <1>4
<1>5. CASE a = "minimax_video"
    <2>1. PollOf(a, answer) = MinimaxVideoPoll(answer)
        BY <1>5 DEF PollOf
    <2> QED
        BY <1>3, <1>4, <2>1, TablesSound DEF MinimaxVideoPoll, Checked
<1>6. CASE a = "omni"
    <2>1. PollOf(a, answer) = OmniTask(answer)
        BY <1>6 DEF PollOf
    <2> QED
        BY <1>4, <2>1, TablesSound DEF OmniTask, Checked
<1>7. CASE a = "veo"
    <2>1. PollOf(a, answer) = VeoPoll(answer) /\ a \notin ChecksMedia
        BY <1>7 DEF PollOf, ChecksMedia, VoiceAdapters
    <2> QED
        BY <1>4, <2>1, TablesSound DEF VeoPoll, Checked
<1>8. CASE a = "xai_video"
    <2>1. PollOf(a, answer) = XaiVideoPoll(answer) /\ a \notin ChecksMedia
        BY <1>8 DEF PollOf, ChecksMedia, VoiceAdapters
    <2> QED
        BY <1>4, <2>1, TablesSound DEF XaiVideoPoll, Checked
<1>9. CASE a = "volcengine_video"
    <2>1. PollOf(a, answer) = VolcengineVideoPoll(answer) /\ a \notin ChecksMedia
        BY <1>9 DEF PollOf, ChecksMedia, VoiceAdapters
    <2> QED
        BY <1>4, <2>1, TablesSound DEF VolcengineVideoPoll, Plain
<1>10. CASE a = "openrouter_video"
    <2>1. PollOf(a, answer) = OpenRouterVideoPoll(answer) /\ a \notin ChecksMedia
        BY <1>10 DEF PollOf, ChecksMedia, VoiceAdapters
    <2> QED
        BY <1>4, <2>1, TablesSound DEF OpenRouterVideoPoll, Plain
<1>11. CASE a \in {"dashscope_video", "dashscope_native_video"}
    <2>1. PollOf(a, answer) = DashScopeVideoPoll(answer) /\ a \notin ChecksMedia
        BY <1>11 DEF PollOf, ChecksMedia, VoiceAdapters
    <2> QED
        BY <1>3, <1>4, <2>1, TablesSound DEF DashScopeVideoPoll, Checked
<1>12. CASE a = "mureka"
    <2>1. PollOf(a, answer) = MurekaPoll(answer)
        BY <1>12 DEF PollOf
    <2> QED
        BY <1>4, <2>1, TablesSound DEF MurekaPoll, Checked
<1>13. CASE a = "udio"
    <2>1. PollOf(a, answer) = UdioPoll(answer)
        BY <1>13 DEF PollOf
    <2> QED
        BY <1>4, <2>1, TablesSound DEF UdioPoll, Checked
<1>14. CASE a = "openai_video"
    <2>1. PollOf(a, answer) = OpenAIVideoPoll(answer) /\ a \notin ChecksMedia
        BY <1>14 DEF PollOf, ChecksMedia, VoiceAdapters
    <2> QED
        BY <1>4, <2>1, TablesSound DEF OpenAIVideoPoll, Checked
<1>15. CASE a = "acestep"
    <2>1. PollOf(a, answer) = AcestepPoll(answer)
        BY <1>15 DEF PollOf
    <2> QED
        BY <1>4, <2>1, TablesSound DEF AcestepPoll, Checked
<1> QED
    BY <1>5, <1>6, <1>7, <1>8, <1>9, <1>10, <1>11, <1>12, <1>13, <1>14, <1>15
    DEF JobAdapters

(* A download that fails shows the completed video without its media.      *)
LEMMA DownloadSound ==
    ASSUME NEW answer, answer.word = "completed",
           answer = [word |-> answer.word, media |-> answer.media]
    PROVE  LET v == OpenAIVideoPoll([answer EXCEPT !.media = FALSE])
           IN  VendorView(v, answer) /\ Showable("openai_video", v)
<1> DEFINE failed == [answer EXCEPT !.media = FALSE]
           s == Reported(OpenAIVideoWords, "running", "completed")
<1>1. failed.word = "completed" /\ failed.media = FALSE
    OBVIOUS
<1>2. "running" \in {"pending", "running"} /\ WordsSound(OpenAIVideoWords)
    BY TablesSound
<1>3. StageOf(s, "completed")
    BY <1>2, ReportedSound
<1>4. OpenAIVideoPoll(failed) = WhenSucceeded(s, FALSE)
    BY <1>1 DEF OpenAIVideoPoll
<1> HIDE DEF failed, s
<1>5. OpenAIVideoPoll(failed) = [status |-> s, media |-> FALSE, own |-> TRUE]
    BY <1>4 DEF WhenSucceeded, View
<1>6. s \in Stages /\ s \notin {"failed", "cancelled", "expired"} /\ "completed" \in DoneWords
    BY <1>3 DEF StageOf, FailedWords, DoneWords
<1>7. "openai_video" \notin ChecksMedia
    BY DEF ChecksMedia, VoiceAdapters
<1> DEFINE v == OpenAIVideoPoll(failed)
<1> HIDE DEF v
<1>8. v = [status |-> s, media |-> FALSE, own |-> TRUE]
    BY <1>5 DEF v
<1>9. VendorView(v, answer) /\ Showable("openai_video", v)
    BY <1>6, <1>7, <1>8 DEF VendorView, Showable
<1> QED
    BY <1>9 DEF v, failed

(* The task a create answers is not done, and fails only with its vendor.  *)
LEMMA CreateSound ==
    ASSUME NEW a \in JobAdapters, NEW w, w \notin DoneWords
    PROVE  LET v == CreateOf(a, [id |-> TRUE, word |-> w])
           IN  /\ VendorView(v, [word |-> w, media |-> FALSE])
               /\ v.status # "succeeded"
               /\ Showable(a, v)
<1> DEFINE got == [id |-> TRUE, word |-> w]
           answer == [word |-> w, media |-> FALSE]
<1>1. got.id = TRUE /\ got.word = w /\ answer.word = w /\ answer.media = FALSE
      /\ answer.media \in BOOLEAN
    OBVIOUS
<1> HIDE DEF got, answer
<1>2. ASSUME NEW v, VendorView(v, answer)
      PROVE  VendorView(v, answer) /\ v.status # "succeeded" /\ Showable(a, v)
    BY <1>1, <1>2 DEF VendorView, Showable
<1>3. ASSUME NEW s, StageOf(s, w)
      PROVE  VendorView(View(s, FALSE), answer)
    BY <1>1, <1>3, ViewsSound
<1>4. ASSUME NEW words, WordsSound(words), NEW otherwise \in {"pending", "running"}
      PROVE  VendorView(View(Reported(words, otherwise, w), FALSE), answer)
    BY <1>3, <1>4, ReportedSound
<1>5. VendorView(Submitted(got), answer)
    <2>1. StageOf("pending", w)
        BY DEF StageOf, Stages
    <2> QED
        BY <1>1, <1>3, <2>1 DEF Submitted
<1>6. "pending" \in {"pending", "running"} /\ "running" \in {"pending", "running"}
    OBVIOUS
<1>7. CASE a = "omni"
    <2>1. JobView(a, PollOf(a, answer), answer)
        BY <1>1, PollSound
    <2>2. PollOf(a, answer) = OmniTask(answer) /\ CreateOf(a, got) = OmniCreate(got)
        BY <1>7 DEF PollOf, CreateOf, VoiceAdapters, ImageAdapters, LoopAdapters
    <2>3. OmniCreate(got) = OmniTask(answer)
        BY <1>1 DEF OmniCreate, answer
    <2>4. WordsSound(OmniWords)
        BY TablesSound
    <2>5. StageOf(Reported(OmniWords, "running", w), w)
        BY <1>6, <2>4, ReportedSound
    <2>6. VendorView(OmniTask(answer), answer)
        BY <1>1, <2>5, ViewsSound DEF OmniTask
    <2> QED
        BY <1>2, <2>2, <2>3, <2>6 DEF got, answer
<1>8. CASE a = "openrouter_video"
    <2>1. CreateOf(a, got) = OpenRouterVideoCreate(got)
        BY <1>8 DEF CreateOf, VoiceAdapters, ImageAdapters, LoopAdapters
    <2>2. VendorView(OpenRouterVideoCreate(got), answer)
        BY <1>1, <1>4, <1>6, TablesSound DEF OpenRouterVideoCreate, SubmittedAs
    <2> QED
        BY <1>2, <2>1, <2>2 DEF got, answer
<1>9. CASE a = "openai_video"
    <2>1. CreateOf(a, got) = OpenAIVideoCreate(got)
        BY <1>9 DEF CreateOf, VoiceAdapters, ImageAdapters, LoopAdapters
    <2>2. VendorView(OpenAIVideoCreate(got), answer)
        BY <1>1, <1>4, <1>6, TablesSound DEF OpenAIVideoCreate, SubmittedAs
    <2> QED
        BY <1>2, <2>1, <2>2 DEF got, answer
<1>10. CASE a \notin {"omni", "openrouter_video", "openai_video"}
    <2>1. CreateOf(a, got) = Submitted(got)
        BY <1>10 DEF CreateOf, JobAdapters, VoiceAdapters, ImageAdapters, LoopAdapters,
            MinimaxVideoCreate, VeoCreate, XaiVideoCreate,
            VolcengineVideoCreate, DashScopeVideoCreate, DashScopeNativeCreate, MurekaCreate,
            UdioCreate, AcestepCreate
    <2> QED
        BY <1>2, <1>5, <2>1 DEF got, answer
<1> QED
    BY <1>7, <1>8, <1>9, <1>10

(* The adapters' four families have no adapter in common.                  *)
LEMMA FamiliesDisjoint ==
    /\ JobAdapters \cap CallAdapters = {} /\ JobAdapters \cap LoopAdapters = {}
    /\ JobAdapters \cap VoiceAdapters = {} /\ CallAdapters \cap LoopAdapters = {}
    /\ CallAdapters \cap VoiceAdapters = {} /\ LoopAdapters \cap VoiceAdapters = {}
BY DEF JobAdapters, CallAdapters, ImageAdapters, LoopAdapters, VoiceAdapters

(* A create without a vendor's job answers a pending task.                 *)
LEMMA CreateLocalSound ==
    ASSUME NEW a \in CallAdapters \cup LoopAdapters \cup VoiceAdapters
    PROVE  LET v == CreateOf(a, [ok |-> TRUE])
           IN  v = View("pending", FALSE) /\ Showable(a, v)
<1> DEFINE got == [ok |-> TRUE]
<1>1. got.ok = TRUE
    OBVIOUS
<1> HIDE DEF got
<1>2. MadeUp(got) = View("pending", FALSE) /\ SyncImageCreate(got) = View("pending", FALSE)
    BY <1>1 DEF MadeUp, SyncImageCreate
<1>3. Showable(a, View("pending", FALSE))
    BY DEF Showable, View, Stages
<1>4. CreateOf(a, got) \in {MadeUp(got), SyncImageCreate(got)}
    <2>1. CASE a \in ImageAdapters \cup LoopAdapters
        BY <2>1 DEF CreateOf, ImageAdapters, LoopAdapters, VoiceAdapters
    <2>2. CASE a \in VoiceAdapters
        BY <2>2 DEF CreateOf, VoiceAdapters, VoiceCreate
    <2>3. CASE a \in CallAdapters \ ImageAdapters
        BY <2>3 DEF CreateOf, CallAdapters, MinimaxMusicCreate, LyriaCreate, VertexMusicCreate,
            SvdCreate, ElevenLabsMusicCreate, CompletionCreate, SpeechCreate,
            VoiceAdapters, ImageAdapters, LoopAdapters
    <2> QED
        BY <2>1, <2>2, <2>3 DEF CallAdapters
<1> QED
    BY <1>2, <1>3, <1>4 DEF got

-----------------------------------------------------------------------------
(* What a generation inside a poll may return: an exception, or a view; the
   record keeps the view's status, and no success that was not shown.      *)
Verdicts(a, got) ==
    /\ got.rec \in {"failed", "running", "succeeded"}
    /\ \/ got.view = Raised /\ got.rec # "succeeded"
       \/ Showable(a, got.view) /\ got.view.status = got.rec

(* A kept view is such a verdict, and so is an exception.                  *)
LEMMA VerdictForms ==
    ASSUME NEW a
    PROVE  /\ Verdicts(a, Kept(View("failed", FALSE)))
           /\ Verdicts(a, Kept(View("running", FALSE)))
           /\ Verdicts(a, Kept(View("succeeded", TRUE)))
           /\ a \notin ChecksMedia => Verdicts(a, Kept(View("succeeded", FALSE)))
           /\ \A s \in {"failed", "running"} : Verdicts(a, RaisedAs(s))
<1>1. ASSUME NEW s \in {"failed", "running", "succeeded"}, NEW m \in BOOLEAN,
             s = "succeeded" /\ a \in ChecksMedia => m
      PROVE  Verdicts(a, Kept(View(s, m)))
    <2>1. Kept(View(s, m)).view = View(s, m) /\ Kept(View(s, m)).rec = s
        BY DEF Kept, View
    <2>2. Showable(a, View(s, m))
        <3> DEFINE v == View(s, m)
        <3>1. v = [status |-> s, media |-> m, own |-> TRUE]
            BY DEF View
        <3> HIDE DEF v
        <3>2. v.status = s /\ v.media = m /\ v.own = TRUE
              /\ v \in [status : Stages, media : BOOLEAN, own : BOOLEAN]
            BY <3>1 DEF Stages
        <3> QED
            BY <1>1, <3>2 DEF Showable, v
    <2>3. View(s, m).status = s
        BY DEF View
    <2> QED
        BY <2>1, <2>2, <2>3 DEF Verdicts
<1>2. Verdicts(a, Kept(View("failed", FALSE)))
    BY <1>1
<1>3. Verdicts(a, Kept(View("running", FALSE)))
    BY <1>1
<1>4. Verdicts(a, Kept(View("succeeded", TRUE)))
    BY <1>1
<1>5. a \notin ChecksMedia => Verdicts(a, Kept(View("succeeded", FALSE)))
    BY <1>1
<1>6. ASSUME NEW s \in {"failed", "running"}
      PROVE  Verdicts(a, RaisedAs(s))
    BY DEF Verdicts, RaisedAs
<1> QED
    BY <1>2, <1>3, <1>4, <1>5, <1>6

(* An adapter that calls again leaves its record open only for want of a
   verdict.                                                                *)
Settling(a, x, got) ==
    got.rec = "running" => a \in CallsAgain /\ x \in {"unfinished", "garbled", "lost"}

(* The image mixin ends every generation it makes.                         *)
LEMMA ImagesSound ==
    ASSUME NEW a, NEW images, a \in ChecksMedia => images \in {"media", "empty", "raised"}
    PROVE  Verdicts(a, SyncImageGet(images)) /\ SyncImageGet(images).rec # "running"
<1>1. RaisedAs("failed").rec # "running" /\ Kept(View("succeeded", TRUE)).rec # "running"
      /\ Kept(View("succeeded", FALSE)).rec # "running"
    BY DEF RaisedAs, Kept, View
<1>2. CASE images \in {"raised", "empty"}
    <2>1. SyncImageGet(images) = RaisedAs("failed")
        BY <1>2 DEF SyncImageGet
    <2> QED
        BY <1>1, <2>1, VerdictForms
<1>3. CASE images = "media"
    <2>1. SyncImageGet(images) = Kept(View("succeeded", TRUE))
        BY <1>3 DEF SyncImageGet
    <2> QED
        BY <1>1, <2>1, VerdictForms
<1>4. CASE images \notin {"raised", "empty", "media"}
    <2>1. SyncImageGet(images) = Kept(View("succeeded", FALSE)) /\ a \notin ChecksMedia
        BY <1>4 DEF SyncImageGet, View
    <2> QED
        BY <1>1, <2>1, VerdictForms
<1> QED
    BY <1>2, <1>3, <1>4

(* A speech or voice call ends with audio or fails.                        *)
LEMMA SpeechSound ==
    ASSUME NEW a, NEW x
    PROVE  Verdicts(a, SpeechObserve(x)) /\ SpeechObserve(x).rec # "running"
<1>1. SpeechObserve(x) \in {Kept(View("succeeded", TRUE)), Kept(View("failed", FALSE))}
    BY DEF SpeechObserve
<1>2. Kept(View("succeeded", TRUE)).rec # "running" /\ Kept(View("failed", FALSE)).rec # "running"
    BY DEF Kept, View
<1> QED
    BY <1>1, <1>2, VerdictForms

(* A music or video call is recorded as its answer says, if it says.       *)
LEMMA VerdictSound ==
    ASSUME NEW a, NEW x, NEW failing, NEW without, NEW open,
           x \in failing \cup without \cup open \cup {"media"},
           without \cup open \subseteq {"unfinished", "garbled", "lost"},
           a \in CallsAgain \/ without \cup open = {}
    PROVE  Verdicts(a, Verdict(x, failing, without, open))
           /\ Settling(a, x, Verdict(x, failing, without, open))
<1>1. CASE x \in failing
    <2>1. Verdict(x, failing, without, open) = RaisedAs("failed") /\ RaisedAs("failed").rec # "running"
        BY <1>1 DEF Verdict, RaisedAs
    <2> QED
        BY <2>1, VerdictForms DEF Settling
<1>2. CASE x \notin failing /\ x \in without
    <2>1. Verdict(x, failing, without, open) = RaisedAs("running")
        BY <1>2 DEF Verdict
    <2> QED
        BY <1>2, <2>1, VerdictForms DEF Settling
<1>3. CASE x \notin failing /\ x \notin without /\ x \in open
    <2>1. Verdict(x, failing, without, open) = Kept(View("running", FALSE))
        BY <1>3 DEF Verdict
    <2> QED
        BY <1>3, <2>1, VerdictForms DEF Settling
<1>4. CASE x \notin failing /\ x \notin without /\ x \notin open
    <2>1. x = "media"
        BY <1>4
    <2>2. Verdict(x, failing, without, open) = Kept(View("succeeded", TRUE))
        BY <1>4, <2>1 DEF Verdict, View
    <2>3. Kept(View("succeeded", TRUE)).rec # "running"
        BY DEF Kept, View
    <2> QED
        BY <2>2, <2>3, VerdictForms DEF Settling
<1> QED
    BY <1>1, <1>2, <1>3, <1>4

(* A completion without audio fails; one with audio carries its own id.    *)
LEMMA CompletionSound ==
    ASSUME NEW x
    PROVE  Verdicts("acestep_completion", CompletionGet(x)) /\ CompletionGet(x).rec # "running"
<1>1. CASE x \in {"refused", "lost", "garbled"}
    <2>1. CompletionGet(x) = RaisedAs("failed") /\ RaisedAs("failed").rec # "running"
        BY <1>1 DEF CompletionGet, RaisedAs
    <2> QED
        BY <2>1, VerdictForms
<1>2. CASE x = "media"
    <2> DEFINE v == [View("succeeded", TRUE) EXCEPT !.own = FALSE]
    <2>1. CompletionGet(x) = Kept(v)
        BY <1>2 DEF CompletionGet
    <2>2. v \in [status : Stages, media : BOOLEAN, own : BOOLEAN]
          /\ v.status = "succeeded" /\ v.media /\ ~v.own
        BY DEF View, Stages
    <2> HIDE DEF v
    <2>3. Showable("acestep_completion", v) /\ v.status = "succeeded"
        BY <2>2 DEF Showable
    <2>4. Kept(v).view = v /\ Kept(v).rec = v.status
        BY DEF Kept
    <2> QED
        BY <2>1, <2>3, <2>4 DEF Verdicts
<1>3. CASE x \notin {"refused", "lost", "garbled", "media"}
    <2>1. CompletionGet(x) = Kept(View("failed", FALSE)) /\ Kept(View("failed", FALSE)).rec # "running"
        BY <1>3 DEF CompletionGet, Kept, View
    <2> QED
        BY <2>1, VerdictForms
<1> QED
    BY <1>1, <1>2, <1>3

(* Every adapter that generates inside a poll.                             *)
LEMMA GenerateSound ==
    ASSUME NEW a \in CallAdapters, NEW x \in Answers
    PROVE  Verdicts(a, GenerateOf(a, x)) /\ Settling(a, x, GenerateOf(a, x))
<1>1. CASE a \in ImageAdapters \ {"gemini_image"}
    <2>1. PICK images : GenerateOf(a, x) = SyncImageGet(images)
        BY <1>1 DEF GenerateOf, ImageAdapters
    <2>2. a \notin ChecksMedia
        BY <1>1 DEF ImageAdapters, ChecksMedia, VoiceAdapters
    <2> QED
        BY <2>1, <2>2, ImagesSound DEF Settling
<1>2. CASE a = "gemini_image"
    <2>1. GenerateOf(a, x) = SyncImageGet(GenaiContentImage(x))
        BY <1>2 DEF GenerateOf
    <2>2. GenaiContentImage(x) \in {"media", "empty", "raised"}
        BY DEF GenaiContentImage, FromList
    <2> QED
        BY <2>1, <2>2, ImagesSound DEF Settling
<1>3. CASE a = "minimax_music"
    <2>1. GenerateOf(a, x) = MinimaxMusicGet(x) /\ a \in CallsAgain
        BY <1>3 DEF GenerateOf, CallsAgain
    <2> DEFINE failing == Answers \ {"media", "garbled", "unfinished"}
    <2>2. x \in failing \cup {"garbled"} \cup {"unfinished"} \cup {"media"}
        OBVIOUS
    <2>3. MinimaxMusicGet(x) = Verdict(x, failing, {"garbled"}, {"unfinished"})
        BY DEF MinimaxMusicGet
    <2> HIDE DEF failing
    <2>4. {"garbled"} \cup {"unfinished"} \subseteq {"unfinished", "garbled", "lost"}
        OBVIOUS
    <2> QED
        BY <2>1, <2>2, <2>3, <2>4, VerdictSound
<1>4. CASE a \in {"lyria", "svd"}
    <2> DEFINE failing == Answers \ {"media", "garbled"}
    <2>1. GenerateOf(a, x) = Verdict(x, failing, {"garbled"}, {}) /\ a \in CallsAgain
        BY <1>4 DEF GenerateOf, CallsAgain, LyriaGet, SvdGet
    <2>2. x \in failing \cup {"garbled"} \cup {} \cup {"media"}
        OBVIOUS
    <2> HIDE DEF failing
    <2>3. {"garbled"} \cup {} \subseteq {"unfinished", "garbled", "lost"}
        OBVIOUS
    <2> QED
        BY <2>1, <2>2, <2>3, VerdictSound
<1>5. CASE a \in {"vertex_music", "elevenlabs_music"}
    <2> DEFINE failing == Answers \ {"media"}
    <2>1. GenerateOf(a, x) = Verdict(x, failing, {}, {})
        BY <1>5 DEF GenerateOf, VertexMusicGet, ElevenLabsMusicGet
    <2>2. x \in failing \cup {} \cup {} \cup {"media"}
        OBVIOUS
    <2> HIDE DEF failing
    <2>3. {} \cup {} \subseteq {"unfinished", "garbled", "lost"} /\ {} \cup {} = {}
        OBVIOUS
    <2> QED
        BY <2>1, <2>2, <2>3, VerdictSound
<1>6. CASE a = "acestep_completion"
    <2>1. GenerateOf(a, x) = CompletionGet(x)
        BY <1>6 DEF GenerateOf
    <2> QED
        BY <1>6, <2>1, CompletionSound DEF Settling
<1>7. CASE a = "speech"
    <2>1. GenerateOf(a, x) = SpeechObserve(x)
        BY <1>7 DEF GenerateOf
    <2> QED
        BY <2>1, SpeechSound DEF Settling
<1> QED
    BY <1>1, <1>2, <1>3, <1>4, <1>5, <1>6, <1>7 DEF CallAdapters

-----------------------------------------------------------------------------
(* The inductive invariant.                                                *)

Steps == {"none", "polling", "polling again", "inline", "prepared"}

RecordStates == {"none", "pending", "running", "succeeded", "failed"}

(* The adapter's side: only a running record has a call in progress, and
   only while the task is watched; a recorded success has its media.       *)
AdapterInv ==
    /\ adapter \in JobAdapters \cup CallAdapters \cup LoopAdapters \cup VoiceAdapters
    /\ step \in Steps
    /\ job = [word |-> job.word, media |-> job.media] /\ job.media \in BOOLEAN
    /\ rec \in [status : RecordStates, media : BOOLEAN, verify : BOOLEAN]
    /\ step # "none" =>
         /\ Watched /\ rec.status = "running" /\ ~rec.verify
         /\ adapter \in LoopAdapters \cup VoiceAdapters
         /\ step = "prepared" <=> adapter \in VoiceAdapters
    /\ adapter \in JobAdapters => rec.status = "none" /\ ~rec.verify
    /\ adapter \in CallAdapters => job = NoJob
    /\ rec.status = "succeeded" /\ adapter \in ChecksMedia => rec.media
    /\ rec.verify =>
         adapter \in VoiceAdapters /\ rec.status = "running" /\ rec.media

(* A voice has no vendor state until its vendor asks for a verification,
   and ends as usable with that verification only.                         *)
VoiceInv ==
    adapter \in VoiceAdapters =>
        \/ job = NoJob /\ ~rec.verify
        \/ job.word \in {"unverified", "verified"} /\ rec.verify
        \/ job.word = "verified" /\ ~rec.verify /\ rec.status = "succeeded"

(* The gateway's side: the hold is kept, and at most two polls in a row
   have failed, exactly while the task is open; it ends as it is shown.    *)
ShownInv ==
    /\ watch \in {"create", "wait", "monitor", "ended", "create failed"}
    /\ shown \in [status : Stages \cup {"none"}, media : BOOLEAN, own : BOOLEAN]
    /\ errors \in 0..MaxPollErrors
    /\ watch \in {"create", "wait", "monitor"} =>
         hold = "held" /\ errors < MaxPollErrors /\ shown.own /\ shown.status # "succeeded"
    /\ watch = "monitor" => shown.status \notin Terminal
    /\ watch = "create failed" => hold = "released" /\ shown.status # "succeeded"
    /\ watch = "ended" =>
         /\ shown.status \in Terminal
         /\ IF shown.own
            THEN hold = IF shown.status = "succeeded" THEN "charged" ELSE "released"
            ELSE hold = "held" /\ adapter = "acestep_completion"
    /\ shown.status = "succeeded" /\ adapter \in ChecksMedia => shown.media

(* The record and the snapshot of an adapter without a vendor's job.       *)
AgreeInv ==
    adapter \notin JobAdapters =>
        /\ watch \in {"create", "wait", "monitor"} => shown.status \notin Terminal
        /\ watch = "ended" =>
             shown.status = rec.status \/ (errors = MaxPollErrors /\ shown.status = "failed")
        /\ watch = "create failed" => rec.status # "succeeded"
        /\ watch = "create" => rec.status = "none"

(* The vendor's job and the snapshot.                                      *)
VendorInv ==
    adapter \in JobAdapters =>
        /\ shown.status = "succeeded" => job.word \in DoneWords
        /\ shown.status \in {"failed", "cancelled", "expired"} =>
             \/ errors = MaxPollErrors
             \/ job.word \in FailedWords
             \/ job.word \in DoneWords /\ ~job.media

-----------------------------------------------------------------------------
(* The steps, as the gateway sees them.                                    *)

(* A poll that raises.                                                     *)
LEMMA PollRaises ==
    ASSUME ShownInv, Polled(Raised)
    PROVE  \/ /\ watch = "wait" /\ watch' = "create failed" /\ hold' = "released"
              /\ UNCHANGED <<shown, errors>>
           \/ /\ watch = "monitor" /\ errors' = errors + 1 /\ errors' < MaxPollErrors
              /\ UNCHANGED <<watch, shown, hold>>
           \/ /\ watch = "monitor" /\ errors' = MaxPollErrors /\ watch' = "ended"
              /\ shown' = [shown EXCEPT !.status = "failed"] /\ hold' = "released"
<1>1. errors \in 0..MaxPollErrors
      /\ (watch \in {"create", "wait", "monitor"} => errors < MaxPollErrors /\ shown.own = TRUE)
      /\ shown \in [status : Stages \cup {"none"}, media : BOOLEAN, own : BOOLEAN]
    BY DEF ShownInv
<1>2. CASE SyncPolled(Raised)
    <2>1. Raised.status \notin Terminal
        BY DEF Raised, View, Terminal
    <2> QED
        BY <1>2, <2>1 DEF SyncPolled
<1>3. CASE MonitorPolled(Raised)
    <2>1. watch = "monitor" /\ errors' = errors + 1
          /\ IF errors' = MaxPollErrors
             THEN Observe([shown EXCEPT !.status = "failed"])
             ELSE UNCHANGED <<watch, shown, hold>>
        BY <1>3 DEF MonitorPolled
    <2>2. errors' <= MaxPollErrors /\ errors' \in Nat
        BY <1>1, <2>1 DEF MaxPollErrors
    <2>3. CASE errors' = MaxPollErrors
        <3> DEFINE f == [shown EXCEPT !.status = "failed"]
        <3>1. f.status = "failed" /\ f.own = TRUE
            BY <1>1, <2>1
        <3>2. Observe(f)
            BY <2>1, <2>3
        <3> HIDE DEF f
        <3>3. shown' = f /\ watch' = "ended" /\ hold' = "released"
            BY <3>1, <3>2 DEF Observe, Settle, Terminal
        <3> QED
            BY <2>1, <2>3, <3>3 DEF f
    <2>4. CASE errors' # MaxPollErrors
        BY <2>1, <2>2, <2>4 DEF MaxPollErrors
    <2> QED
        BY <2>3, <2>4
<1> QED
    BY <1>2, <1>3 DEF Polled

(* A poll that is read.                                                    *)
LEMMA PollShows ==
    ASSUME NEW a, NEW t, ShownInv, Polled(t), Showable(a, t)
    PROVE  /\ watch \in {"wait", "monitor"} /\ shown' = t /\ errors' \in {0, errors}
           /\ errors' < MaxPollErrors
           /\ \/ t.status \in Terminal /\ watch' = "ended" /\ hold' = Settle(t)
              \/ t.status \notin Terminal /\ watch' = watch /\ hold' = hold
<1>1. t # Raised
    <2>1. t.status \in Stages /\ Raised.status = "raised" /\ "raised" \notin Stages
        BY DEF Showable, Raised, View, Stages
    <2> QED
        BY <2>1
<1>2. errors \in 0..MaxPollErrors
      /\ (watch \in {"create", "wait", "monitor"} => errors < MaxPollErrors)
    BY DEF ShownInv
<1>3. CASE SyncPolled(t)
    BY <1>1, <1>2, <1>3 DEF SyncPolled, Observe
<1>4. CASE MonitorPolled(t)
    <2>1. watch = "monitor" /\ errors' = 0 /\ Observe(t)
        BY <1>1, <1>4 DEF MonitorPolled
    <2>2. 0 < MaxPollErrors
        BY DEF MaxPollErrors
    <2> QED
        BY <2>1, <2>2 DEF Observe
<1> QED
    BY <1>3, <1>4 DEF Polled

(* A poll that shows t, or raises.  The record of an adapter without a
   vendor's job ends as t does.                                            *)
Shows(t) ==
    /\ Polled(t) /\ UNCHANGED adapter
    /\ t = Raised \/ Showable(adapter, t)
    /\ adapter \in JobAdapters => UNCHANGED job /\ (t = Raised \/ VendorView(t, job))
    /\ adapter \notin JobAdapters =>
         IF t = Raised THEN rec'.status # "succeeded" ELSE rec'.status = t.status

(* A create that answers t.                                                *)
Creates(t) ==
    /\ watch = "create" /\ Accepted(t) /\ UNCHANGED <<adapter, errors>>
    /\ Showable(adapter, t) /\ t.status # "succeeded"
    /\ adapter \in JobAdapters => VendorView(t, job')
    /\ adapter \notin JobAdapters => t.status = "pending"

CreateEnds ==
    /\ watch = "create" /\ watch' = "create failed" /\ hold' = "released"
    /\ UNCHANGED <<adapter, job, rec, shown, errors>>

WaitEnds == watch = "wait" /\ Observe(shown) /\ UNCHANGED <<adapter, job, rec, errors>>

(* A step the gateway sees nothing of.                                     *)
Quiet ==
    /\ UNCHANGED <<adapter, watch, shown, errors, hold>>
    /\ rec' = rec \/ Watched
    /\ adapter \in JobAdapters => job' = job \/ job.word \notin EndWords

GatewayStep ==
    (\E t : Shows(t)) \/ (\E t : Creates(t)) \/ CreateEnds \/ WaitEnds \/ Quiet

GatewayInv == ShownInv /\ AgreeInv /\ VendorInv

(* A poll keeps the gateway's side.                                        *)
LEMMA ShowsKeeps ==
    ASSUME GatewayInv, NEW t, Shows(t)
    PROVE  GatewayInv'
<1>1. ShownInv /\ AgreeInv /\ VendorInv
    BY DEF GatewayInv
<1>2. adapter' = adapter
    BY DEF Shows
<1>3. CASE t = Raised
    <2>1. Polled(Raised)
        BY <1>3 DEF Shows
    <2>2. \/ /\ watch = "wait" /\ watch' = "create failed" /\ hold' = "released"
             /\ UNCHANGED <<shown, errors>>
          \/ /\ watch = "monitor" /\ errors' = errors + 1 /\ errors' < MaxPollErrors
             /\ UNCHANGED <<watch, shown, hold>>
          \/ /\ watch = "monitor" /\ errors' = MaxPollErrors /\ watch' = "ended"
             /\ shown' = [shown EXCEPT !.status = "failed"] /\ hold' = "released"
        BY <1>1, <2>1, PollRaises
    <2>3. adapter \in JobAdapters => job' = job
        BY DEF Shows
    <2>4. adapter \notin JobAdapters => rec'.status # "succeeded"
        BY <1>3 DEF Shows
    <2>5. CASE watch = "wait" /\ watch' = "create failed" /\ hold' = "released"
               /\ UNCHANGED <<shown, errors>>
        <3>1. ShownInv'
            BY <1>1, <1>2, <2>5 DEF ShownInv
        <3>2. AgreeInv'
            BY <1>2, <2>4, <2>5 DEF AgreeInv
        <3>3. VendorInv'
            BY <1>1, <1>2, <2>3, <2>5 DEF VendorInv
        <3> QED
            BY <3>1, <3>2, <3>3 DEF GatewayInv
    <2>6. CASE watch = "monitor" /\ errors' = errors + 1 /\ errors' < MaxPollErrors
               /\ UNCHANGED <<watch, shown, hold>>
        <3>1. errors' \in 0..MaxPollErrors
            BY <1>1, <2>6 DEF ShownInv, MaxPollErrors
        <3>2. ShownInv'
            BY <1>1, <1>2, <2>6, <3>1 DEF ShownInv
        <3>3. AgreeInv'
            BY <1>1, <1>2, <2>6 DEF AgreeInv
        <3>4. shown.status \notin Terminal
            BY <1>1, <2>6 DEF ShownInv
        <3>5. VendorInv'
            BY <2>6, <3>4 DEF VendorInv, Terminal
        <3> QED
            BY <3>2, <3>3, <3>5 DEF GatewayInv
    <2>7. CASE watch = "monitor" /\ errors' = MaxPollErrors /\ watch' = "ended"
               /\ shown' = [shown EXCEPT !.status = "failed"] /\ hold' = "released"
        <3>1. shown \in [status : Stages \cup {"none"}, media : BOOLEAN, own : BOOLEAN]
              /\ shown.own = TRUE
            BY <1>1, <2>7 DEF ShownInv
        <3>2. shown' \in [status : Stages \cup {"none"}, media : BOOLEAN, own : BOOLEAN]
              /\ shown'.own = TRUE /\ shown'.status = "failed"
            BY <2>7, <3>1 DEF Stages
        <3>3. errors' \in 0..MaxPollErrors
            BY <2>7 DEF MaxPollErrors
        <3>4. ShownInv'
            BY <2>7, <3>2, <3>3 DEF ShownInv, Terminal
        <3>5. AgreeInv'
            BY <2>7, <3>2 DEF AgreeInv
        <3>6. VendorInv'
            BY <2>7, <3>2 DEF VendorInv
        <3> QED
            BY <3>4, <3>5, <3>6 DEF GatewayInv
    <2> QED
        BY <2>2, <2>5, <2>6, <2>7
<1>4. CASE Showable(adapter, t) /\ t # Raised
    <2>1. Polled(t)
        BY DEF Shows
    <2>2. /\ watch \in {"wait", "monitor"} /\ shown' = t /\ errors' \in {0, errors}
          /\ errors' < MaxPollErrors
          /\ \/ t.status \in Terminal /\ watch' = "ended" /\ hold' = Settle(t)
             \/ t.status \notin Terminal /\ watch' = watch /\ hold' = hold
        BY <1>1, <1>4, <2>1, PollShows
    <2>3. hold = "held"
        BY <1>1, <2>2 DEF ShownInv
    <2>4. t \in [status : Stages, media : BOOLEAN, own : BOOLEAN]
          /\ (t.own = TRUE \/ (t.own = FALSE /\ t.status = "succeeded"
                               /\ adapter = "acestep_completion"))
          /\ (t.status = "succeeded" /\ adapter \in ChecksMedia => t.media)
        BY <1>4 DEF Showable
    <2>5. errors' \in 0..MaxPollErrors
        <3>1. errors \in 0..MaxPollErrors
            BY <1>1 DEF ShownInv
        <3>2. 0 \in 0..MaxPollErrors
            BY DEF MaxPollErrors
        <3> QED
            BY <2>2, <3>1, <3>2
    <2>6. ShownInv'
        <3>1. CASE t.status \in Terminal
            <4>1. IF t.own THEN hold' = IF t.status = "succeeded" THEN "charged" ELSE "released"
                  ELSE hold' = "held" /\ adapter = "acestep_completion"
                BY <2>2, <2>3, <2>4, <3>1 DEF Settle
            <4> QED
                BY <1>2, <2>2, <2>4, <2>5, <3>1, <4>1 DEF ShownInv
        <3>2. CASE t.status \notin Terminal
            <4>1. t.status # "succeeded"
                BY <3>2 DEF Terminal
            <4> QED
                BY <1>2, <2>2, <2>3, <2>4, <2>5, <3>2, <4>1 DEF ShownInv
        <3> QED
            BY <3>1, <3>2
    <2>7. AgreeInv'
        <3>1. adapter \notin JobAdapters => rec'.status = t.status
            BY <1>4 DEF Shows
        <3> QED
            BY <1>2, <2>2, <3>1 DEF AgreeInv
    <2>8. VendorInv'
        <3>1. adapter \in JobAdapters => job' = job /\ VendorView(t, job)
            BY <1>4 DEF Shows
        <3> QED
            BY <1>2, <2>2, <3>1 DEF VendorInv, VendorView
    <2> QED
        BY <2>6, <2>7, <2>8 DEF GatewayInv
<1> QED
    BY <1>3, <1>4 DEF Shows

(* A create keeps it too.                                                  *)
LEMMA CreatesKeeps ==
    ASSUME GatewayInv, NEW t, Creates(t)
    PROVE  GatewayInv'
<1>1. ShownInv /\ AgreeInv /\ VendorInv
    BY DEF GatewayInv
<1>2. watch = "create" /\ Accepted(t) /\ adapter' = adapter /\ errors' = errors
    BY DEF Creates
<1>3. hold = "held" /\ errors < MaxPollErrors /\ errors \in 0..MaxPollErrors
    BY <1>1, <1>2 DEF ShownInv
<1>4. t \in [status : Stages, media : BOOLEAN, own : BOOLEAN] /\ t.own = TRUE
      /\ t.status # "succeeded"
    <2>1. Showable(adapter, t) /\ t.status # "succeeded"
        BY DEF Creates
    <2> QED
        BY <2>1 DEF Showable
<1>5. /\ shown' = t
      /\ \/ watch' = "wait" /\ hold' = hold
         \/ t.status \in Terminal /\ watch' = "ended" /\ hold' = "released"
         \/ t.status \notin Terminal /\ watch' = "monitor" /\ hold' = hold
    BY <1>2, <1>4 DEF Accepted, Observe, Settle
<1>6. ShownInv'
    BY <1>2, <1>3, <1>4, <1>5 DEF ShownInv
<1>7. AgreeInv'
    <2>1. adapter \notin JobAdapters => t.status \notin Terminal
        BY DEF Creates, Terminal
    <2> QED
        BY <1>2, <1>5, <2>1 DEF AgreeInv
<1>8. VendorInv'
    <2>1. adapter \in JobAdapters => VendorView(t, job')
        BY DEF Creates
    <2> QED
        BY <1>2, <1>4, <1>5, <2>1 DEF VendorInv, VendorView
<1> QED
    BY <1>6, <1>7, <1>8 DEF GatewayInv

(* So does a create that fails.                                            *)
LEMMA CreateEndsKeeps ==
    ASSUME GatewayInv, CreateEnds
    PROVE  GatewayInv'
<1>1. ShownInv /\ AgreeInv /\ VendorInv
    BY DEF GatewayInv
<1>2. ShownInv'
    BY <1>1 DEF ShownInv, CreateEnds
<1>3. AgreeInv'
    BY <1>1 DEF AgreeInv, CreateEnds
<1>4. VendorInv'
    BY <1>1 DEF VendorInv, CreateEnds
<1> QED
    BY <1>2, <1>3, <1>4 DEF GatewayInv

(* So does the end of its wait.                                            *)
LEMMA WaitEndsKeeps ==
    ASSUME GatewayInv, WaitEnds
    PROVE  GatewayInv'
<1>1. ShownInv /\ AgreeInv /\ VendorInv
    BY DEF GatewayInv
<1>2. watch = "wait" /\ UNCHANGED <<adapter, job, rec, errors>>
    BY DEF WaitEnds
<1>3. hold = "held" /\ shown.own = TRUE /\ shown.status # "succeeded"
    BY <1>1, <1>2 DEF ShownInv
<1>4. /\ shown' = shown
      /\ \/ shown.status \in Terminal /\ watch' = "ended" /\ hold' = "released"
         \/ shown.status \notin Terminal /\ watch' = "monitor" /\ hold' = hold
    BY <1>3 DEF WaitEnds, Observe, Settle
<1>5. ShownInv'
    BY <1>1, <1>2, <1>3, <1>4 DEF ShownInv
<1>6. AgreeInv'
    BY <1>1, <1>2, <1>4 DEF AgreeInv
<1>7. VendorInv'
    BY <1>1, <1>2, <1>4 DEF VendorInv
<1> QED
    BY <1>5, <1>6, <1>7 DEF GatewayInv

(* So does a step the gateway does not see.                                *)
LEMMA QuietKeeps ==
    ASSUME GatewayInv, Quiet
    PROVE  GatewayInv'
<1>1. ShownInv /\ AgreeInv /\ VendorInv
    BY DEF GatewayInv
<1>2. ShownInv'
    BY <1>1 DEF ShownInv, Quiet
<1>3. AgreeInv'
    BY <1>1 DEF AgreeInv, Quiet, Watched
<1>4. VendorInv'
    BY <1>1 DEF VendorInv, Quiet, EndWords
<1> QED
    BY <1>2, <1>3, <1>4 DEF GatewayInv

(* Whatever the step, the gateway's side is kept.                          *)
LEMMA GatewayKeeps ==
    ASSUME GatewayInv, GatewayStep
    PROVE  GatewayInv'
BY ShowsKeeps, CreatesKeeps, CreateEndsKeeps, WaitEndsKeeps, QuietKeeps DEF GatewayStep

-----------------------------------------------------------------------------
(* The steps, at the adapter.                                              *)

(* Steps that leave the adapter's record alone.                            *)
LEMMA AdapterSame ==
    ASSUME AdapterInv, VoiceInv, UNCHANGED <<adapter, job, rec, step>>,
           step = "none" \/ watch' = watch
    PROVE  AdapterInv' /\ VoiceInv'
<1>1. AdapterInv'
    BY DEF AdapterInv, Watched
<1>2. VoiceInv'
    BY DEF VoiceInv
<1> QED
    BY <1>1, <1>2

(* A generation that ends with a verdict is recorded and shown as it says. *)
LEMMA EndsKeeps ==
    ASSUME AdapterInv, VoiceInv, NEW got, Verdicts(adapter, got),
           adapter \notin JobAdapters, rec.status \in {"pending", "running"}, ~rec.verify,
           rec' = [Record(got.rec) EXCEPT !.media = got.view.media], Polled(got.view),
           step' = "none", UNCHANGED <<adapter, job>>
    PROVE  /\ AdapterInv' /\ VoiceInv' /\ GatewayStep
           /\ rec'.status = got.rec /\ rec'.verify = FALSE
<1>1. rec \in [status : RecordStates, media : BOOLEAN, verify : BOOLEAN]
    BY DEF AdapterInv
<1> DEFINE m == got.view.media
<1>2. /\ got.rec \in {"failed", "running", "succeeded"} /\ m \in BOOLEAN
      /\ got.view = Raised \/ Showable(adapter, got.view)
      /\ got.view = Raised => got.rec # "succeeded"
      /\ got.view # Raised => got.view.status = got.rec
      /\ got.rec = "succeeded" /\ adapter \in ChecksMedia => m
    <2>1. Raised.media = FALSE
        BY DEF Raised, View
    <2>2. \A v : Showable(adapter, v) => /\ v.media \in BOOLEAN
                                         /\ v.status = "succeeded" /\ adapter \in ChecksMedia => v.media
        BY DEF Showable
    <2>3. got.rec \in {"failed", "running", "succeeded"}
          /\ \/ got.view = Raised /\ got.rec # "succeeded"
             \/ Showable(adapter, got.view) /\ got.view.status = got.rec
        BY DEF Verdicts
    <2>4. CASE got.view = Raised /\ got.rec # "succeeded"
        BY <2>1, <2>3, <2>4
    <2>5. CASE Showable(adapter, got.view) /\ got.view.status = got.rec
        <3>1. got.view # Raised
            <4>1. got.view.status \in Stages /\ Raised.status = "raised" /\ "raised" \notin Stages
                BY <2>5 DEF Showable, Raised, View, Stages
            <4> QED
                BY <4>1
        <3> QED
            BY <2>2, <2>3, <2>5, <3>1
    <2> QED
        BY <2>3, <2>4, <2>5
<1>3. rec' = [Record(got.rec) EXCEPT !.media = m]
    OBVIOUS
<1> HIDE DEF m
<1>4. /\ rec' \in [status : RecordStates, media : BOOLEAN, verify : BOOLEAN]
      /\ rec'.status = got.rec /\ rec'.media = m /\ rec'.verify = rec.verify
    <2> DEFINE r == Record(got.rec)
    <2>1. r \in [status : RecordStates, media : BOOLEAN, verify : BOOLEAN]
          /\ r.status = got.rec /\ r.verify = rec.verify
        BY <1>1, <1>2 DEF Record, RecordStates
    <2>2. rec' = [r EXCEPT !.media = m]
        BY <1>3
    <2> HIDE DEF r
    <2> QED
        BY <1>2, <2>1, <2>2
<1>5. rec'.verify = FALSE
    BY <1>1, <1>4
<1>6. AdapterInv'
    BY <1>2, <1>4, <1>5 DEF AdapterInv, Steps
<1>7. VoiceInv'
    BY <1>5 DEF VoiceInv
<1>8. Shows(got.view)
    BY <1>2, <1>4 DEF Shows
<1> QED
    BY <1>4, <1>5, <1>6, <1>7, <1>8 DEF GatewayStep

(* Generations, by family.  A vendor's job is started by the create, which
   only acestep repeats, after an unread answer; the others generate while
   their record is unsettled, and only those that call again twice.        *)
Unsettled == rec.status \in {"none", "pending", "running"}

JobCount ==
    IF watch = "create"
    THEN /\ started = turns /\ unread = turns /\ turns < MaxCreateAttempts
         /\ adapter # "acestep" => turns = 0
    ELSE /\ started <= MaxCreateAttempts
         /\ started <= 1 + IF adapter = "acestep" THEN unread ELSE 0

CallCount ==
    /\ started <= MaxStarted
    /\ started <= (IF Unsettled THEN 0 ELSE 1) + IF adapter \in CallsAgain THEN unread ELSE 0

LoopCount ==
    /\ started <= 1
    /\ Unsettled /\ step \notin {"polling", "polling again"} => started = 0

VoiceCount ==
    /\ started <= 1
    /\ Unsettled /\ ~rec.verify => started = 0

CountInv ==
    /\ started \in Nat /\ unread \in Nat /\ turns \in Nat
    /\ adapter \in JobAdapters => JobCount
    /\ adapter \in CallAdapters => CallCount
    /\ adapter \in LoopAdapters => LoopCount
    /\ adapter \in VoiceAdapters => VoiceCount

(* The invariant.                                                          *)
TaskInv == AdapterInv /\ VoiceInv /\ GatewayInv /\ CountInv

(* What a step has to keep for it.                                         *)
StepKept == AdapterInv' /\ VoiceInv' /\ CountInv' /\ GatewayStep

(* Steps that start nothing and leave the record alone.                    *)
LEMMA CountSame ==
    ASSUME CountInv, UNCHANGED <<adapter, rec, step, started, unread, turns>>,
           watch' = watch \/ (watch # "create" /\ watch' # "create")
    PROVE  CountInv'
BY DEF CountInv, JobCount, CallCount, LoopCount, VoiceCount, Unsettled

(* The create of a task without a vendor's job.                            *)
LEMMA CreateLocalKeeps ==
    ASSUME TaskInv, CreateLocal
    PROVE  StepKept
<1>1. AdapterInv /\ VoiceInv /\ GatewayInv /\ CountInv
    BY DEF TaskInv
<1> DEFINE t == CreateOf(adapter, [ok |-> TRUE])
<1>2. /\ watch = "create" /\ adapter \notin JobAdapters
      /\ rec' = [rec EXCEPT !.status = "pending"] /\ Accepted(t)
      /\ UNCHANGED <<adapter, sync, step, job, errors, started, unread, turns>>
    BY DEF CreateLocal
<1>3. adapter \in CallAdapters \cup LoopAdapters \cup VoiceAdapters
    BY <1>1, <1>2 DEF AdapterInv
<1>4. t = View("pending", FALSE) /\ Showable(adapter, t)
    BY <1>3, CreateLocalSound
<1> HIDE DEF t
<1>5. rec \in [status : RecordStates, media : BOOLEAN, verify : BOOLEAN]
      /\ step = "none" /\ rec.status = "none" /\ ~rec.verify
    BY <1>1, <1>2 DEF AdapterInv, GatewayInv, AgreeInv, Watched
<1>6. /\ rec' \in [status : RecordStates, media : BOOLEAN, verify : BOOLEAN]
      /\ rec'.status = "pending" /\ rec'.verify = rec.verify
    BY <1>2, <1>5 DEF RecordStates
<1>7. AdapterInv'
    BY <1>1, <1>2, <1>5, <1>6 DEF AdapterInv
<1>8. VoiceInv'
    BY <1>1, <1>2, <1>5, <1>6 DEF VoiceInv
<1>9. t.status = "pending"
    BY <1>4 DEF View
<1>10. Creates(t)
    BY <1>2, <1>4, <1>9 DEF Creates
<1>11. CountInv'
    <2>1. Unsettled /\ Unsettled'
        BY <1>5, <1>6 DEF Unsettled
    <2>2. (adapter \in CallAdapters => CallCount) => (adapter \in CallAdapters => CallCount)'
        BY <1>2, <2>1 DEF CallCount
    <2>3. (adapter \in LoopAdapters => LoopCount) => (adapter \in LoopAdapters => LoopCount)'
        BY <1>2, <2>1 DEF LoopCount
    <2>4. (adapter \in VoiceAdapters => VoiceCount) => (adapter \in VoiceAdapters => VoiceCount)'
        BY <1>2, <1>5, <1>6, <2>1 DEF VoiceCount
    <2> QED
        BY <1>1, <1>2, <2>2, <2>3, <2>4 DEF CountInv
<1> QED
    BY <1>7, <1>8, <1>10, <1>11 DEF StepKept, GatewayStep

(* Its failure.                                                            *)
LEMMA CreateLocalFailsKeeps ==
    ASSUME TaskInv, CreateLocalFails
    PROVE  StepKept
<1>1. AdapterInv /\ VoiceInv /\ GatewayInv /\ CountInv
    BY DEF TaskInv
<1>2. /\ watch = "create" /\ adapter \notin JobAdapters
      /\ watch' = "create failed" /\ hold' = "released"
      /\ UNCHANGED <<adapter, sync, step, job, rec, shown, errors, started, unread, turns>>
    BY DEF CreateLocalFails
<1>3. step = "none"
    BY <1>1, <1>2 DEF AdapterInv, Watched
<1>4. AdapterInv' /\ VoiceInv'
    BY <1>1, <1>2, <1>3, AdapterSame
<1>5. CountInv'
    BY <1>1, <1>2 DEF CountInv, CallCount, LoopCount, VoiceCount, Unsettled
<1> QED
    BY <1>2, <1>4, <1>5 DEF StepKept, GatewayStep, CreateEnds

(* The create of a vendor's job.                                           *)
LEMMA CreateJobKeeps ==
    ASSUME TaskInv, CreateJob
    PROVE  StepKept
<1>1. AdapterInv /\ VoiceInv /\ GatewayInv /\ CountInv
    BY DEF TaskInv
<1>2. PICK w \in Vocabulary(adapter) \ DoneWords :
           job' = [word |-> w, media |-> FALSE]
           /\ Accepted(CreateOf(adapter, [id |-> TRUE, word |-> w]))
    BY DEF CreateJob
<1>3. /\ watch = "create" /\ adapter \in JobAdapters
      /\ started' = started + 1 /\ turns' = 0
      /\ UNCHANGED <<adapter, sync, step, rec, errors, unread>>
    BY DEF CreateJob
<1> DEFINE t == CreateOf(adapter, [id |-> TRUE, word |-> w])
<1>4. VendorView(t, job') /\ t.status # "succeeded" /\ Showable(adapter, t)
    BY <1>2, <1>3, CreateSound
<1>5. Accepted(t)
    BY <1>2
<1> HIDE DEF t
<1>6. step = "none"
    BY <1>1, <1>3 DEF AdapterInv, Watched
<1>7. job'.word = w /\ job'.media = FALSE
    BY <1>2
<1>8. AdapterInv'
    BY <1>1, <1>2, <1>3, <1>6, <1>7, FamiliesDisjoint DEF AdapterInv
<1>9. VoiceInv'
    BY <1>3, FamiliesDisjoint DEF VoiceInv
<1>10. Creates(t)
    BY <1>3, <1>4, <1>5 DEF Creates
<1>11. watch' # "create"
    BY <1>5 DEF Accepted, Observe
<1>12. CountInv'
    <2>1. started = turns /\ unread = turns /\ turns < MaxCreateAttempts /\ turns \in Nat
          /\ (adapter # "acestep" => turns = 0)
        BY <1>1, <1>3 DEF CountInv, JobCount
    <2>2. JobCount'
        BY <1>3, <1>11, <2>1 DEF JobCount, MaxCreateAttempts
    <2> QED
        BY <1>3, <2>1, <2>2, FamiliesDisjoint DEF CountInv
<1> QED
    BY <1>8, <1>9, <1>10, <1>12 DEF StepKept, GatewayStep

(* acestep's repeated submit, and a create that gets no id.                *)
LEMMA CreateRetriesKeep ==
    ASSUME TaskInv, ResubmitJob \/ CreateJobFails
    PROVE  StepKept
<1>1. AdapterInv /\ VoiceInv /\ GatewayInv /\ CountInv
    BY DEF TaskInv
<1>2. watch = "create" /\ adapter \in JobAdapters
      /\ UNCHANGED <<adapter, step, job, rec, shown, errors>>
    BY DEF ResubmitJob, CreateJobFails, JobAdapters
<1>3. step = "none"
    BY <1>1, <1>2 DEF AdapterInv, Watched
<1>4. AdapterInv' /\ VoiceInv'
    BY <1>1, <1>2, <1>3, AdapterSame
<1>5. started = turns /\ unread = turns /\ turns < MaxCreateAttempts /\ turns \in Nat
      /\ (adapter # "acestep" => turns = 0)
    BY <1>1, <1>2 DEF CountInv, JobCount
<1>6. CASE ResubmitJob
    <2>1. JobCount' /\ started' \in Nat /\ unread' \in Nat /\ turns' \in Nat
        BY <1>2, <1>5, <1>6 DEF ResubmitJob, JobCount, MaxCreateAttempts
    <2>2. CountInv'
        BY <1>2, <2>1, FamiliesDisjoint DEF CountInv
    <2>3. Quiet
        BY <1>6 DEF Quiet, ResubmitJob
    <2> QED
        BY <1>4, <2>2, <2>3 DEF StepKept, GatewayStep
<1>7. CASE CreateJobFails
    <2>1. JobCount' /\ started' \in Nat /\ unread' \in Nat /\ turns' \in Nat
        <3>1. turns' = 0 /\ watch' = "create failed"
              /\ \/ started' = started /\ unread' = unread
                 \/ started' = started + 1 /\ unread' = unread + 1
            BY <1>7 DEF CreateJobFails
        <3>2. started' \in Nat /\ unread' \in Nat /\ started' <= MaxCreateAttempts
              /\ started' <= 1 + unread' /\ (adapter # "acestep" => started' <= 1 + 0)
            <4>1. started \in Nat /\ unread = started /\ started < 3
                  /\ (adapter # "acestep" => started = 0)
                BY <1>5 DEF MaxCreateAttempts
            <4>2. \A n \in Nat : n < 3 => n + 1 \in Nat /\ n <= 3 /\ n + 1 <= 3
                                        /\ n <= 1 + n /\ n + 1 <= 1 + (n + 1)
                OBVIOUS
            <4>3. CASE started' = started /\ unread' = unread
                BY <4>1, <4>2, <4>3 DEF MaxCreateAttempts
            <4>4. CASE started' = started + 1 /\ unread' = unread + 1
                BY <4>1, <4>2, <4>4 DEF MaxCreateAttempts
            <4> QED
                BY <3>1, <4>3, <4>4
        <3> QED
            BY <1>2, <3>1, <3>2 DEF JobCount
    <2>2. CountInv'
        BY <1>2, <2>1, FamiliesDisjoint DEF CountInv
    <2>3. CreateEnds
        BY <1>2, <1>7 DEF CreateEnds, CreateJobFails
    <2> QED
        BY <1>4, <2>2, <2>3 DEF StepKept, GatewayStep
<1> QED
    BY <1>6, <1>7

(* The end of a create's wait.                                             *)
LEMMA WaitKeeps ==
    ASSUME TaskInv, SyncWaitTimesOut
    PROVE  StepKept
<1>1. AdapterInv /\ VoiceInv /\ CountInv
    BY DEF TaskInv
<1>2. watch = "wait" /\ step = "none" /\ Observe(shown)
      /\ UNCHANGED <<adapter, job, rec, step, errors, started, unread, turns>>
    BY DEF SyncWaitTimesOut
<1>3. watch' # "create"
    BY <1>2 DEF Observe
<1>4. CountInv'
    BY <1>1, <1>2, <1>3, CountSame
<1>5. AdapterInv' /\ VoiceInv'
    BY <1>1, <1>2, AdapterSame
<1> QED
    BY <1>2, <1>4, <1>5 DEF StepKept, GatewayStep, WaitEnds

(* The vendor moves its job.                                               *)
LEMMA VendorKeeps ==
    ASSUME TaskInv, VendorMoves
    PROVE  StepKept
<1>1. AdapterInv /\ VoiceInv /\ CountInv
    BY DEF TaskInv
<1>2. PICK w \in Vocabulary(adapter) \ {job.word}, m \in BOOLEAN :
           job' = [word |-> w, media |-> m]
    BY DEF VendorMoves
<1>3. UNCHANGED <<adapter, watch, step, rec, shown, errors, hold, started, unread, turns>>
      /\ job # NoJob /\ job.word \notin EndWords \cup {"unverified", "verified"}
    BY DEF VendorMoves, Live
<1>4. job'.word = w /\ job'.media = m
    BY <1>2
<1>5. AdapterInv'
    BY <1>1, <1>2, <1>3, <1>4 DEF AdapterInv, Watched
<1>6. VoiceInv'
    BY <1>1, <1>3 DEF VoiceInv
<1>7. CountInv'
    BY <1>1, <1>3, CountSame
<1>8. Quiet
    BY <1>3 DEF Quiet
<1> QED
    BY <1>5, <1>6, <1>7, <1>8 DEF StepKept, GatewayStep

(* A poll of a job.                                                        *)
LEMMA JobPollKeeps ==
    ASSUME TaskInv, PollReads \/ DownloadFails \/ PollReadsNothing \/ PollFails
    PROVE  StepKept
<1>1. AdapterInv /\ VoiceInv /\ CountInv
    BY DEF TaskInv
<1>2. Watched /\ adapter \in JobAdapters
      /\ UNCHANGED <<adapter, step, job, rec, started, unread, turns>>
    BY DEF PollReads, DownloadFails, PollReadsNothing, PollFails, JobAdapters
<1>3. step = "none"
    BY <1>1, <1>2, FamiliesDisjoint DEF AdapterInv
<1>4. AdapterInv' /\ VoiceInv'
    BY <1>1, <1>2, <1>3, AdapterSame
<1>5. \E t : Polled(t) /\ JobView(adapter, t, job)
    <2>1. job.media \in BOOLEAN /\ job = [word |-> job.word, media |-> job.media]
        BY <1>1 DEF AdapterInv
    <2>2. CASE PollReads
        <3>1. Polled(PollOf(adapter, job))
            BY <2>2 DEF PollReads
        <3> QED
            BY <1>2, <2>1, <3>1, PollSound
    <2>3. CASE DownloadFails
        <3> DEFINE t == OpenAIVideoPoll([job EXCEPT !.media = FALSE])
        <3>1. Polled(t) /\ job.word = "completed" /\ adapter = "openai_video"
            BY <2>3 DEF DownloadFails
        <3>2. VendorView(t, job) /\ Showable("openai_video", t)
            BY <2>1, <3>1, DownloadSound
        <3> HIDE DEF t
        <3> QED
            BY <3>1, <3>2 DEF JobView
    <2>4. CASE PollReadsNothing
        <3> DEFINE t == PollOf(adapter, NoJob)
        <3>1. Polled(t)
            BY <2>4 DEF PollReadsNothing
        <3>2. NoJob.media \in BOOLEAN /\ NoJob.word = "none"
            BY DEF NoJob
        <3>3. JobView(adapter, t, NoJob)
            BY <1>2, <3>2, PollSound
        <3> HIDE DEF t
        <3>4. VendorView(t, NoJob) => VendorView(t, job)
            BY <3>2 DEF VendorView, DoneWords, FailedWords
        <3> QED
            BY <3>1, <3>3, <3>4 DEF JobView
    <2>5. CASE PollFails
        BY <2>5 DEF PollFails, JobView
    <2> QED
        BY <2>2, <2>3, <2>4, <2>5
<1>6. PICK t : Polled(t) /\ JobView(adapter, t, job)
    BY <1>5
<1>7. Shows(t)
    BY <1>2, <1>6 DEF Shows, JobView
<1>8. watch # "create" /\ watch' # "create"
    <2>1. watch \in {"wait", "monitor"}
        BY <1>2 DEF Watched
    <2> QED
        BY <1>6, <2>1 DEF Polled, SyncPolled, MonitorPolled, Observe
<1>9. CountInv'
    BY <1>1, <1>2, <1>8, CountSame
<1> QED
    BY <1>4, <1>7, <1>9 DEF StepKept, GatewayStep

(* A generation inside a poll.                                             *)
LEMMA GenerateKeeps ==
    ASSUME TaskInv, GenerateInPoll
    PROVE  StepKept
<1>1. AdapterInv /\ VoiceInv /\ CountInv
    BY DEF TaskInv
<1>2. PICK a \in Answers :
        LET got == GenerateOf(adapter, a)
        IN  /\ rec' = [Record(got.rec) EXCEPT !.media = got.view.media]
            /\ Polled(got.view)
            /\ started' = IF a \in NotStarted THEN started ELSE started + 1
            /\ unread' = IF a \in {"unfinished", "garbled", "lost"} THEN unread + 1 ELSE unread
    BY DEF GenerateInPoll
<1> DEFINE got == GenerateOf(adapter, a)
<1>3. /\ Watched /\ adapter \in CallAdapters /\ rec.status \in {"pending", "running"}
      /\ started < MaxStarted /\ UNCHANGED <<adapter, step, job, turns>>
    BY DEF GenerateInPoll, Open
<1>4. Verdicts(adapter, got) /\ Settling(adapter, a, got)
    BY <1>3, GenerateSound
<1>5. rec' = [Record(got.rec) EXCEPT !.media = got.view.media] /\ Polled(got.view)
    BY <1>2
<1> HIDE DEF got
<1>6. step = "none" /\ ~rec.verify /\ adapter \notin JobAdapters
    BY <1>1, <1>3, FamiliesDisjoint DEF AdapterInv
<1>7. AdapterInv' /\ VoiceInv' /\ GatewayStep /\ rec'.status = got.rec
    BY <1>1, <1>3, <1>4, <1>5, <1>6, EndsKeeps
<1>8. CountInv'
    <2>1. started \in Nat /\ unread \in Nat /\ turns \in Nat
          /\ started <= (IF adapter \in CallsAgain THEN unread ELSE 0)
        BY <1>1, <1>3 DEF CountInv, CallCount, Unsettled
    <2>2. /\ started' \in Nat /\ unread' \in Nat /\ started' <= MaxStarted
          /\ started' <= started + 1 /\ unread <= unread'
        BY <1>2, <1>3, <2>1, ProviderBounds
    <2>3. Unsettled' => adapter \in CallsAgain /\ unread' = unread + 1
        BY <1>2, <1>4, <1>7 DEF Unsettled, Settling, Verdicts
    <2>4. CallCount'
        <3>1. CASE adapter \in CallsAgain
            <4>1. started <= unread
                BY <2>1, <3>1
            <4>2. started' <= 1 + unread'
                <5>1. \A m, n, k, l \in Nat : m <= n + 1 /\ n <= k /\ k <= l => m <= 1 + l
                    OBVIOUS
                <5>2. started \in Nat /\ unread \in Nat /\ started' \in Nat /\ unread' \in Nat
                    BY <2>1, <2>2
                <5> QED
                    BY <2>2, <4>1, <5>1, <5>2, Zenon
            <4>3. Unsettled' => started' <= 0 + unread'
                BY <2>1, <2>2, <2>3, <4>1
            <4>4. adapter' = adapter
                BY <1>3
            <4>5. CASE Unsettled'
                BY <2>2, <3>1, <4>3, <4>4, <4>5 DEF CallCount
            <4>6. CASE ~Unsettled'
                BY <2>2, <3>1, <4>2, <4>4, <4>6 DEF CallCount
            <4> QED
                BY <4>5, <4>6
        <3>2. CASE adapter \notin CallsAgain
            <4>1. started' <= 1 /\ ~Unsettled'
                BY <2>1, <2>2, <2>3, <3>2
            <4> QED
                BY <1>3, <2>2, <3>2, <4>1 DEF CallCount
        <3> QED
            BY <3>1, <3>2
    <2> QED
        BY <1>3, <2>1, <2>2, <2>4, FamiliesDisjoint DEF CountInv
<1> QED
    BY <1>7, <1>8 DEF StepKept

(* A poll of a task that has ended.                                        *)
LEMMA CachedKeeps ==
    ASSUME TaskInv, PollCached
    PROVE  StepKept
<1>1. AdapterInv /\ VoiceInv /\ CountInv
    BY DEF TaskInv
<1> DEFINE t == View(rec.status, rec.media)
<1>2. /\ Watched /\ adapter \notin JobAdapters /\ rec.status \in {"succeeded", "failed"}
      /\ Polled(t) /\ UNCHANGED <<adapter, step, job, rec, started, unread, turns>>
    BY DEF PollCached
<1>3. rec.media \in BOOLEAN /\ step = "none"
      /\ (rec.status = "succeeded" /\ adapter \in ChecksMedia => rec.media)
    BY <1>1, <1>2 DEF AdapterInv
<1>4. t = [status |-> rec.status, media |-> rec.media, own |-> TRUE]
    BY DEF View
<1> HIDE DEF t
<1>5. Showable(adapter, t) /\ t.status = rec.status
    <2> DEFINE m == rec.media
               s == rec.status
    <2>1. t = [status |-> s, media |-> m, own |-> TRUE] /\ m \in BOOLEAN
          /\ s \in {"succeeded", "failed"}
        BY <1>2, <1>3, <1>4
    <2>2. s = "succeeded" /\ adapter \in ChecksMedia => m
        BY <1>3
    <2> HIDE DEF m, s
    <2>3. t \in [status : Stages, media : BOOLEAN, own : BOOLEAN] /\ t.status = s /\ t.media = m
          /\ t.own = TRUE
        BY <2>1 DEF Stages
    <2> QED
        BY <2>2, <2>3 DEF Showable, s
<1>6. t # Raised
    <2>1. Raised.status = "raised"
        BY DEF Raised, View
    <2> QED
        BY <1>2, <1>5, <2>1
<1>7. Shows(t)
    BY <1>2, <1>5, <1>6 DEF Shows
<1>8. watch # "create" /\ watch' # "create"
    <2>1. watch \in {"wait", "monitor"}
        BY <1>2 DEF Watched
    <2> QED
        BY <1>2, <2>1 DEF Polled, SyncPolled, MonitorPolled, Observe
<1>9. CountInv'
    BY <1>1, <1>2, <1>8, CountSame
<1>10. AdapterInv' /\ VoiceInv'
    BY <1>1, <1>2, <1>3, AdapterSame
<1> QED
    BY <1>7, <1>9, <1>10 DEF StepKept, GatewayStep

(* The end of a loop's generation.                                         *)
LEMMA LoopEndsKeeps ==
    ASSUME AdapterInv, VoiceInv, adapter \in LoopAdapters, rec.status \in {"pending", "running"},
           NEW images, LoopEnds(SyncImageGet(images)), UNCHANGED <<adapter, job>>
    PROVE  AdapterInv' /\ VoiceInv' /\ GatewayStep /\ ~Unsettled' /\ step' = "none"
<1> DEFINE got == SyncImageGet(images)
<1>1. adapter \notin ChecksMedia
    BY DEF LoopAdapters, ChecksMedia, VoiceAdapters
<1>2. Verdicts(adapter, got) /\ got.rec # "running"
    BY <1>1, ImagesSound
<1>3. step' = "none" /\ rec' = [Record(got.rec) EXCEPT !.media = got.view.media]
      /\ Polled(got.view)
    BY DEF LoopEnds
<1> HIDE DEF got
<1>4. ~rec.verify /\ adapter \notin JobAdapters
    BY FamiliesDisjoint DEF AdapterInv
<1>5. AdapterInv' /\ VoiceInv' /\ GatewayStep /\ rec'.status = got.rec
    BY <1>2, <1>3, <1>4, EndsKeeps
<1>6. ~Unsettled'
    BY <1>2, <1>5 DEF Unsettled, Verdicts
<1> QED
    BY <1>3, <1>5, <1>6

(* The start of one: the record runs, and the gateway sees nothing.        *)
LEMMA LoopStartsKeeps ==
    ASSUME AdapterInv, VoiceInv, adapter \in LoopAdapters, Watched,
           rec.status \in {"pending", "running"}, rec' = [rec EXCEPT !.status = "running"],
           step' \in {"polling", "inline"}, job' \in {job, [word |-> "unlisted", media |-> FALSE]},
           UNCHANGED <<adapter, watch, shown, errors, hold>>
    PROVE  AdapterInv' /\ VoiceInv' /\ GatewayStep /\ rec'.status = "running"
<1>1. rec \in [status : RecordStates, media : BOOLEAN, verify : BOOLEAN] /\ ~rec.verify
      /\ adapter \notin JobAdapters /\ adapter \notin VoiceAdapters /\ adapter \notin CallAdapters
    BY FamiliesDisjoint DEF AdapterInv
<1>2. /\ rec' \in [status : RecordStates, media : BOOLEAN, verify : BOOLEAN]
      /\ rec'.status = "running" /\ ~rec'.verify
    BY <1>1 DEF RecordStates
<1>3. job' = [word |-> job'.word, media |-> job'.media] /\ job'.media \in BOOLEAN
    <2>1. job = [word |-> job.word, media |-> job.media] /\ job.media \in BOOLEAN
        BY DEF AdapterInv
    <2>2. CASE job' = job
        BY <2>1, <2>2
    <2>3. CASE job' = [word |-> "unlisted", media |-> FALSE]
        BY <2>3
    <2> QED
        BY <2>2, <2>3
<1>4. AdapterInv'
    BY <1>1, <1>2, <1>3 DEF AdapterInv, Watched, Steps
<1>5. VoiceInv'
    BY <1>1 DEF VoiceInv
<1>6. Quiet
    BY <1>1 DEF Quiet
<1> QED
    BY <1>2, <1>4, <1>5, <1>6 DEF GatewayStep

(* The steps of FLUX and of DashScope's images.                            *)
LEMMA LoopKeeps ==
    ASSUME TaskInv,
           \/ LoopSubmit \/ LoopRefused \/ FluxTurn \/ FluxGivesUp \/ DashScopeTurn
           \/ DashScopeTurnNoOutput \/ DashScopeTurnAgain \/ LoopPollFails \/ DashScopeInline
    PROVE  StepKept
<1>1. AdapterInv /\ VoiceInv /\ CountInv
    BY DEF TaskInv
<1>2. started \in Nat /\ unread \in Nat /\ turns \in Nat
    BY <1>1 DEF CountInv
<1>3. ASSUME adapter \in LoopAdapters, adapter' = adapter, LoopCount',
             started' \in Nat, unread' \in Nat, turns' \in Nat
      PROVE  CountInv'
    BY <1>3, FamiliesDisjoint DEF CountInv
<1>4. adapter \in LoopAdapters => LoopCount
    BY <1>1 DEF CountInv
<1>5. step \in {"polling", "polling again", "inline"} =>
        adapter \in LoopAdapters /\ rec.status = "running" /\ Watched
    BY <1>1 DEF AdapterInv
<1>6. started <= 1 /\ ~Unsettled' /\ started' = started => LoopCount'
    BY DEF LoopCount
<1>7. started = 0 /\ ~Unsettled' /\ started' = started + 1 => LoopCount'
    <2>1. started = 0 /\ started' = started + 1 => started' <= 1
        OBVIOUS
    <2> QED
        BY <2>1, Zenon DEF LoopCount
<1>8. CASE LoopSubmit
    <2>1. /\ Watched /\ adapter \in LoopAdapters /\ rec.status \in {"pending", "running"}
          /\ step = "none" /\ started' = started + 1 /\ UNCHANGED <<adapter, turns>>
        BY <1>8 DEF LoopSubmit, Open
    <2>2. started = 0
        BY <1>4, <2>1 DEF LoopCount, Unsettled
    <2>3. CASE /\ step' = "polling" /\ job' = [word |-> "unlisted", media |-> FALSE]
               /\ rec' = [rec EXCEPT !.status = "running"]
               /\ UNCHANGED <<unread, watch, shown, errors, hold>>
        <3>1. AdapterInv' /\ VoiceInv' /\ GatewayStep
            BY <1>1, <2>1, <2>3, LoopStartsKeeps
        <3>2. LoopCount'
            BY <2>1, <2>2, <2>3 DEF LoopCount
        <3> QED
            BY <1>2, <1>3, <2>1, <2>3, <3>1, <3>2 DEF StepKept
    <2>4. CASE LoopEnds(SyncImageGet("raised")) /\ unread' = unread + 1 /\ UNCHANGED job
        <3>1. AdapterInv' /\ VoiceInv' /\ GatewayStep /\ ~Unsettled'
            BY <1>1, <2>1, <2>4, LoopEndsKeeps
        <3> QED
            BY <1>2, <1>3, <1>7, <2>1, <2>2, <2>4, <3>1 DEF StepKept
    <2> QED
        BY <1>8, <2>3, <2>4 DEF LoopSubmit
<1>9. CASE LoopRefused
    <2>1. /\ Watched /\ adapter \in LoopAdapters /\ rec.status \in {"pending", "running"}
          /\ step = "none" /\ UNCHANGED <<adapter, job, started, unread, turns>>
        BY <1>9 DEF LoopRefused, Open
    <2>2. started = 0
        BY <1>4, <2>1 DEF LoopCount, Unsettled
    <2>3. CASE LoopEnds(SyncImageGet("raised"))
        <3>1. AdapterInv' /\ VoiceInv' /\ GatewayStep /\ ~Unsettled'
            BY <1>1, <2>1, <2>3, LoopEndsKeeps
        <3> QED
            BY <1>2, <1>3, <1>6, <2>1, <2>2, <3>1 DEF StepKept
    <2>4. CASE /\ step' = "inline" /\ rec' = [rec EXCEPT !.status = "running"]
               /\ UNCHANGED <<watch, shown, errors, hold>>
        <3>1. AdapterInv' /\ VoiceInv' /\ GatewayStep
            BY <1>1, <2>1, <2>4, LoopStartsKeeps
        <3>2. LoopCount'
            BY <2>1, <2>2 DEF LoopCount
        <3> QED
            BY <1>2, <1>3, <2>1, <3>1, <3>2 DEF StepKept
    <2> QED
        BY <1>9, <2>3, <2>4 DEF LoopRefused
<1>10. CASE DashScopeInline
    <2>1. /\ adapter \in LoopAdapters /\ rec.status \in {"pending", "running"}
          /\ step \in {"none", "inline"} /\ started' = started + 1
          /\ UNCHANGED <<adapter, job, unread, turns>>
        BY <1>10 DEF DashScopeInline, Open, LoopAdapters
    <2>2. PICK images : LoopEnds(SyncImageGet(images))
        BY <1>10 DEF DashScopeInline
    <2>3. started = 0
        BY <1>4, <2>1 DEF LoopCount, Unsettled
    <2>4. AdapterInv' /\ VoiceInv' /\ GatewayStep /\ ~Unsettled'
        BY <1>1, <2>1, <2>2, LoopEndsKeeps
    <2> QED
        BY <1>2, <1>3, <1>7, <2>1, <2>3, <2>4 DEF StepKept
<1>11. ASSUME step = "polling", NEW images, LoopEnds(SyncImageGet(images)),
              UNCHANGED <<adapter, job, started, unread, turns>>
       PROVE  StepKept
    <2>1. adapter \in LoopAdapters /\ rec.status = "running" /\ started <= 1
        BY <1>4, <1>5, <1>11 DEF LoopCount
    <2>2. AdapterInv' /\ VoiceInv' /\ GatewayStep /\ ~Unsettled'
        BY <1>1, <1>11, <2>1, LoopEndsKeeps
    <2> QED
        BY <1>2, <1>3, <1>6, <1>11, <2>1, <2>2 DEF StepKept
<1>12. ASSUME step \in {"polling", "polling again"}, step' \in {"polling", "polling again"},
              UNCHANGED <<adapter, job, rec, watch, shown, errors, hold, started, unread>>,
              turns' \in Nat
       PROVE  StepKept
    <2>1. adapter \in LoopAdapters /\ Watched /\ rec.status = "running" /\ started <= 1
        BY <1>4, <1>5, <1>12 DEF LoopCount
    <2>2. AdapterInv'
        BY <1>1, <1>12, <2>1, FamiliesDisjoint DEF AdapterInv, Watched, Steps
    <2>3. VoiceInv'
        BY <1>1, <1>12 DEF VoiceInv
    <2>4. LoopCount'
        BY <1>12, <2>1 DEF LoopCount
    <2>5. Quiet
        BY <1>12 DEF Quiet
    <2> QED
        BY <1>2, <1>3, <1>12, <2>1, <2>2, <2>3, <2>4, <2>5 DEF StepKept, GatewayStep
<1>13. CASE FluxTurn
    <2>1. step = "polling" /\ UNCHANGED <<adapter, job, started, unread>>
        BY <1>13 DEF FluxTurn
    <2>2. \/ turns' = turns + 1 /\ UNCHANGED <<step, rec, watch, shown, errors, hold>>
          \/ (\E images : LoopEnds(SyncImageGet(images))) /\ turns' = turns
        BY <1>13 DEF FluxTurn
    <2>3. CASE turns' = turns + 1 /\ UNCHANGED <<step, rec, watch, shown, errors, hold>>
        BY <1>2, <1>12, <2>1, <2>3
    <2>4. CASE (\E images : LoopEnds(SyncImageGet(images))) /\ turns' = turns
        BY <1>11, <2>1, <2>4
    <2> QED
        BY <2>2, <2>3, <2>4
<1>14. CASE FluxGivesUp
    BY <1>11, <1>14 DEF FluxGivesUp
<1>15. CASE DashScopeTurn
    <2>1. step = "polling" /\ UNCHANGED <<adapter, job, started, unread, turns>>
          /\ \E images : LoopEnds(SyncImageGet(images))
        BY <1>15 DEF DashScopeTurn
    <2> QED
        BY <1>11, <2>1
<1>16. CASE DashScopeTurnNoOutput \/ DashScopeTurnAgain
    BY <1>2, <1>12, <1>16 DEF DashScopeTurnNoOutput, DashScopeTurnAgain
<1>17. CASE LoopPollFails
    BY <1>11, <1>17 DEF LoopPollFails
<1> QED
    BY <1>8, <1>9, <1>10, <1>13, <1>14, <1>15, <1>16, <1>17

(* The end of a voice clone without a verification.                        *)
LEMMA VoiceEndsKeeps ==
    ASSUME AdapterInv, VoiceInv, adapter \in VoiceAdapters,
           rec.status \in {"pending", "running"}, ~rec.verify,
           NEW got, Verdicts(adapter, got), got.rec # "running", LoopEnds(got),
           UNCHANGED <<adapter, job>>
    PROVE  AdapterInv' /\ VoiceInv' /\ GatewayStep /\ ~Unsettled'
<1>1. step' = "none" /\ rec' = [Record(got.rec) EXCEPT !.media = got.view.media]
      /\ Polled(got.view)
    BY DEF LoopEnds
<1>2. adapter \notin JobAdapters
    BY FamiliesDisjoint
<1>3. AdapterInv' /\ VoiceInv' /\ GatewayStep /\ rec'.status = got.rec
    BY <1>1, <1>2, EndsKeeps
<1>4. ~Unsettled'
    BY <1>3 DEF Unsettled, Verdicts
<1> QED
    BY <1>3, <1>4

(* A step of a voice is a step of no other family.                         *)
LEMMA VoiceCounts ==
    ASSUME CountInv, adapter \in VoiceAdapters, adapter' = adapter, VoiceCount',
           started' \in Nat, unread' = unread, turns' = turns
    PROVE  CountInv'
BY FamiliesDisjoint DEF CountInv

(* The steps of a voice clone.                                             *)
LEMMA CloneKeeps ==
    ASSUME TaskInv, ClonePrepare \/ CloneCall
    PROVE  StepKept
<1>1. AdapterInv /\ VoiceInv /\ CountInv
    BY DEF TaskInv
<1>2. started \in Nat /\ (adapter \in VoiceAdapters => VoiceCount)
    BY <1>1 DEF CountInv
<1>3. rec \in [status : RecordStates, media : BOOLEAN, verify : BOOLEAN]
    BY <1>1 DEF AdapterInv
<1>4. CASE ClonePrepare
    <2>1. /\ Watched /\ adapter \in VoiceAdapters /\ rec.status \in {"pending", "running"}
          /\ ~rec.verify /\ step = "none" /\ UNCHANGED <<adapter, job, started, unread, turns>>
        BY <1>4 DEF ClonePrepare, Open
    <2>2. started = 0
        BY <1>2, <2>1 DEF VoiceCount, Unsettled
    <2>3. VoiceCount'
        BY <2>1, <2>2 DEF VoiceCount
    <2>4. CountInv'
        BY <1>1, <1>2, <2>1, <2>3, VoiceCounts
    <2>5. CASE LoopEnds(Kept(View("failed", FALSE)))
        <3>1. Kept(View("failed", FALSE)).rec # "running"
            BY DEF Kept, View
        <3>2. Verdicts(adapter, Kept(View("failed", FALSE)))
            BY VerdictForms
        <3>3. AdapterInv' /\ VoiceInv' /\ GatewayStep
            BY <1>1, <2>1, <2>5, <3>1, <3>2, VoiceEndsKeeps
        <3> QED
            BY <2>4, <3>3 DEF StepKept
    <2>6. CASE /\ step' = "prepared" /\ rec' = [rec EXCEPT !.status = "running"]
               /\ UNCHANGED <<watch, shown, errors, hold>>
        <3>1. /\ rec' \in [status : RecordStates, media : BOOLEAN, verify : BOOLEAN]
              /\ rec'.status = "running" /\ ~rec'.verify
            BY <1>3, <2>1, <2>6 DEF RecordStates
        <3>2. AdapterInv'
            BY <1>1, <2>1, <2>6, <3>1, FamiliesDisjoint DEF AdapterInv, Watched, Steps
        <3>3. VoiceInv'
            BY <1>1, <2>1, <3>1 DEF VoiceInv
        <3>4. Quiet
            BY <2>1, <2>6, FamiliesDisjoint DEF Quiet
        <3> QED
            BY <2>4, <3>2, <3>3, <3>4 DEF StepKept, GatewayStep
    <2> QED
        BY <1>4, <2>5, <2>6 DEF ClonePrepare
<1>5. CASE CloneCall
    <2>1. step = "prepared" /\ started' = started + 1 /\ UNCHANGED <<adapter, unread, turns>>
        BY <1>5 DEF CloneCall
    <2>2. adapter \in VoiceAdapters /\ rec.status = "running" /\ ~rec.verify /\ Watched
        BY <1>1, <2>1 DEF AdapterInv
    <2>3. started = 0
        BY <1>2, <2>2 DEF VoiceCount, Unsettled
    <2>4. started' \in Nat /\ started' <= 1
        BY <2>1, <2>3
    <2>5. CASE (\E x : LoopEnds(SpeechObserve(x))) /\ UNCHANGED job
        <3>1. PICK x : LoopEnds(SpeechObserve(x))
            BY <2>5
        <3>2. Verdicts(adapter, SpeechObserve(x)) /\ SpeechObserve(x).rec # "running"
            BY SpeechSound
        <3>3. AdapterInv' /\ VoiceInv' /\ GatewayStep /\ ~Unsettled'
            BY <1>1, <2>1, <2>2, <2>5, <3>1, <3>2, VoiceEndsKeeps
        <3>4. VoiceCount'
            BY <2>4, <3>3 DEF VoiceCount
        <3>5. CountInv'
            BY <1>1, <2>1, <2>2, <2>4, <3>4, VoiceCounts
        <3> QED
            BY <3>3, <3>5 DEF StepKept
    <2>6. CASE /\ job' = [word |-> "unverified", media |-> TRUE] /\ step' = "none"
               /\ rec' = [status |-> "running", media |-> TRUE, verify |-> TRUE]
               /\ Polled(View("running", TRUE))
        <3> DEFINE t == View("running", TRUE)
        <3>1. /\ rec' \in [status : RecordStates, media : BOOLEAN, verify : BOOLEAN]
              /\ rec'.status = "running" /\ rec'.verify /\ rec'.media
            BY <2>6 DEF RecordStates
        <3>2. job'.word = "unverified" /\ job'.media = TRUE
            BY <2>6
        <3>3. AdapterInv'
            BY <1>1, <2>1, <2>2, <2>6, <3>1, <3>2, FamiliesDisjoint DEF AdapterInv, Steps
        <3>4. VoiceInv'
            BY <3>1, <3>2 DEF VoiceInv
        <3>5. Showable(adapter, t) /\ t.status = "running"
            BY DEF Showable, View, Stages
        <3>6. t # Raised
            BY DEF Raised, View
        <3>7. Polled(t)
            BY <2>6
        <3> HIDE DEF t
        <3>8. Shows(t)
            BY <2>1, <2>2, <3>1, <3>5, <3>6, <3>7, FamiliesDisjoint DEF Shows
        <3>9. VoiceCount'
            BY <2>4, <3>1 DEF VoiceCount
        <3>10. CountInv'
            BY <1>1, <2>1, <2>2, <2>4, <3>9, VoiceCounts
        <3> QED
            BY <3>3, <3>4, <3>8, <3>10 DEF StepKept, GatewayStep
    <2> QED
        BY <1>5, <2>5, <2>6 DEF CloneCall
<1> QED
    BY <1>4, <1>5

(* The vendor verifies a voice.                                            *)
LEMMA VerifiesKeeps ==
    ASSUME TaskInv, VendorVerifies
    PROVE  StepKept
<1>1. AdapterInv /\ VoiceInv /\ CountInv
    BY DEF TaskInv
<1>2. job.word = "unverified" /\ job' = [job EXCEPT !.word = "verified"]
      /\ UNCHANGED <<adapter, watch, step, rec, shown, errors, hold, started, unread, turns>>
    BY DEF VendorVerifies
<1>3. job = [word |-> job.word, media |-> job.media] /\ job.media \in BOOLEAN
    BY <1>1 DEF AdapterInv
<1>4. job' = [word |-> job'.word, media |-> job'.media] /\ job'.media \in BOOLEAN
      /\ job'.word = "verified"
    BY <1>2, <1>3
<1>5. adapter \notin CallAdapters
    <2>1. NoJob.word = "none"
        BY DEF NoJob
    <2> QED
        BY <1>1, <1>2, <2>1 DEF AdapterInv
<1>6. AdapterInv'
    BY <1>1, <1>2, <1>4, <1>5 DEF AdapterInv, Watched
<1>7. VoiceInv'
    <2>1. NoJob.word = "none"
        BY DEF NoJob
    <2> QED
        BY <1>1, <1>2, <1>4, <2>1 DEF VoiceInv
<1>8. CountInv'
    BY <1>1, <1>2, CountSame
<1>9. job.word \notin EndWords
    BY <1>2 DEF EndWords, DoneWords, FailedWords
<1>10. Quiet
    BY <1>2, <1>9 DEF Quiet
<1> QED
    BY <1>6, <1>7, <1>8, <1>10 DEF StepKept, GatewayStep

(* A poll of a verification.                                               *)
LEMMA VerificationKeeps ==
    ASSUME TaskInv, CheckVerification
    PROVE  StepKept
<1>1. AdapterInv /\ VoiceInv /\ CountInv
    BY DEF TaskInv
<1>2. Watched /\ rec.verify /\ UNCHANGED <<adapter, step, job, started, unread, turns>>
    BY DEF CheckVerification
<1>3. /\ adapter \in VoiceAdapters /\ adapter \notin JobAdapters /\ step = "none"
      /\ rec \in [status : RecordStates, media : BOOLEAN, verify : BOOLEAN]
      /\ rec.status = "running" /\ rec.media
    BY <1>1, <1>2, FamiliesDisjoint DEF AdapterInv
<1>4. watch # "create" /\ watch \in {"wait", "monitor"}
    BY <1>2 DEF Watched
<1>5. ASSUME NEW t, Polled(t) PROVE watch' # "create"
    BY <1>4, <1>5 DEF Polled, SyncPolled, MonitorPolled, Observe
<1>6. started \in Nat /\ started <= 1
    BY <1>1, <1>3 DEF CountInv, VoiceCount
<1>7. CASE rec' = rec /\ Polled(Raised)
    <2>1. AdapterInv' /\ VoiceInv'
        BY <1>1, <1>2, <1>3, <1>7, AdapterSame
    <2>2. CountInv'
        BY <1>1, <1>2, <1>4, <1>5, <1>7, CountSame
    <2>3. Shows(Raised)
        BY <1>2, <1>3, <1>7 DEF Shows
    <2> QED
        BY <2>1, <2>2, <2>3 DEF StepKept, GatewayStep
<1>8. CASE \E seen \in BOOLEAN :
             LET done == VerificationSeen(seen)
             IN  /\ rec' = [rec EXCEPT !.status = IF done THEN "succeeded" ELSE @,
                                       !.verify = ~done]
                 /\ Polled(View(rec'.status, TRUE))
    <2>1. PICK seen \in BOOLEAN :
             LET done == VerificationSeen(seen)
             IN  /\ rec' = [rec EXCEPT !.status = IF done THEN "succeeded" ELSE @,
                                       !.verify = ~done]
                 /\ Polled(View(rec'.status, TRUE))
        BY <1>8
    <2> DEFINE done == VerificationSeen(seen)
               t == View(rec'.status, TRUE)
    <2>2. done \in BOOLEAN /\ (done => job.word = "verified")
        BY DEF VerificationSeen
    <2>3. rec' = [rec EXCEPT !.status = IF done THEN "succeeded" ELSE @, !.verify = ~done]
          /\ Polled(t)
        BY <2>1
    <2> HIDE DEF done
    <2>4. /\ rec' \in [status : RecordStates, media : BOOLEAN, verify : BOOLEAN]
          /\ rec'.status = (IF done THEN "succeeded" ELSE "running")
          /\ rec'.verify = ~done /\ rec'.media
        BY <1>3, <2>2, <2>3 DEF RecordStates
    <2>5. AdapterInv'
        BY <1>1, <1>2, <1>3, <2>2, <2>4, FamiliesDisjoint DEF AdapterInv
    <2>6. VoiceInv'
        BY <1>1, <1>2, <1>3, <2>2, <2>4 DEF VoiceInv
    <2>7. Showable(adapter, t) /\ t.status = rec'.status
        BY <2>2, <2>4 DEF Showable, View, Stages
    <2>8. t # Raised
        BY <2>4 DEF Raised, View
    <2> HIDE DEF t
    <2>9. Shows(t)
        BY <1>2, <1>3, <2>3, <2>7, <2>8 DEF Shows
    <2>10. VoiceCount'
        <3>1. ~(Unsettled' /\ ~rec'.verify)
            BY <2>2, <2>4 DEF Unsettled
        <3> QED
            BY <1>2, <1>6, <3>1 DEF VoiceCount
    <2>11. CountInv'
        BY <1>1, <1>2, <1>3, <1>6, <2>10, VoiceCounts
    <2> QED
        BY <2>5, <2>6, <2>9, <2>11 DEF StepKept, GatewayStep
<1> QED
    BY <1>7, <1>8 DEF CheckVerification

-----------------------------------------------------------------------------
(* The invariant holds at first.                                           *)
LEMMA TaskInit ==
    ASSUME Init
    PROVE  TaskInv
<1>1. adapter \in JobAdapters \cup CallAdapters \cup LoopAdapters \cup VoiceAdapters
    BY KnownAdapters DEF Init
<1>2. /\ watch = "create" /\ step = "none" /\ job = NoJob /\ errors = 0 /\ hold = "held"
      /\ started = 0 /\ unread = 0 /\ turns = 0
      /\ rec = [status |-> "none", media |-> FALSE, verify |-> FALSE]
      /\ shown = [status |-> "none", media |-> FALSE, own |-> TRUE]
    BY DEF Init, View
<1>3. /\ rec \in [status : RecordStates, media : BOOLEAN, verify : BOOLEAN]
      /\ rec.status = "none" /\ rec.verify = FALSE
    BY <1>2 DEF RecordStates
<1>4. /\ shown \in [status : Stages \cup {"none"}, media : BOOLEAN, own : BOOLEAN]
      /\ shown.status = "none" /\ shown.own = TRUE
    BY <1>2
<1>5. NoJob = [word |-> NoJob.word, media |-> NoJob.media] /\ NoJob.media \in BOOLEAN
    BY DEF NoJob
<1>6. AdapterInv
    BY <1>1, <1>2, <1>3, <1>5 DEF AdapterInv, Steps
<1>7. VoiceInv
    BY <1>2, <1>3 DEF VoiceInv
<1>8. ShownInv
    BY <1>2, <1>4 DEF ShownInv, MaxPollErrors
<1>9. AgreeInv /\ VendorInv
    BY <1>2, <1>3, <1>4 DEF AgreeInv, VendorInv, Terminal
<1>10. JobCount /\ CallCount /\ LoopCount /\ VoiceCount
    <2>1. 0 <= MaxStarted /\ 0 < MaxCreateAttempts
        BY ProviderBounds DEF MaxCreateAttempts
    <2>2. Unsettled
        BY <1>3 DEF Unsettled
    <2> QED
        BY <1>2, <2>1, <2>2 DEF JobCount, CallCount, LoopCount, VoiceCount
<1>11. CountInv
    BY <1>2, <1>10 DEF CountInv
<1> QED
    BY <1>6, <1>7, <1>8, <1>9, <1>11 DEF TaskInv, GatewayInv

(* Every step keeps it.                                                    *)
LEMMA TaskStep ==
    ASSUME TaskInv, [Next]_vars
    PROVE  TaskInv'
<1>1. StepKept
    <2>1. CASE CreateLocal
        BY <2>1, CreateLocalKeeps
    <2>2. CASE CreateLocalFails
        BY <2>2, CreateLocalFailsKeeps
    <2>3. CASE CreateJob
        BY <2>3, CreateJobKeeps
    <2>4. CASE ResubmitJob \/ CreateJobFails
        BY <2>4, CreateRetriesKeep
    <2>5. CASE SyncWaitTimesOut
        BY <2>5, WaitKeeps
    <2>6. CASE VendorMoves
        BY <2>6, VendorKeeps
    <2>7. CASE VendorVerifies
        BY <2>7, VerifiesKeeps
    <2>8. CASE PollReads \/ DownloadFails \/ PollReadsNothing \/ PollFails
        BY <2>8, JobPollKeeps
    <2>9. CASE GenerateInPoll
        BY <2>9, GenerateKeeps
    <2>10. CASE PollCached
        BY <2>10, CachedKeeps
    <2>11. CASE \/ LoopSubmit \/ LoopRefused \/ FluxTurn \/ FluxGivesUp \/ DashScopeTurn
                \/ DashScopeTurnNoOutput \/ DashScopeTurnAgain \/ LoopPollFails
                \/ DashScopeInline
        BY <2>11, LoopKeeps
    <2>12. CASE ClonePrepare \/ CloneCall
        BY <2>12, CloneKeeps
    <2>13. CASE CheckVerification
        BY <2>13, VerificationKeeps
    <2>14. CASE UNCHANGED vars
        <3>1. UNCHANGED <<adapter, watch, step, job, rec, shown, errors, hold, started, unread,
                          turns>>
            BY <2>14 DEF vars
        <3>2. AdapterInv /\ VoiceInv /\ CountInv
            BY DEF TaskInv
        <3>3. AdapterInv' /\ VoiceInv'
            BY <3>1, <3>2, AdapterSame
        <3>4. CountInv'
            BY <3>1, <3>2, CountSame
        <3>5. Quiet
            BY <3>1 DEF Quiet
        <3> QED
            BY <3>3, <3>4, <3>5 DEF StepKept, GatewayStep
    <2> QED
        BY <2>1, <2>2, <2>3, <2>4, <2>5, <2>6, <2>7, <2>8, <2>9, <2>10, <2>11, <2>12, <2>13,
            <2>14 DEF Next, PollNext, VendorNext
<1>2. GatewayInv'
    BY <1>1, GatewayKeeps DEF TaskInv, StepKept
<1> QED
    BY <1>1, <1>2 DEF TaskInv, StepKept

(* The adapters and the gateway keep the inductive invariant, whatever the
   vendors answer and in whatever order polls fail.                        *)
THEOREM TasksHold == Spec => []TaskInv
<1>1. Init => TaskInv
    BY TaskInit
<1>2. TaskInv /\ [Next]_vars => TaskInv'
    BY TaskStep
<1> QED
    BY <1>1, <1>2, PTL DEF Spec

(* A task's reservation is held exactly while the task is open, charged
   when it is shown to have succeeded and released otherwise; adapters that
   check a success for media are charged for media alone.                  *)
THEOREM TasksAreSettled == Spec => []ProviderInv
<1>1. TaskInv => ProviderInv
    <2> SUFFICES ASSUME TaskInv PROVE ProviderInv
        OBVIOUS
    <2>1. AdapterInv /\ ShownInv /\ CountInv
        BY DEF TaskInv, GatewayInv
    <2>2. started \in 0..(MaxStarted + MaxCreateAttempts)
        <3>1. started \in Nat /\ MaxStarted \in Nat /\ 1 <= MaxStarted
            BY <2>1, ProviderBounds DEF CountInv
        <3>2. CASE adapter \in JobAdapters
            <4>1. started <= MaxCreateAttempts
                <5>1. CASE watch = "create"
                    BY <2>1, <3>1, <3>2, <5>1 DEF CountInv, JobCount, MaxCreateAttempts
                <5>2. CASE watch # "create"
                    BY <2>1, <3>2, <5>2 DEF CountInv, JobCount
                <5> QED
                    BY <5>1, <5>2
            <4> QED
                BY <3>1, <4>1 DEF MaxCreateAttempts
        <3>3. CASE adapter \in CallAdapters
            <4>1. started <= MaxStarted
                BY <2>1, <3>3 DEF CountInv, CallCount
            <4> QED
                BY <3>1, <4>1 DEF MaxCreateAttempts
        <3>4. CASE adapter \in LoopAdapters \cup VoiceAdapters
            <4>1. started <= 1
                BY <2>1, <3>4 DEF CountInv, LoopCount, VoiceCount
            <4> QED
                BY <3>1, <4>1 DEF MaxCreateAttempts
        <3> QED
            BY <2>1, <3>2, <3>3, <3>4 DEF AdapterInv
    <2>3. hold \in {"held", "charged", "released"}
        BY <2>1 DEF ShownInv
    <2>4. ProviderTypeOK
        BY <2>1, <2>2, <2>3 DEF ProviderTypeOK, AdapterInv, ShownInv, Steps, RecordStates, Stages,
            Terminal
    <2>5. HoldFollowsTask
        BY <2>1 DEF ShownInv, HoldFollowsTask, Strays
    <2>6. ChargedWithMedia
        BY <2>1 DEF ShownInv, ChargedWithMedia
    <2> QED
        BY <2>4, <2>5, <2>6 DEF ProviderInv
<1> QED
    BY <1>1, TasksHold, PTL

(* No adapter generates twice, except after an answer without a verdict,
   and then only the adapters that call again.                             *)
THEOREM NothingIsGeneratedTwice == Spec => []GeneratedOnce
<1>1. TaskInv => GeneratedOnce
    <2> SUFFICES ASSUME TaskInv PROVE GeneratedOnce
        OBVIOUS
    <2>1. AdapterInv /\ CountInv
        BY DEF TaskInv
    <2>2. started \in Nat /\ unread \in Nat
        BY <2>1 DEF CountInv
    <2> DEFINE again == IF adapter \in CallsAgain THEN unread ELSE 0
    <2>3. again \in Nat
        BY <2>2
    <2>4. CASE adapter \in JobAdapters
        <3>1. adapter = "acestep" <=> adapter \in CallsAgain
            BY <2>4 DEF JobAdapters, CallsAgain
        <3>2. JobCount
            BY <2>1, <2>4 DEF CountInv
        <3>3. CASE watch = "create"
            <4>1. started = unread /\ (adapter # "acestep" => started = 0)
                BY <3>2, <3>3 DEF JobCount
            <4>2. started <= 1 + again
                BY <2>2, <3>1, <4>1
            <4> QED
                BY <4>2 DEF GeneratedOnce
        <3>4. CASE watch # "create"
            BY <3>1, <3>2, <3>4 DEF JobCount, GeneratedOnce
        <3> QED
            BY <3>3, <3>4
    <2>5. CASE adapter \in CallAdapters
        <3>1. started <= (IF Unsettled THEN 0 ELSE 1) + again
            BY <2>1, <2>5 DEF CountInv, CallCount
        <3> HIDE DEF again
        <3>2. started <= 1 + again
            BY <2>2, <2>3, <3>1
        <3> QED
            BY <3>2 DEF GeneratedOnce, again
    <2>6. CASE adapter \in LoopAdapters \cup VoiceAdapters
        <3>1. started <= 1
            BY <2>1, <2>6 DEF CountInv, LoopCount, VoiceCount
        <3> HIDE DEF again
        <3>2. started <= 1 + again
            BY <2>2, <2>3, <3>1
        <3> QED
            BY <3>2 DEF GeneratedOnce, again
    <2> QED
        BY <2>1, <2>4, <2>5, <2>6 DEF AdapterInv
<1> QED
    BY <1>1, TasksHold, PTL

(* A task ends as its vendor's job or its adapter's record ended, unless
   three polls in a row failed; a voice whose vendor asks for it is usable
   only once verified.                                                     *)
THEOREM TasksEndAsTheirVendors == Spec => []EndsAgree
<1>1. TaskInv => EndsAgree
    <2> SUFFICES ASSUME TaskInv PROVE EndsAgree
        OBVIOUS
    <2>1. AdapterInv /\ VoiceInv /\ ShownInv /\ AgreeInv /\ VendorInv
        BY DEF TaskInv, GatewayInv
    <2>2. shown.status \in Stages \cup {"none"} /\ job.media \in BOOLEAN
        BY <2>1 DEF ShownInv, AdapterInv
    <2>3. AgreesWithVendor
        BY <2>1, <2>2 DEF VendorInv, AgreesWithVendor, Terminal, Stages
    <2>4. RecordAgrees
        BY <2>1 DEF AgreeInv, RecordAgrees
    <2>5. VoiceUsableWhenVerified
        <3> SUFFICES ASSUME adapter \in VoiceAdapters, shown.status = "succeeded"
                     PROVE  job.word # "unverified"
            BY DEF VoiceUsableWhenVerified
        <3>1. adapter \notin JobAdapters /\ "succeeded" \in Terminal
            BY FamiliesDisjoint DEF Terminal
        <3>2. watch = "ended" /\ shown.status = rec.status
            BY <2>1, <3>1 DEF AgreeInv, ShownInv
        <3>3. NoJob.word = "none"
            BY DEF NoJob
        <3>4. ~rec.verify
            BY <2>1, <3>2 DEF AdapterInv
        <3> QED
            BY <2>1, <3>3, <3>4 DEF VoiceInv
    <2> QED
        BY <2>3, <2>4, <2>5 DEF EndsAgree
<1> QED
    BY <1>1, TasksHold, PTL

=============================================================================
