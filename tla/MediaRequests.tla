---------------------------- MODULE MediaRequests ----------------------------
(***************************************************************************)
(* From a client's request to the body an adapter posts upstream: the      *)
(* router fits the request to the model's documented limits (router.py),   *)
(* the budget gate bills it (models/pricing.py), the adapter builds the    *)
(* vendor's body (providers/).  Three descriptions of one model that are   *)
(* kept in different files and have to agree.                              *)
(*                                                                         *)
(* A request is [kind, images, videos, audios, lyrics, n, halves, sound]:  *)
(* the roles of its image parts in order, how many reference videos, the   *)
(* roles of its audio parts in order, whether it has lyrics, the count and *)
(* the length it asks for (0 when it leaves them open; lengths in half     *)
(* seconds) and include_audio.  Every request has a prompt.                *)
(***************************************************************************)
EXTENDS ModelLimits, Sequences, FiniteSets

CONSTANTS
    Requests,   \* the requests a client may make
    Models      \* the model ids they are sent to

\* What the public schemas admit (schemas/api.py): the parts of an image request
\* have no role, its length is no parameter; a video has no output count.
ASSUME RequestsAssumption ==
    Requests \subseteq
        [kind : {"image"}, n : Nat, lyrics : {FALSE}, sound : {"unset"},
         images : Seq({"image_to_image"}), videos : {0}, audios : {<<>>}, halves : {0}]
        \cup
        [kind : {"video"}, n : {0}, lyrics : {FALSE}, sound : {"unset", "on", "off"},
         images : Seq(Frames \cup {"reference_image"}), videos : Nat,
         audios : Seq({"reference_audio"}), halves : Nat]
        \cup
        [kind : {"music"}, n : Nat, lyrics : BOOLEAN, sound : {"unset"},
         images : Seq({"reference_image"}), videos : {0},
         audios : Seq({"reference_audio", "continuation_audio"}), halves : Nat]

VARIABLES
    request, model,
    pinned,     \* the client named the model: only its retirement is checked
    stage,      \* "profiled", then "rejected", "refused" or "sent"
    sent        \* what the adapter's body carries

vars == <<request, model, pinned, stage, sent>>

Nothing == [items |-> {}, halves |-> 0, count |-> 0, task |-> "none"]

---------------------------------------------------------------------------
(* The request's parts: <<"image" | "video" | "audio", index, role>> *)

AnyImage(r, as) == {<<"image", i, as>> : i \in DOMAIN r.images}
Tagged(r, role) == {<<"image", i, role>> : i \in {j \in DOMAIN r.images : r.images[j] = role}}
Clips(r) == {<<"video", i, "reference_video">> : i \in 1..r.videos}
AudioParts(r, role) == {<<"audio", i, role>> : i \in {j \in DOMAIN r.audios : r.audios[j] = role}}

Given(r) ==
    UNION ({Tagged(r, role) : role \in Frames \cup {"reference_image", "image_to_image"}}
             \cup {Clips(r)}
             \cup {AudioParts(r, role) : role \in {"reference_audio", "continuation_audio"}})

\* The parts of `items` that come first, at most k of them.
FirstOf(items, k) == {p \in items : Cardinality({q \in items : q[2] < p[2]}) < k}

\* first_image(): the first image tagged first_frame, else simply the first image.
FirstImage(r) ==
    IF Tagged(r, "first_frame") # {} THEN FirstOf(Tagged(r, "first_frame"), 1)
    ELSE FirstOf(AnyImage(r, "first_frame"), 1)

LastImage(r) == FirstOf(Tagged(r, "last_frame"), 1)

---------------------------------------------------------------------------
(* The router: the roles a request needs, and whether a model documents them *)

Wanted(r) ==
    {p[3] : p \in Given(r)}
    \cup (IF r.kind = "video" THEN {p[3] : p \in FirstImage(r)} ELSE {})
    \cup (IF r.kind # "music" /\ r.images # <<>> THEN {"image_to_image"} ELSE {})
    \cup (IF r.sound = "on" THEN {"audio_output"} ELSE {})
    \cup (IF r.lyrics THEN {"lyrics"} ELSE {})

Carried(r) == {"text"} \cup {p[1] : p \in Given(r)}

\* Mutant: the role flags are not checked.
FitsAnyRole(r, limits) ==
    /\ limits.takes # {} => Carried(r) \subseteq limits.takes
    /\ r.kind # "music" => Len(r.images) <= limits.images
    /\ r.kind # "video" => r.n <= limits.outputs
    /\ r.halves # 0 => r.halves \in 2 * limits.shortest .. 2 * limits.longest

Fits(r, limits) ==
    /\ limits.takes # {} => Carried(r) \subseteq limits.takes
    /\ Wanted(r) \cap limits.no = {}
    /\ r.kind # "music" => Len(r.images) <= limits.images
    /\ r.kind # "video" => r.n <= limits.outputs
    /\ r.halves # 0 => r.halves \in 2 * limits.shortest .. 2 * limits.longest

(* The estimate: what the budget gate bills the request for *)

\* Mutant: the model's minimum is billed even when the request sets a length.
BilledMinimum(r, limits) ==
    IF limits.shortest # 0 THEN 2 * limits.shortest ELSE IF r.halves # 0 THEN r.halves ELSE 10

BilledHalves(r, limits) ==
    IF r.halves # 0 THEN r.halves
    ELSE IF r.kind = "music" THEN 60
    ELSE IF limits.shortest # 0 THEN 2 * limits.shortest ELSE 10

BilledCount(r) == IF r.kind = "video" \/ r.n = 0 THEN 1 ELSE r.n

---------------------------------------------------------------------------
(* The adapters' bodies; a count of 0 is left to the vendor *)

Body(items, halves) == [Nothing EXCEPT !.items = items, !.halves = halves]

\* int(duration), and int(round(duration)) with ties to the even second.
Truncated(halves) == 2 * (halves \div 2)
Rounded(halves) ==
    IF halves % 2 = 0 THEN halves ELSE IF (halves \div 2) % 2 = 0 THEN halves - 1 ELSE halves + 1
Clamped(low, high, halves) ==
    IF halves < 2 * low THEN 2 * low ELSE IF halves > 2 * high THEN 2 * high ELSE halves
ClampedLength(low, high, r) == IF r.halves = 0 THEN 0 ELSE Clamped(low, high, Rounded(r.halves))

\* A frame keeps the image-to-video mode: the references are cut.
FramesOverReferences(r) ==
    IF Tagged(r, "first_frame") \cup Tagged(r, "last_frame") = {} THEN Given(r)
    ELSE Tagged(r, "first_frame") \cup Tagged(r, "last_frame")

SoraBody(r) == Body(FirstImage(r), Truncated(r.halves))

VeoBody(r) ==
    Body(FirstImage(r) \cup LastImage(r) \cup Tagged(r, "reference_image"), Truncated(r.halves))

\* Mutant: Omni treats frames and references as exclusive.
OmniFramesOnly(r) == Body(FramesOverReferences(r), ClampedLength(3, 10, r))

OmniBody(r) ==
    Body(FirstOf(Tagged(r, "first_frame"), 1) \cup LastImage(r) \cup Tagged(r, "reference_image")
           \cup Clips(r),
         ClampedLength(3, 10, r))

XaiVideoBody(r) == Body(FirstImage(r) \cup Tagged(r, "reference_image"), Truncated(r.halves))

StableVideoBody(r) == Body(FirstImage(r), 0)

OpenRouterVideoBody(r) ==
    Body(FirstImage(r) \cup LastImage(r) \cup Tagged(r, "reference_image"), Truncated(r.halves))

SeedanceBody(r, two) ==
    Body(IF two THEN FramesOverReferences(r) ELSE Given(r), Truncated(r.halves))

MiniMaxVideoBody(r) == Body(FramesOverReferences(r), Truncated(r.halves))

WanVideoBody(r) == Body(FirstImage(r), Truncated(r.halves))

Wan3Body(r) ==
    LET frames == FirstOf(Tagged(r, "first_frame"), 1) \cup LastImage(r)
        references == FirstOf(Tagged(r, "reference_image"), 10) \cup FirstOf(Clips(r), 5)
                        \cup FirstOf(AudioParts(r, "reference_audio"), 5)
    IN  Body(IF frames # {} THEN frames ELSE references, ClampedLength(2, 30, r))

Wan27Body(r) ==
    Body(FirstOf(Tagged(r, "first_frame"), 1) \cup LastImage(r)
           \cup FirstOf(AudioParts(r, "reference_audio"), 1),
         ClampedLength(2, 15, r))

HappyHorseBody(r, mode) ==
    Body(CASE mode = "happyhorse-1.1-i2v" -> FirstImage(r)
           [] mode = "happyhorse-1.1-r2v" -> FirstOf(AnyImage(r, "reference_image"), 9)
           [] OTHER -> {},
         ClampedLength(3, 15, r))

VideoBody(m, r) ==
    CASE m \in DOMAIN SoraVideos -> SoraBody(r)
      [] m \in DOMAIN Veo2And3Videos \cup DOMAIN Veo31Previews \cup DOMAIN Veo31Videos -> VeoBody(r)
      [] m \in DOMAIN OmniVideos -> OmniBody(r)
      [] m \in DOMAIN XaiVideos -> XaiVideoBody(r)
      [] m \in DOMAIN StableVideos -> StableVideoBody(r)
      [] m \in DOMAIN Seedance1Videos -> SeedanceBody(r, FALSE)
      [] m \in DOMAIN Seedance2Videos -> SeedanceBody(r, TRUE)
      [] m \in DOMAIN WanTextVideos \cup DOMAIN WanImageVideos -> WanVideoBody(r)
      [] m \in DOMAIN Wan3Videos -> Wan3Body(r)
      [] m \in DOMAIN Wan27ImageVideos -> Wan27Body(r)
      [] m \in DOMAIN HappyHorseVideos -> HappyHorseBody(r, m)
      [] m \in DOMAIN MiniMaxVideos -> MiniMaxVideoBody(r)
      [] OTHER -> OpenRouterVideoBody(r)

(* Image bodies: the input images sent and how many images are asked for *)

Pictures(items, count) == [Nothing EXCEPT !.items = items, !.count = count]

OpenAIImageBody(r) == Pictures({}, IF r.n > 1 THEN r.n ELSE 0)
ImagenBody(r) == Pictures({}, r.n)
GeminiImageBody(r) == Pictures(Given(r), 0)
XaiImageBody(r) == Pictures({}, IF r.n > 10 THEN 10 ELSE r.n)
StabilityImageBody(r) == Pictures({}, 0)
FluxImageBody(r) == Pictures(Given(r), 0)
SeedreamBody(r) == Pictures(Given(r), 0)
WanSynthesisBody(r) == Pictures({}, r.n)
WanGenerationBody(r) == Pictures(Given(r), r.n)
OpenRouterImageBody(r) == Pictures(Given(r), r.n)

\* The Wan models served on the messages-shaped surface.
GenerationModels == {"wan2.6-t2i", "wan2.7-image-pro", "wan2.7-image", "wan2.6-image"}

ImageBody(m, r) ==
    CASE m \in DOMAIN OpenAIImages -> OpenAIImageBody(r)
      [] m \in DOMAIN ImagenImages -> ImagenBody(r)
      [] m \in DOMAIN GeminiImages -> GeminiImageBody(r)
      [] m \in DOMAIN XaiImages -> XaiImageBody(r)
      [] m \in DOMAIN StabilityImages -> StabilityImageBody(r)
      [] m \in DOMAIN FluxImages -> FluxImageBody(r)
      [] m \in DOMAIN SeedreamImages -> SeedreamBody(r)
      [] m \in GenerationModels -> WanGenerationBody(r)
      [] m \in (DOMAIN WanImages \cup DOMAIN QwenImages) \ GenerationModels -> WanSynthesisBody(r)
      [] OTHER -> OpenRouterImageBody(r)

(* Music bodies *)

SongBody(items, halves, count, task) == [items |-> items, halves |-> halves, count |-> count, task |-> task]

LyriaBody(r) == SongBody(Given(r), 0, r.n, "none")
MiniMaxMusicBody(r) == SongBody(FirstOf(AudioParts(r, "reference_audio"), 1), 0, 0, "none")
ElevenMusicBody(r) ==
    SongBody({}, IF r.halves = 0 THEN 0 ELSE Clamped(3, 600, r.halves), 0, "none")
ChirpBody(r) == SongBody({}, 0, 0, "none")
MurekaBody(r) == SongBody({}, Truncated(r.halves), 0, "none")

\* The source audio, else `[None]`: a list of one None, which is true.
AceStepSource(r) ==
    IF AudioParts(r, "continuation_audio") # {} THEN FirstOf(AudioParts(r, "continuation_audio"), 1)
    ELSE FirstOf(AudioParts(r, "reference_audio"), 1)

AceStepBody(r) ==
    SongBody(AceStepSource(r), r.halves, r.n, "cover")

MusicBody(m, r) ==
    CASE m \in DOMAIN LyriaMusic -> LyriaBody(r)
      [] m \in DOMAIN MiniMaxMusic -> MiniMaxMusicBody(r)
      [] m \in DOMAIN ElevenMusic -> ElevenMusicBody(r)
      [] m \in DOMAIN ChirpMusic -> ChirpBody(r)
      [] m \in DOMAIN MurekaMusic -> MurekaBody(r)
      [] m \in DOMAIN AceStepMusic -> AceStepBody(r)

BodyOf(m, r) ==
    CASE r.kind = "image" -> ImageBody(m, r)
      [] r.kind = "video" -> VideoBody(m, r)
      [] r.kind = "music" -> MusicBody(m, r)

---------------------------------------------------------------------------
(* The actions *)

\* The models some adapter serves for a modality; OpenRouter has ids of its own.
Served(kind) ==
    CASE kind = "image" -> (Models \ DOMAIN Catalogue) \cup DOMAIN Images
      [] kind = "video" -> (Models \ DOMAIN Catalogue) \cup DOMAIN Videos
      [] kind = "music" -> DOMAIN Songs

Init ==
    /\ request \in Requests
    /\ model \in Models
    /\ model \in Served(request.kind)
    /\ pinned \in BOOLEAN
    /\ stage = "profiled"
    /\ sent = Nothing

Limits == limits_for(model, request.kind)

\* A candidate whose documented limits the request does not fit is left out.
Reject ==
    /\ stage = "profiled"
    /\ ~pinned /\ ~Fits(request, Limits)
    /\ stage' = "rejected"
    /\ UNCHANGED <<request, model, pinned, sent>>

\* Stable Video Diffusion needs an image to animate.
Unanimated == model \in DOMAIN StableVideos /\ request.images = <<>>

Refuse ==
    /\ stage = "profiled"
    /\ pinned \/ Fits(request, Limits)
    /\ Unanimated
    /\ stage' = "refused"
    /\ UNCHANGED <<request, model, pinned, sent>>

Send ==
    /\ stage = "profiled"
    /\ pinned \/ Fits(request, Limits)
    /\ ~Unanimated
    /\ sent' = BodyOf(model, request)
    /\ stage' = "sent"
    /\ UNCHANGED <<request, model, pinned>>

Done == stage # "profiled" /\ UNCHANGED vars

Next == Reject \/ Refuse \/ Send \/ Done

Spec == Init /\ [][Next]_vars

---------------------------------------------------------------------------
(* Properties *)

TypeOK ==
    /\ stage \in {"profiled", "rejected", "refused", "sent"}
    /\ \A item \in sent.items : item[1] \in {"image", "video", "audio"} /\ item[2] \in Nat
    /\ sent.halves \in Nat /\ sent.count \in Nat

Routed == stage = "sent" /\ ~pinned

\* A request the router let through never reaches a model with an input in a
\* role the model is documented not to have.  first_image() turns a last frame
\* or a reference into a first frame inside five adapters: the router sees the
\* same fallback, so the two must not drift apart (router._video_profile,
\* router._fits and the adapters' bodies).
NothingUnsupportedSent ==
    Routed => \A item \in sent.items : item[3] \notin Limits.no

\* Models documented to take an input that their adapter never sends: the
\* images endpoint of OpenAI and Stability, Qwen on the synthesis surface, the
\* reference audio of Mureka and ElevenLabs, the reference videos of Veo.
InputsIgnored(role) ==
    CASE role = "image_to_image" ->
             DOMAIN OpenAIImages \cup DOMAIN StabilityImages \cup DOMAIN QwenImages
      [] role \in {"reference_audio", "continuation_audio"} -> DOMAIN MurekaMusic \cup DOMAIN ElevenMusic
      [] role = "reference_video" -> DOMAIN Veo31Previews
      [] OTHER -> {}

\* The parts a body may leave out: references beside a frame where the two are
\* exclusive, and the parts after the first k of their kind.
Surplus(part) ==
    \/ Limits.exclusive /\ part[3] \in References /\ \E p \in Given(request) : p[3] \in Frames
    \/ part[1] = "image" /\ part[3] \in Frames /\ part \notin FirstOf(Tagged(request, part[3]), 1)
    \/ part[1] = "video" /\ part[2] > 5
    \/ part[1] = "audio" /\ part \notin FirstOf({p \in Given(request) : p[1] = "audio"}, 5)
    \/ /\ request.kind = "music" \/ model = "wan2.7-i2v"
       /\ part[1] = "audio" /\ part \notin FirstOf(AudioParts(request, part[3]), 1)
    \/ /\ model \in DOMAIN AceStepMusic /\ part[3] = "reference_audio"
       /\ AudioParts(request, "continuation_audio") # {}

\* Nothing a model is documented to take is lost on the way to it: every part
\* of a routed request in a documented role is in the body, in that role, but
\* for the models listed above and the surplus (limits.py against the bodies
\* of the adapters).
DocumentedPartsSent ==
    Routed =>
        \A part \in Given(request) :
            part[3] \in Limits.yes /\ model \notin InputsIgnored(part[3]) /\ ~Surplus(part)
                => part \in sent.items

\* Frames and references never meet in the body of a model for which they are
\* exclusive modes, pinned or routed (docs/design/auto-mode.md:86-88).
ExclusiveModesKept ==
    stage = "sent" /\ Limits.exclusive =>
        \/ \A item \in sent.items : item[3] \notin Frames
        \/ \A item \in sent.items : item[3] \notin References

\* A routed request's length survives truncation and rounding inside the
\* model's documented range, and is never more than half a second above the
\* length the budget gate billed.
LengthsDocumentedAndBilled ==
    Routed /\ sent.halves # 0 =>
        /\ sent.halves \in 2 * Limits.shortest .. 2 * Limits.longest
        /\ sent.halves <= BilledHalves(request, Limits) + 1

\* The songs of Mureka and UdioAPI: their adapters send no count, even when the
\* request has one.  Mureka makes two by default (limits.py:999-1000); UdioAPI
\* documents at most two and answers with a list of tracks, taken as two.
CountLeftToVendor ==
    request.kind = "music" /\ model \in DOMAIN MurekaMusic \cup DOMAIN ChirpMusic

\* The outputs a vendor makes for a body.
Made ==
    IF sent.count # 0 THEN sent.count ELSE IF CountLeftToVendor THEN 2 ELSE 1

\* The upstream never makes more outputs than the estimate billed, nor a routed
\* model more than it is documented to return.  Where the count is left to the
\* vendor the first does not hold: the estimate bills the request's count, one
\* when it has none, and the vendor makes its own.
CountsDocumentedAndBilled ==
    stage = "sent" =>
        /\ ~CountLeftToVendor => Made <= BilledCount(request)
        /\ ~pinned => Made <= Limits.outputs

\* A request reaches a model only with inputs it takes, and never with two of
\* its exclusive modes at once.
InputsSupported ==
    /\ NothingUnsupportedSent
    /\ ExclusiveModesKept

\* The types, and that what is asked of the upstream is inside the model's
\* documented range and inside what the budget gate billed, but for the counts
\* that are left to the vendor.
AskedWithinBounds ==
    /\ TypeOK
    /\ LengthsDocumentedAndBilled
    /\ CountsDocumentedAndBilled
===============================================================================
