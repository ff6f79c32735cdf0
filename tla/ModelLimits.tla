----------------------------- MODULE ModelLimits -----------------------------
(***************************************************************************)
(* The built-in limits catalogue (models/limits.py): what each model is    *)
(* documented to accept, as the router and the budget gate read it.        *)
(*                                                                         *)
(* Only the fields that steer an input part, a count or a length are kept: *)
(* aspect ratios, sizes, sample rates and prompt lengths are left out.     *)
(* The three-valued flags ("supports", "does not", "undocumented") are two *)
(* sets: `yes` and `no`; a role in neither is undocumented.                *)
(***************************************************************************)
EXTENDS Integers

\* No documented ceiling, and no documented date (dates are yyyymmdd).
Many == 1000
Never == 99999999

\* The entry of a model the catalogue does not list: it constrains nothing.
Unlisted ==
    [kind |-> "any", takes |-> {}, yes |-> {}, no |-> {}, images |-> Many, outputs |-> Many,
     shortest |-> 0, longest |-> Many, samples |-> Many, exclusive |-> FALSE,
     deprecated |-> Never, retired |-> Never, replacement |-> ""]

\* An entry states its modality, the parts it takes and its roles, then its numbers.
Entry(kind, takes, yes, no) ==
    [Unlisted EXCEPT !.kind = kind, !.takes = takes, !.yes = yes, !.no = no]

Ends(entry, deprecated, retired, replacement) ==
    [entry EXCEPT !.deprecated = deprecated, !.retired = retired, !.replacement = replacement]

T == {"text"}
TI == {"text", "image"}
TIV == {"text", "image", "video"}
All == {"text", "image", "video", "audio"}
Frames == {"first_frame", "last_frame"}
References == {"reference_image", "reference_video", "reference_audio"}

---------------------------------------------------------------------------
(* Image models *)

Generator == Entry("image", T, {}, {"image_to_image"})
Editor == Entry("image", TI, {"image_to_image"}, {})

OpenAIImages ==
    LET Tenfold == [Editor EXCEPT !.outputs = 10]
        DallE(entry) == Ends(entry, 20251114, 20260512, "gpt-image-2")
    IN  [m \in {"gpt-image-2", "gpt-image-2.5-sunburst", "gpt-image-2.5-flare", "gpt-image-1",
                "gpt-image-1-mini", "dall-e-2", "dall-e-3"} |->
            CASE m = "gpt-image-1" -> Ends(Tenfold, 20260422, 20261023, "gpt-image-2.5-sunburst")
              [] m = "gpt-image-1-mini" -> Ends(Tenfold, 20260602, 20261201, "gpt-image-2.5-flare")
              [] m = "dall-e-2" -> DallE(Tenfold)
              [] m = "dall-e-3" -> DallE([Generator EXCEPT !.outputs = 1])
              [] OTHER -> Tenfold]

ImagenImages ==
    LET Imagen == [Generator EXCEPT !.outputs = 4]
    IN  [m \in {"imagen-4.0-generate-001", "imagen-3.0-generate-001"} |->
            IF m = "imagen-4.0-generate-001"
            THEN Ends(Imagen, 20260615, 20260817, "gemini-nano-banana-2.1")
            ELSE Ends(Imagen, Never, 20260630, "gemini-2.5-flash-image")]

GeminiImages ==
    LET NanoBanana == [Editor EXCEPT !.images = 14]
        Flash == [Editor EXCEPT !.images = 3, !.outputs = 10]
    IN  [m \in {"gemini-nano-banana-2.1", "gemini-3.1-flash-lite-image", "gemini-3-pro-image",
                "gemini-3.1-flash-image", "gemini-2.5-flash-image"} |->
            CASE m = "gemini-3.1-flash-image" ->
                     Ends(NanoBanana, 20261006, Never, "gemini-nano-banana-2.1")
              [] m = "gemini-2.5-flash-image" ->
                     Ends(Flash, Never, 20270315, "gemini-3.1-flash-lite-image")
              [] OTHER -> NanoBanana]

XaiImages ==
    LET Grok == [Generator EXCEPT !.outputs = 10]
    IN  [m \in {"grok-imagine-image", "grok-imagine-image-2.0", "grok-imagine-image-pro",
                "grok-imagine-image-quality"} |->
            CASE m = "grok-imagine-image-pro" -> Ends(Grok, Never, 20260515, "grok-imagine-image-2.0")
              [] m = "grok-imagine-image-quality" ->
                     Ends(Grok, 20260902, 20261102, "grok-imagine-image-2.0")
              [] OTHER -> Grok]

StabilityImages ==
    [m \in {"sd3.5-large", "sd3.5-medium", "sd3.5-large-turbo", "sd3.5-flash", "sdxl",
            "stable-image-core", "stable-image-ultra"} |->
        IF m \in {"stable-image-core", "stable-image-ultra"} THEN Generator ELSE Editor]

FluxImages ==
    LET remix == {"flux-2-flex-remix-image", "flux-2-max-remix-image", "flux-2-pro-remix-image"}
    IN  [m \in remix \cup {"flux-2-flex-text-to-image", "flux-2-max-text-to-image",
                           "flux-2-pro-text-to-image"} |->
            IF m \in remix THEN [Editor EXCEPT !.images = 8] ELSE Generator]

SeedreamImages ==
    [m \in {"doubao-seedream-3-0-t2i-250415", "doubao-seedream-4-0-250828",
            "doubao-seedream-5-0-pro-260628", "doubao-seedream-5-0-flash-260915"} |->
        CASE m = "doubao-seedream-3-0-t2i-250415" ->
                 Ends(Generator, 20260403, 20260511, "doubao-seedream-5-0-pro-260628")
          [] m = "doubao-seedream-4-0-250828" ->
                 Ends([Editor EXCEPT !.images = 14], 20260922, 20261124, "")
          [] OTHER -> [Editor EXCEPT !.images = 10, !.outputs = 1]]

WanImages ==
    [m \in {"wanx2.1-t2i-turbo", "wanx2.1-t2i-plus", "wan2.2-t2i-flash", "wan2.2-t2i-plus",
            "wan2.5-t2i-preview", "wan2.6-t2i", "wan2.7-image-pro", "wan2.7-image", "wan2.6-image"} |->
        CASE m \in {"wan2.7-image-pro", "wan2.7-image"} ->
                 [Editor EXCEPT !.images = 9, !.outputs = 4]
          [] m = "wan2.6-image" -> [Editor EXCEPT !.outputs = 4]
          [] OTHER -> [Generator EXCEPT !.outputs = 4]]

QwenImages ==
    [m \in {"qwen-image-2.0-pro", "qwen-image-2.0", "qwen-image-3.0-pro", "qwen-image-3.0"}
        |-> [Editor EXCEPT !.outputs = 6]]

---------------------------------------------------------------------------
(* Video models *)

Video(takes, yes, no, shortest, longest) ==
    [Entry("video", takes, yes, no) EXCEPT !.shortest = shortest, !.longest = longest]

SoraVideos ==
    LET Sora == Video(TI, {"first_frame", "audio_output"},
                      {"last_frame", "reference_video", "reference_audio"}, 4, 20)
    IN  [m \in {"sora-2", "sora-2-pro"} |->
            Ends([Sora EXCEPT !.images = 1], 20260324, 20260924, "")]

Veo2And3Videos ==
    LET Ended(entry) == Ends(entry, 20260615, 20260630, "veo-3.1-generate-001")
        Veo2 == Video(TI, Frames, {"reference_video", "audio_output"}, 5, 8)
        Veo3 == Video(TI, Frames \cup {"audio_output"}, {"reference_video"}, 4, 8)
    IN  [m \in {"veo-2.0-generate-001", "veo-3.0-generate-001"} |->
            IF m = "veo-2.0-generate-001" THEN Ended([Veo2 EXCEPT !.images = 1, !.outputs = 2])
            ELSE Ended([Veo3 EXCEPT !.images = 1, !.outputs = 1])]

Veo31Previews ==
    LET Ended(entry) == Ends(entry, Never, 20261022, "gemini-omni-1.1-flash")
        Sounding == Frames \cup {"audio_output"}
        Full == Video(TIV, Sounding \cup {"reference_video"}, {}, 4, 8)
        Lite == Video(TI, Sounding, {"reference_video"}, 4, 8)
    IN  [m \in {"veo-3.1-generate-preview", "veo-3.1-fast-generate-preview",
                "veo-3.1-lite-generate-preview"} |->
            IF m = "veo-3.1-lite-generate-preview" THEN Ended([Lite EXCEPT !.images = 1, !.outputs = 1])
            ELSE Ended([Full EXCEPT !.images = 3, !.outputs = 1])]

Veo31Videos ==
    LET Full == Video(TI, Frames \cup {"reference_image", "audio_output"}, {"reference_video"}, 4, 8)
        Lite == Video(TI, {"first_frame", "audio_output"}, {"reference_video", "reference_image"}, 4, 8)
    IN  [m \in {"veo-3.1-generate-001", "veo-3.1-fast-generate-001", "veo-3.1-lite-generate-001"} |->
            IF m = "veo-3.1-lite-generate-001" THEN [Lite EXCEPT !.images = 1, !.outputs = 4]
            ELSE [Full EXCEPT !.images = 3, !.outputs = 4]]

OmniVideos ==
    LET Omni == Video(TIV, Frames \cup {"reference_image", "reference_video", "audio_output"},
                      {"reference_audio", "negative_prompt"}, 3, 10)
    IN  [m \in {"gemini-omni-1.1-flash", "gemini-omni-1.1-flash-preview"} |->
            [Omni EXCEPT !.images = 10, !.outputs = 1]]

XaiVideos ==
    LET Grok(takes, no, images) ==
            [Video(takes, {"first_frame", "reference_image", "audio_output"} \ no, no, 1, 15)
                EXCEPT !.images = images]
    IN  [m \in {"grok-imagine-video", "grok-imagine-video-1.5", "grok-imagine-video-1.5-preview",
                "grok-imagine-video-1.5-lite"} |->
            CASE m = "grok-imagine-video" -> Grok(TIV, {}, 7)
              [] m = "grok-imagine-video-1.5-lite" -> Grok(TI, {"reference_audio", "reference_image"}, 1)
              [] OTHER -> Grok(TI, {"reference_audio"}, 14)]

StableVideos ==
    [m \in {"stable-video-1-1", "stable-video-1-0", "stable-video-diffusion"} |->
        Ends(Video({"image"}, {"first_frame"}, {"audio_output"}, 0, Many), 20250724, 20250724, "")]

Seedance1Videos ==
    LET Silent == Video(TI, Frames, {"reference_video", "audio_output"}, 2, 12)
    IN  [m \in {"doubao-seedance-1-0-pro-250528", "doubao-seedance-1-0-lite-i2v-250428"} |->
            IF m = "doubao-seedance-1-0-pro-250528"
            THEN Ends(Silent, 20260922, 20261124, "doubao-seedance-2-0-mini-260615")
            ELSE Ends([Silent EXCEPT !.images = 4], 20260403, 20260511, "doubao-seedance-2-0-fast-260128")]

\* Omni models whose frames and references are exclusive modes of one request.
Exclusive(shortest, longest, images, yes, no) ==
    [Video(All, Frames \cup References \cup yes, no, shortest, longest)
        EXCEPT !.images = images, !.exclusive = TRUE]

Seedance2Videos ==
    [m \in {"doubao-seedance-2-0-260128", "doubao-seedance-2-0-fast-260128",
            "doubao-seedance-2-0-mini-260615", "doubao-seedance-2-5-260628"} |->
        IF m = "doubao-seedance-2-5-260628" THEN Exclusive(4, 30, 30, {"audio_output"}, {})
        ELSE Exclusive(4, 15, 9, {"audio_output"}, {})]

WanTextVideos ==
    LET Silent == Video(T, {}, {"audio_output"}, 0, 5)
        Sounding(shortest, longest) == Video(T, {"audio_output"}, {}, shortest, longest)
    IN  [m \in {"wanx2.1-t2v-turbo", "wanx2.1-t2v-plus", "wan2.2-t2v-plus", "wan2.5-t2v-preview",
                "wan2.6-t2v", "wan2.7-t2v"} |->
            CASE m = "wan2.5-t2v-preview" -> Sounding(5, 10)
              [] m \in {"wan2.6-t2v", "wan2.7-t2v"} -> Sounding(2, 15)
              [] OTHER -> Silent]

WanImageVideos ==
    LET OneFrame(yes, no, shortest, longest) ==
            [Video(TI, {"first_frame"} \cup yes, {"last_frame"} \cup no, shortest, longest)
                EXCEPT !.images = 1]
        Silent(shortest) == OneFrame({}, {"audio_output"}, shortest, 5)
        Sounding(shortest, longest) == OneFrame({"audio_output"}, {}, shortest, longest)
    IN  [m \in {"wanx2.1-i2v-turbo", "wanx2.1-i2v-plus", "wan2.2-i2v-flash", "wan2.2-i2v-plus",
                "wan2.5-i2v-preview", "wan2.6-i2v", "wan2.6-i2v-flash"} |->
            CASE m = "wanx2.1-i2v-turbo" -> Silent(3)
              [] m = "wan2.5-i2v-preview" -> Sounding(5, 10)
              [] m \in {"wan2.6-i2v", "wan2.6-i2v-flash"} -> Sounding(2, 15)
              [] OTHER -> Silent(5)]

Wan3Videos ==
    [m \in {"wan3.0-video", "wan3.0-video-prime"} |->
        Exclusive(2, 30, 10, {"audio_output"}, {"negative_prompt"})]

Wan27ImageVideos ==
    [m \in {"wan2.7-i2v"} |->
        [Video({"text", "image", "audio"}, Frames \cup {"reference_audio", "audio_output"},
               {"reference_image", "reference_video"}, 2, 15) EXCEPT !.images = 2]]

HappyHorseVideos ==
    LET Horse(takes, yes, no, images) ==
            [Video(takes, yes \cup {"audio_output"}, no, 3, 15) EXCEPT !.images = images]
    IN  [m \in {"happyhorse-1.1-t2v", "happyhorse-1.1-i2v", "happyhorse-1.1-r2v"} |->
            CASE m = "happyhorse-1.1-t2v" -> Horse(T, {}, {}, Many)
              [] m = "happyhorse-1.1-i2v" ->
                     Horse(TI, {"first_frame"}, {"last_frame", "reference_image"}, 1)
              [] m = "happyhorse-1.1-r2v" -> Horse(TI, {"reference_image"}, Frames, 9)]

MiniMaxVideos ==
    [m \in {"MiniMax-H3", "MiniMax-H3-Highspeed", "MiniMax-H3-Lite", "MiniMax-H3-Max"} |->
        [Exclusive(IF m = "MiniMax-H3-Max" THEN 5 ELSE 4, 15, 9, {}, {}) EXCEPT !.outputs = 1]]

---------------------------------------------------------------------------
(* Music models *)

Music(takes, yes, no) == Entry("music", takes, {"lyrics"} \cup yes, no)
TLA == {"text", "lyrics", "audio"}

LyriaMusic ==
    LET Lyria == [Music(TI, {}, {"reference_audio", "continuation_audio"})
                    EXCEPT !.images = 10, !.outputs = 1]
    IN  [m \in {"lyria-3.5", "lyria-3-pro-preview", "lyria-3-clip-preview"} |->
            CASE m = "lyria-3.5" -> Lyria
              [] m = "lyria-3-pro-preview" -> [Lyria EXCEPT !.longest = 184, !.replacement = "lyria-3.5"]
              [] m = "lyria-3-clip-preview" -> [Lyria EXCEPT !.shortest = 30, !.longest = 30]]

MiniMaxMusic ==
    LET Song(takes, yes, longest) ==
            [Music(takes, yes, {}) EXCEPT !.outputs = 1, !.longest = longest]
    IN  [m \in {"music-3.0", "music-2.6", "music-cover"} |->
            CASE m = "music-3.0" -> Song({"text", "lyrics"}, {}, 300)
              [] m = "music-2.6" -> Song({"text", "lyrics"}, {}, Many)
              [] m = "music-cover" -> Song(TLA, {"reference_audio"}, 360)]

ElevenMusic ==
    LET Song(takes, yes) ==
            [Music(takes, yes, {}) EXCEPT !.outputs = 1, !.shortest = 3, !.longest = 600]
    IN  [m \in {"music_v1", "music_v2", "music_v2_5"} |->
            IF m = "music_v1" THEN Song(T, {}) ELSE Song({"text", "audio"}, {"reference_audio"})]

ChirpMusic ==
    LET Chirp == [Music(T, {}, {}) EXCEPT !.outputs = 2]
        Newer == {"chirp-v6", "chirp-v6-mini", "chirp-v6-wild"}
    IN  [m \in Newer \cup {"chirp-v4-0", "chirp-v4-5", "chirp-v4-5-plus", "chirp-v5", "chirp-v5-5"} |->
            CASE m \in Newer -> Chirp
              [] m = "chirp-v5" -> [Chirp EXCEPT !.replacement = "chirp-v6"]
              [] m = "chirp-v5-5" ->
                     [Chirp EXCEPT !.replacement = "chirp-v6", !.shortest = 10, !.longest = 360]
              [] OTHER -> [Chirp EXCEPT !.replacement = "chirp-v6-mini"]]

MurekaMusic ==
    [m \in {"mureka-9.5", "mureka-9", "mureka-8", "mureka-7.6", "mureka-o2"} |->
        [Music(TLA, {"reference_audio", "continuation_audio"}, {}) EXCEPT !.outputs = 3]]

AceStepMusic ==
    [m \in {"acestep-v15-turbo", "acestep-v15-sft", "acestep-v15-base", "acestep-v15-turbo-shift3",
            "acestep-v15-xl-turbo", "acestep-v15-xl-sft", "acestep-v15-xl-base", "ace-step-1.5"} |->
        [Music(TLA, {"reference_audio", "continuation_audio"}, {}) EXCEPT !.outputs = 4]]

---------------------------------------------------------------------------
(* Speech models: `samples` bounds the recordings a voice is cloned from *)

Speech(samples, yes) ==
    [Entry("audio", T, yes, {"voice_cloning", "instructions"} \ yes) EXCEPT !.samples = samples]

AzureSpeech == [m \in {"azure-tts"} |-> Speech(Many, {})]

OpenAISpeech ==
    [m \in {"gpt-4o-mini-tts", "gpt-4o-mini-tts-2025-12-15", "tts-1", "tts-1-hd"} |->
        Ends(IF m \in {"tts-1", "tts-1-hd"} THEN Speech(1, {})
             ELSE Speech(1, {"voice_cloning", "instructions"}),
             20261001, 20270106, "")]

ElevenSpeech ==
    LET Eleven == Speech(10, {"voice_cloning"})
    IN  [m \in {"eleven_v3", "eleven_multilingual_v2", "eleven_flash_v2_5", "eleven_v4",
                "eleven_v4_turbo", "eleven_turbo_v2_5"} |->
            IF m = "eleven_turbo_v2_5" THEN Ends(Eleven, 20261029, Never, "eleven_flash_v2_5")
            ELSE Eleven]

MiniMaxSpeech ==
    [m \in {"speech-2.8-hd", "speech-2.8-turbo", "speech-2.6-hd", "speech-2.6-turbo",
            "speech-02-hd", "speech-02-turbo", "speech-01-hd", "speech-01-turbo"} |->
        Speech(1, {"voice_cloning"})]

---------------------------------------------------------------------------

\* A modality's models: no two tables list the same one.
Merged(tables) ==
    [m \in UNION {DOMAIN t : t \in tables} |-> (CHOOSE t \in tables : m \in DOMAIN t)[m]]

ImageTables ==
    {OpenAIImages, ImagenImages, GeminiImages, XaiImages, StabilityImages, FluxImages,
     SeedreamImages, WanImages, QwenImages}

VideoTables ==
    {SoraVideos, Veo2And3Videos, Veo31Previews, Veo31Videos, OmniVideos, XaiVideos, StableVideos,
     Seedance1Videos, Seedance2Videos, WanTextVideos, WanImageVideos, Wan3Videos,
     Wan27ImageVideos, HappyHorseVideos, MiniMaxVideos}

MusicTables ==
    {LyriaMusic, MiniMaxMusic, ElevenMusic, ChirpMusic, MurekaMusic, AceStepMusic}

SpeechTables == {AzureSpeech, OpenAISpeech, ElevenSpeech, MiniMaxSpeech}

Images == Merged(ImageTables)
Videos == Merged(VideoTables)
Songs == Merged(MusicTables)
Voices == Merged(SpeechTables)

Catalogue == Merged({Images, Videos, Songs, Voices})

\* An entry of another modality says nothing about the one asked for.
limits_for(model, kind) ==
    IF model \in DOMAIN Catalogue /\ Catalogue[model].kind = kind THEN Catalogue[model] ELSE Unlisted
===============================================================================
