------------------------ MODULE MediaRequests_proofs ------------------------
(***************************************************************************)
(* What the adapters send, for every request: any number of parts in any   *)
(* order, any count and any length, against every entry of the catalogue.  *)
(***************************************************************************)
EXTENDS MediaRequests, FiniteSetTheorems, TLAPS

-----------------------------------------------------------------------------
(* The catalogue: which models the tables list.                            *)

(* The models of the image tables.                                         *)
LEMMA ImageNames ==
    /\ DOMAIN OpenAIImages =
          {"gpt-image-2", "gpt-image-2.5-sunburst", "gpt-image-2.5-flare",
           "gpt-image-1", "gpt-image-1-mini", "dall-e-2", "dall-e-3"}
    /\ DOMAIN ImagenImages =
          {"imagen-4.0-generate-001", "imagen-3.0-generate-001"}
    /\ DOMAIN GeminiImages =
          {"gemini-nano-banana-2.1", "gemini-3.1-flash-lite-image",
           "gemini-3-pro-image", "gemini-3.1-flash-image",
           "gemini-2.5-flash-image"}
    /\ DOMAIN XaiImages =
          {"grok-imagine-image", "grok-imagine-image-2.0",
           "grok-imagine-image-pro", "grok-imagine-image-quality"}
    /\ DOMAIN StabilityImages =
          {"sd3.5-large", "sd3.5-medium", "sd3.5-large-turbo", "sd3.5-flash",
           "sdxl", "stable-image-core", "stable-image-ultra"}
    /\ DOMAIN FluxImages =
          {"flux-2-flex-remix-image", "flux-2-max-remix-image",
           "flux-2-pro-remix-image", "flux-2-flex-text-to-image",
           "flux-2-max-text-to-image", "flux-2-pro-text-to-image"}
    /\ DOMAIN SeedreamImages =
          {"doubao-seedream-3-0-t2i-250415", "doubao-seedream-4-0-250828",
           "doubao-seedream-5-0-pro-260628",
           "doubao-seedream-5-0-flash-260915"}
    /\ DOMAIN WanImages =
          {"wanx2.1-t2i-turbo", "wanx2.1-t2i-plus", "wan2.2-t2i-flash",
           "wan2.2-t2i-plus", "wan2.5-t2i-preview", "wan2.6-t2i",
           "wan2.7-image-pro", "wan2.7-image", "wan2.6-image"}
    /\ DOMAIN QwenImages =
          {"qwen-image-2.0-pro", "qwen-image-2.0", "qwen-image-3.0-pro",
           "qwen-image-3.0"}
BY DEF OpenAIImages, ImagenImages, GeminiImages, XaiImages, StabilityImages,
       FluxImages, SeedreamImages, WanImages, QwenImages

(* The models of the video tables.                                         *)
LEMMA VideoNames ==
    /\ DOMAIN SoraVideos = {"sora-2", "sora-2-pro"}
    /\ DOMAIN Veo2And3Videos =
          {"veo-2.0-generate-001", "veo-3.0-generate-001"}
    /\ DOMAIN Veo31Previews =
          {"veo-3.1-generate-preview", "veo-3.1-fast-generate-preview",
           "veo-3.1-lite-generate-preview"}
    /\ DOMAIN Veo31Videos =
          {"veo-3.1-generate-001", "veo-3.1-fast-generate-001",
           "veo-3.1-lite-generate-001"}
    /\ DOMAIN OmniVideos =
          {"gemini-omni-1.1-flash", "gemini-omni-1.1-flash-preview"}
    /\ DOMAIN XaiVideos =
          {"grok-imagine-video", "grok-imagine-video-1.5",
           "grok-imagine-video-1.5-preview", "grok-imagine-video-1.5-lite"}
    /\ DOMAIN StableVideos =
          {"stable-video-1-1", "stable-video-1-0", "stable-video-diffusion"}
    /\ DOMAIN Seedance1Videos =
          {"doubao-seedance-1-0-pro-250528",
           "doubao-seedance-1-0-lite-i2v-250428"}
    /\ DOMAIN Seedance2Videos =
          {"doubao-seedance-2-0-260128", "doubao-seedance-2-0-fast-260128",
           "doubao-seedance-2-0-mini-260615", "doubao-seedance-2-5-260628"}
    /\ DOMAIN WanTextVideos =
          {"wanx2.1-t2v-turbo", "wanx2.1-t2v-plus", "wan2.2-t2v-plus",
           "wan2.5-t2v-preview", "wan2.6-t2v", "wan2.7-t2v"}
    /\ DOMAIN WanImageVideos =
          {"wanx2.1-i2v-turbo", "wanx2.1-i2v-plus", "wan2.2-i2v-flash",
           "wan2.2-i2v-plus", "wan2.5-i2v-preview", "wan2.6-i2v",
           "wan2.6-i2v-flash"}
    /\ DOMAIN Wan3Videos = {"wan3.0-video", "wan3.0-video-prime"}
    /\ DOMAIN Wan27ImageVideos = {"wan2.7-i2v"}
    /\ DOMAIN HappyHorseVideos =
          {"happyhorse-1.1-t2v", "happyhorse-1.1-i2v", "happyhorse-1.1-r2v"}
    /\ DOMAIN MiniMaxVideos =
          {"MiniMax-H3", "MiniMax-H3-Highspeed", "MiniMax-H3-Lite",
           "MiniMax-H3-Max"}
BY DEF SoraVideos, Veo2And3Videos, Veo31Previews, Veo31Videos, OmniVideos,
       XaiVideos, StableVideos, Seedance1Videos, Seedance2Videos,
       WanTextVideos, WanImageVideos, Wan3Videos, Wan27ImageVideos,
       HappyHorseVideos, MiniMaxVideos

(* The models of the music tables.                                         *)
LEMMA MusicNames ==
    /\ DOMAIN LyriaMusic =
          {"lyria-3.5", "lyria-3-pro-preview", "lyria-3-clip-preview"}
    /\ DOMAIN MiniMaxMusic = {"music-3.0", "music-2.6", "music-cover"}
    /\ DOMAIN ElevenMusic = {"music_v1", "music_v2", "music_v2_5"}
    /\ DOMAIN ChirpMusic =
          {"chirp-v6", "chirp-v6-mini", "chirp-v6-wild", "chirp-v4-0",
           "chirp-v4-5", "chirp-v4-5-plus", "chirp-v5", "chirp-v5-5"}
    /\ DOMAIN MurekaMusic =
          {"mureka-9.5", "mureka-9", "mureka-8", "mureka-7.6", "mureka-o2"}
    /\ DOMAIN AceStepMusic =
          {"acestep-v15-turbo", "acestep-v15-sft", "acestep-v15-base",
           "acestep-v15-turbo-shift3", "acestep-v15-xl-turbo",
           "acestep-v15-xl-sft", "acestep-v15-xl-base", "ace-step-1.5"}
BY DEF LyriaMusic, MiniMaxMusic, ElevenMusic, ChirpMusic, MurekaMusic,
       AceStepMusic

(* The models of the speech tables.                                        *)
LEMMA SpeechNames ==
    /\ DOMAIN AzureSpeech = {"azure-tts"}
    /\ DOMAIN OpenAISpeech =
          {"gpt-4o-mini-tts", "gpt-4o-mini-tts-2025-12-15", "tts-1",
           "tts-1-hd"}
    /\ DOMAIN ElevenSpeech =
          {"eleven_v3", "eleven_multilingual_v2", "eleven_flash_v2_5",
           "eleven_v4", "eleven_v4_turbo", "eleven_turbo_v2_5"}
    /\ DOMAIN MiniMaxSpeech =
          {"speech-2.8-hd", "speech-2.8-turbo", "speech-2.6-hd",
           "speech-2.6-turbo", "speech-02-hd", "speech-02-turbo",
           "speech-01-hd", "speech-01-turbo"}
BY DEF AzureSpeech, OpenAISpeech, ElevenSpeech, MiniMaxSpeech

AllTables == ImageTables \cup VideoTables \cup MusicTables \cup SpeechTables

\* No other table lists a model of this one.
OnlyTable(t) == \A m \in DOMAIN t : \A u \in AllTables : m \in DOMAIN u => u = t

(* No table but one lists the models of an image table.                   *)
LEMMA ImagesListedOnce == \A t \in ImageTables : OnlyTable(t)
<1>1. OnlyTable(OpenAIImages)
    BY ImageNames, VideoNames, MusicNames, SpeechNames, SMTT(90)
    DEF OnlyTable, AllTables, VideoTables, ImageTables, MusicTables, SpeechTables
<1>2. OnlyTable(ImagenImages)
    BY ImageNames, VideoNames, MusicNames, SpeechNames, SMTT(30)
    DEF OnlyTable, AllTables, VideoTables, ImageTables, MusicTables, SpeechTables
<1>3. OnlyTable(GeminiImages)
    BY ImageNames, VideoNames, MusicNames, SpeechNames, SMTT(90)
    DEF OnlyTable, AllTables, VideoTables, ImageTables, MusicTables, SpeechTables
<1>4. OnlyTable(XaiImages)
    BY ImageNames, VideoNames, MusicNames, SpeechNames, SMTT(30)
    DEF OnlyTable, AllTables, VideoTables, ImageTables, MusicTables, SpeechTables
<1>5. OnlyTable(StabilityImages)
    BY ImageNames, VideoNames, MusicNames, SpeechNames, SMTT(90)
    DEF OnlyTable, AllTables, VideoTables, ImageTables, MusicTables, SpeechTables
<1>6. OnlyTable(FluxImages)
    BY ImageNames, VideoNames, MusicNames, SpeechNames, SMTT(90)
    DEF OnlyTable, AllTables, VideoTables, ImageTables, MusicTables, SpeechTables
<1>7. OnlyTable(SeedreamImages)
    BY ImageNames, VideoNames, MusicNames, SpeechNames, SMTT(30)
    DEF OnlyTable, AllTables, VideoTables, ImageTables, MusicTables, SpeechTables
<1>8. OnlyTable(WanImages)
    BY ImageNames, VideoNames, MusicNames, SpeechNames, SMTT(90)
    DEF OnlyTable, AllTables, VideoTables, ImageTables, MusicTables, SpeechTables
<1>9. OnlyTable(QwenImages)
    BY ImageNames, VideoNames, MusicNames, SpeechNames, SMTT(30)
    DEF OnlyTable, AllTables, VideoTables, ImageTables, MusicTables, SpeechTables
<1> QED
    BY <1>1, <1>2, <1>3, <1>4, <1>5, <1>6, <1>7, <1>8, <1>9 DEF ImageTables

(* No table but one lists the models of a video table.                    *)
LEMMA VideosListedOnce == \A t \in VideoTables : OnlyTable(t)
<1>1. OnlyTable(SoraVideos)
    BY ImageNames, VideoNames, MusicNames, SpeechNames, SMTT(30)
    DEF OnlyTable, AllTables, VideoTables, ImageTables, MusicTables, SpeechTables
<1>2. OnlyTable(Veo2And3Videos)
    BY ImageNames, VideoNames, MusicNames, SpeechNames, SMTT(30)
    DEF OnlyTable, AllTables, VideoTables, ImageTables, MusicTables, SpeechTables
<1>3. OnlyTable(Veo31Previews)
    BY ImageNames, VideoNames, MusicNames, SpeechNames, SMTT(30)
    DEF OnlyTable, AllTables, VideoTables, ImageTables, MusicTables, SpeechTables
<1>4. OnlyTable(Veo31Videos)
    BY ImageNames, VideoNames, MusicNames, SpeechNames, SMTT(30)
    DEF OnlyTable, AllTables, VideoTables, ImageTables, MusicTables, SpeechTables
<1>5. OnlyTable(OmniVideos)
    BY ImageNames, VideoNames, MusicNames, SpeechNames, SMTT(30)
    DEF OnlyTable, AllTables, VideoTables, ImageTables, MusicTables, SpeechTables
<1>6. OnlyTable(XaiVideos)
    BY ImageNames, VideoNames, MusicNames, SpeechNames, SMTT(30)
    DEF OnlyTable, AllTables, VideoTables, ImageTables, MusicTables, SpeechTables
<1>7. OnlyTable(StableVideos)
    BY ImageNames, VideoNames, MusicNames, SpeechNames, SMTT(30)
    DEF OnlyTable, AllTables, VideoTables, ImageTables, MusicTables, SpeechTables
<1>8. OnlyTable(Seedance1Videos)
    BY ImageNames, VideoNames, MusicNames, SpeechNames, SMTT(30)
    DEF OnlyTable, AllTables, VideoTables, ImageTables, MusicTables, SpeechTables
<1>9. OnlyTable(Seedance2Videos)
    BY ImageNames, VideoNames, MusicNames, SpeechNames, SMTT(30)
    DEF OnlyTable, AllTables, VideoTables, ImageTables, MusicTables, SpeechTables
<1>10. OnlyTable(WanTextVideos)
    BY ImageNames, VideoNames, MusicNames, SpeechNames, SMTT(90)
    DEF OnlyTable, AllTables, VideoTables, ImageTables, MusicTables, SpeechTables
<1>11. OnlyTable(WanImageVideos)
    BY ImageNames, VideoNames, MusicNames, SpeechNames, SMTT(90)
    DEF OnlyTable, AllTables, VideoTables, ImageTables, MusicTables, SpeechTables
<1>12. OnlyTable(Wan3Videos)
    BY ImageNames, VideoNames, MusicNames, SpeechNames, SMTT(30)
    DEF OnlyTable, AllTables, VideoTables, ImageTables, MusicTables, SpeechTables
<1>13. OnlyTable(Wan27ImageVideos)
    BY ImageNames, VideoNames, MusicNames, SpeechNames, SMTT(30)
    DEF OnlyTable, AllTables, VideoTables, ImageTables, MusicTables, SpeechTables
<1>14. OnlyTable(HappyHorseVideos)
    BY ImageNames, VideoNames, MusicNames, SpeechNames, SMTT(30)
    DEF OnlyTable, AllTables, VideoTables, ImageTables, MusicTables, SpeechTables
<1>15. OnlyTable(MiniMaxVideos)
    BY ImageNames, VideoNames, MusicNames, SpeechNames, SMTT(30)
    DEF OnlyTable, AllTables, VideoTables, ImageTables, MusicTables, SpeechTables
<1> QED
    BY <1>1, <1>2, <1>3, <1>4, <1>5, <1>6, <1>7, <1>8, <1>9, <1>10, <1>11,
       <1>12, <1>13, <1>14, <1>15 DEF VideoTables

(* No table but one lists the models of a music table.                    *)
LEMMA MusicListedOnce == \A t \in MusicTables : OnlyTable(t)
<1>1. OnlyTable(LyriaMusic)
    BY ImageNames, VideoNames, MusicNames, SpeechNames, SMTT(30)
    DEF OnlyTable, AllTables, VideoTables, ImageTables, MusicTables, SpeechTables
<1>2. OnlyTable(MiniMaxMusic)
    BY ImageNames, VideoNames, MusicNames, SpeechNames, SMTT(30)
    DEF OnlyTable, AllTables, VideoTables, ImageTables, MusicTables, SpeechTables
<1>3. OnlyTable(ElevenMusic)
    BY ImageNames, VideoNames, MusicNames, SpeechNames, SMTT(30)
    DEF OnlyTable, AllTables, VideoTables, ImageTables, MusicTables, SpeechTables
<1>4. OnlyTable(ChirpMusic)
    BY ImageNames, VideoNames, MusicNames, SpeechNames, SMTT(90)
    DEF OnlyTable, AllTables, VideoTables, ImageTables, MusicTables, SpeechTables
<1>5. OnlyTable(MurekaMusic)
    BY ImageNames, VideoNames, MusicNames, SpeechNames, SMTT(90)
    DEF OnlyTable, AllTables, VideoTables, ImageTables, MusicTables, SpeechTables
<1>6. OnlyTable(AceStepMusic)
    BY ImageNames, VideoNames, MusicNames, SpeechNames, SMTT(90)
    DEF OnlyTable, AllTables, VideoTables, ImageTables, MusicTables, SpeechTables
<1> QED
    BY <1>1, <1>2, <1>3, <1>4, <1>5, <1>6 DEF MusicTables

-----------------------------------------------------------------------------
(* The catalogue: what the tables say of their models.                     *)

\* An entry of one modality with these roles at most, and numbers in range.
Documents(e, kind, roles) ==
    /\ e.kind = kind /\ e.yes \subseteq roles
    /\ e.images \in Nat /\ e.outputs \in Nat \ {0}
    /\ e.shortest \in Nat /\ e.longest \in Nat

\* An entry that has no exclusive modes.
Plain(e, kind, roles) == Documents(e, kind, roles) /\ ~e.exclusive

Heard == {"audio_output"}

(* What the image tables document.                                         *)
LEMMA ImageEntries ==
    /\ \A m \in DOMAIN OpenAIImages : Plain(OpenAIImages[m], "image", {"image_to_image"})
    /\ \A m \in DOMAIN ImagenImages : Plain(ImagenImages[m], "image", {})
    /\ \A m \in DOMAIN GeminiImages : Plain(GeminiImages[m], "image", {"image_to_image"})
    /\ \A m \in DOMAIN XaiImages : Plain(XaiImages[m], "image", {})
    /\ \A m \in DOMAIN StabilityImages : Plain(StabilityImages[m], "image", {"image_to_image"})
    /\ \A m \in DOMAIN FluxImages : Plain(FluxImages[m], "image", {"image_to_image"})
    /\ \A m \in DOMAIN SeedreamImages : Plain(SeedreamImages[m], "image", {"image_to_image"})
    /\ \A m \in DOMAIN WanImages :
          Plain(WanImages[m], "image", IF m \in GenerationModels THEN {"image_to_image"} ELSE {})
    /\ \A m \in DOMAIN QwenImages : Plain(QwenImages[m], "image", {"image_to_image"})
<1> USE DEF Plain, Documents, Generator, Editor, Entry, Unlisted, Ends, Many, Never, T, TI
<1>1. \A m \in DOMAIN OpenAIImages : Plain(OpenAIImages[m], "image", {"image_to_image"})
    BY DEF OpenAIImages
<1>2. \A m \in DOMAIN ImagenImages : Plain(ImagenImages[m], "image", {})
    BY DEF ImagenImages
<1>3. \A m \in DOMAIN GeminiImages : Plain(GeminiImages[m], "image", {"image_to_image"})
    BY DEF GeminiImages
<1>4. \A m \in DOMAIN XaiImages : Plain(XaiImages[m], "image", {})
    BY DEF XaiImages
<1>5. \A m \in DOMAIN StabilityImages : Plain(StabilityImages[m], "image", {"image_to_image"})
    BY DEF StabilityImages
<1>6. \A m \in DOMAIN FluxImages : Plain(FluxImages[m], "image", {"image_to_image"})
    BY DEF FluxImages
<1>7. \A m \in DOMAIN SeedreamImages : Plain(SeedreamImages[m], "image", {"image_to_image"})
    BY DEF SeedreamImages
<1>8. \A m \in DOMAIN WanImages :
         Plain(WanImages[m], "image", IF m \in GenerationModels THEN {"image_to_image"} ELSE {})
    BY DEF WanImages, GenerationModels
<1>9. \A m \in DOMAIN QwenImages : Plain(QwenImages[m], "image", {"image_to_image"})
    BY DEF QwenImages
<1> HIDE DEF Plain, Documents, Generator, Editor, Entry, Unlisted, Ends, Many, Never, T, TI
<1> QED
    BY <1>1, <1>2, <1>3, <1>4, <1>5, <1>6, <1>7, <1>8, <1>9

(* What the table of the one Wan 2.7 image model documents.                *)
LEMMA Wan27Entries ==
    ASSUME NEW m \in DOMAIN Wan27ImageVideos
    PROVE  /\ Plain(Wan27ImageVideos[m], "video", Frames \cup {"reference_audio"} \cup Heard)
           /\ Wan27ImageVideos[m].shortest = 2 /\ Wan27ImageVideos[m].longest = 15
<1> DEFINE e == Wan27ImageVideos[m]
           takes == {"text", "image", "audio"}
           yes == Frames \cup {"reference_audio", "audio_output"}
           no == {"reference_image", "reference_video"}
<1>1. e = [Video(takes, yes, no, 2, 15) EXCEPT !.images = 2]
    BY SMT DEF Wan27ImageVideos
<1> HIDE DEF e, takes, yes, no
<1>2. /\ e.kind = "video" /\ e.yes = yes /\ e.images = 2 /\ e.outputs = Many
      /\ e.shortest = 2 /\ e.longest = 15 /\ e.exclusive = FALSE
    BY <1>1, SMT DEF Video, Entry, Unlisted, Many, Never
<1>3. Plain(e, "video", Frames \cup {"reference_audio"} \cup Heard)
    BY <1>2, SMT DEF Plain, Documents, Many, Heard, yes
<1> QED
    BY <1>2, <1>3 DEF e

(* What the video tables document.                                         *)
LEMMA VideoEntries ==
    /\ \A m \in DOMAIN SoraVideos : Plain(SoraVideos[m], "video", {"first_frame"} \cup Heard)
    /\ \A m \in DOMAIN Veo2And3Videos : Plain(Veo2And3Videos[m], "video", Frames \cup Heard)
    /\ \A m \in DOMAIN Veo31Previews :
          Plain(Veo31Previews[m], "video", Frames \cup {"reference_video"} \cup Heard)
    /\ \A m \in DOMAIN Veo31Videos :
          Plain(Veo31Videos[m], "video", Frames \cup {"reference_image"} \cup Heard)
    /\ \A m \in DOMAIN OmniVideos :
          /\ Plain(OmniVideos[m], "video", Frames \cup {"reference_image", "reference_video"} \cup Heard)
          /\ OmniVideos[m].shortest = 3 /\ OmniVideos[m].longest = 10
    /\ \A m \in DOMAIN XaiVideos :
          Plain(XaiVideos[m], "video", {"first_frame", "reference_image"} \cup Heard)
    /\ \A m \in DOMAIN StableVideos : Plain(StableVideos[m], "video", {"first_frame"})
    /\ \A m \in DOMAIN Seedance1Videos : Plain(Seedance1Videos[m], "video", Frames)
    /\ \A m \in DOMAIN Seedance2Videos :
          /\ Documents(Seedance2Videos[m], "video", Frames \cup References \cup Heard)
          /\ Seedance2Videos[m].exclusive
    /\ \A m \in DOMAIN WanTextVideos : Plain(WanTextVideos[m], "video", Heard)
    /\ \A m \in DOMAIN WanImageVideos : Plain(WanImageVideos[m], "video", {"first_frame"} \cup Heard)
    /\ \A m \in DOMAIN Wan3Videos :
          /\ Documents(Wan3Videos[m], "video", Frames \cup References \cup Heard)
          /\ Wan3Videos[m].shortest = 2 /\ Wan3Videos[m].longest = 30
          /\ Wan3Videos[m].images = 10 /\ Wan3Videos[m].exclusive
    /\ \A m \in DOMAIN Wan27ImageVideos :
          /\ Plain(Wan27ImageVideos[m], "video", Frames \cup {"reference_audio"} \cup Heard)
          /\ Wan27ImageVideos[m].shortest = 2 /\ Wan27ImageVideos[m].longest = 15
    /\ \A m \in DOMAIN HappyHorseVideos :
          /\ Plain(HappyHorseVideos[m], "video", {"first_frame", "reference_image"} \cup Heard)
          /\ HappyHorseVideos[m].shortest = 3 /\ HappyHorseVideos[m].longest = 15
          /\ m # "happyhorse-1.1-i2v" => "first_frame" \notin HappyHorseVideos[m].yes
          /\ m # "happyhorse-1.1-r2v" => "reference_image" \notin HappyHorseVideos[m].yes
          /\ m = "happyhorse-1.1-r2v" =>
                HappyHorseVideos[m].images = 9 /\ HappyHorseVideos[m].no = Frames
    /\ \A m \in DOMAIN MiniMaxVideos :
          /\ Documents(MiniMaxVideos[m], "video", Frames \cup References)
          /\ MiniMaxVideos[m].exclusive
<1> USE DEF Plain, Documents, Heard, Frames, References, Video, Exclusive, Entry,
            Unlisted, Ends, Many, Never, T, TI, TIV, All
<1>1. \A m \in DOMAIN SoraVideos : Plain(SoraVideos[m], "video", {"first_frame"} \cup Heard)
    BY DEF SoraVideos
<1>2. \A m \in DOMAIN Veo2And3Videos : Plain(Veo2And3Videos[m], "video", Frames \cup Heard)
    BY DEF Veo2And3Videos
<1>3. \A m \in DOMAIN Veo31Previews :
         Plain(Veo31Previews[m], "video", Frames \cup {"reference_video"} \cup Heard)
    BY DEF Veo31Previews
<1>4. \A m \in DOMAIN Veo31Videos :
         Plain(Veo31Videos[m], "video", Frames \cup {"reference_image"} \cup Heard)
    BY DEF Veo31Videos
<1>5. \A m \in DOMAIN OmniVideos :
         /\ Plain(OmniVideos[m], "video", Frames \cup {"reference_image", "reference_video"} \cup Heard)
         /\ OmniVideos[m].shortest = 3 /\ OmniVideos[m].longest = 10
    BY DEF OmniVideos
<1>6. \A m \in DOMAIN XaiVideos :
         Plain(XaiVideos[m], "video", {"first_frame", "reference_image"} \cup Heard)
    BY DEF XaiVideos
<1>7. \A m \in DOMAIN StableVideos : Plain(StableVideos[m], "video", {"first_frame"})
    BY DEF StableVideos
<1>8. \A m \in DOMAIN Seedance1Videos : Plain(Seedance1Videos[m], "video", Frames)
    BY DEF Seedance1Videos
<1>9. \A m \in DOMAIN Seedance2Videos :
         /\ Documents(Seedance2Videos[m], "video", Frames \cup References \cup Heard)
         /\ Seedance2Videos[m].exclusive
    BY DEF Seedance2Videos
<1>10. \A m \in DOMAIN WanTextVideos : Plain(WanTextVideos[m], "video", Heard)
    BY DEF WanTextVideos
<1>11. \A m \in DOMAIN WanImageVideos : Plain(WanImageVideos[m], "video", {"first_frame"} \cup Heard)
    BY DEF WanImageVideos
<1>12. \A m \in DOMAIN Wan3Videos :
          /\ Documents(Wan3Videos[m], "video", Frames \cup References \cup Heard)
          /\ Wan3Videos[m].shortest = 2 /\ Wan3Videos[m].longest = 30
          /\ Wan3Videos[m].images = 10 /\ Wan3Videos[m].exclusive
    BY DEF Wan3Videos
<1>13. \A m \in DOMAIN Wan27ImageVideos :
          /\ Plain(Wan27ImageVideos[m], "video", Frames \cup {"reference_audio"} \cup Heard)
          /\ Wan27ImageVideos[m].shortest = 2 /\ Wan27ImageVideos[m].longest = 15
    BY Wan27Entries, SMT
<1>14. \A m \in DOMAIN HappyHorseVideos :
          /\ Plain(HappyHorseVideos[m], "video", {"first_frame", "reference_image"} \cup Heard)
          /\ HappyHorseVideos[m].shortest = 3 /\ HappyHorseVideos[m].longest = 15
          /\ m # "happyhorse-1.1-i2v" => "first_frame" \notin HappyHorseVideos[m].yes
          /\ m # "happyhorse-1.1-r2v" => "reference_image" \notin HappyHorseVideos[m].yes
          /\ m = "happyhorse-1.1-r2v" =>
                HappyHorseVideos[m].images = 9 /\ HappyHorseVideos[m].no = Frames
    BY SMT DEF HappyHorseVideos
<1>15. \A m \in DOMAIN MiniMaxVideos :
          /\ Documents(MiniMaxVideos[m], "video", Frames \cup References)
          /\ MiniMaxVideos[m].exclusive
    BY DEF MiniMaxVideos
<1> HIDE DEF Plain, Documents, Heard, Frames, References, Video, Exclusive, Entry,
            Unlisted, Ends, Many, Never, T, TI, TIV, All
<1> QED
    BY <1>1, <1>2, <1>3, <1>4, <1>5, <1>6, <1>7, <1>8, <1>9, <1>10, <1>11, <1>12,
       <1>13, <1>14, <1>15

(* What the music tables document.                                         *)
LEMMA MusicEntries ==
    /\ \A m \in DOMAIN LyriaMusic : Plain(LyriaMusic[m], "music", {"lyrics"})
    /\ \A m \in DOMAIN MiniMaxMusic : Plain(MiniMaxMusic[m], "music", {"lyrics", "reference_audio"})
    /\ \A m \in DOMAIN ElevenMusic :
          /\ Plain(ElevenMusic[m], "music", {"lyrics", "reference_audio"})
          /\ ElevenMusic[m].shortest = 3 /\ ElevenMusic[m].longest = 600
    /\ \A m \in DOMAIN ChirpMusic : Plain(ChirpMusic[m], "music", {"lyrics"})
    /\ \A m \in DOMAIN MurekaMusic :
          Plain(MurekaMusic[m], "music", {"lyrics", "reference_audio", "continuation_audio"})
    /\ \A m \in DOMAIN AceStepMusic :
          Plain(AceStepMusic[m], "music", {"lyrics", "reference_audio", "continuation_audio"})
<1> USE DEF Plain, Documents, Music, Entry, Unlisted, Many, Never, T, TI, TLA
<1>1. \A m \in DOMAIN LyriaMusic : Plain(LyriaMusic[m], "music", {"lyrics"})
    BY SMT DEF LyriaMusic
<1>2. \A m \in DOMAIN MiniMaxMusic : Plain(MiniMaxMusic[m], "music", {"lyrics", "reference_audio"})
    BY SMT DEF MiniMaxMusic
<1>3. \A m \in DOMAIN ElevenMusic :
         /\ Plain(ElevenMusic[m], "music", {"lyrics", "reference_audio"})
         /\ ElevenMusic[m].shortest = 3 /\ ElevenMusic[m].longest = 600
    BY DEF ElevenMusic
<1>4. \A m \in DOMAIN ChirpMusic : Plain(ChirpMusic[m], "music", {"lyrics"})
    BY DEF ChirpMusic
<1>5. \A m \in DOMAIN MurekaMusic :
         Plain(MurekaMusic[m], "music", {"lyrics", "reference_audio", "continuation_audio"})
    BY DEF MurekaMusic
<1>6. \A m \in DOMAIN AceStepMusic :
         Plain(AceStepMusic[m], "music", {"lyrics", "reference_audio", "continuation_audio"})
    BY DEF AceStepMusic
<1> HIDE DEF Plain, Documents, Music, Entry, Unlisted, Many, Never, T, TI, TLA
<1> QED
    BY <1>1, <1>2, <1>3, <1>4, <1>5, <1>6

(* The speech tables are of another modality.                              *)
LEMMA SpeechEntries ==
    \A t \in SpeechTables : \A m \in DOMAIN t : t[m].kind = "audio"
<1> USE DEF Speech, Entry, Unlisted, Ends, Many, Never, T
<1>1. ASSUME NEW m \in DOMAIN AzureSpeech PROVE AzureSpeech[m].kind = "audio"
    <2>1. AzureSpeech[m] = Speech(Many, {})
        BY SMT DEF AzureSpeech
    <2> QED
        BY <2>1, SMT
<1>2. \A m \in DOMAIN OpenAISpeech : OpenAISpeech[m].kind = "audio"
    BY SMT DEF OpenAISpeech
<1>3. \A m \in DOMAIN ElevenSpeech : ElevenSpeech[m].kind = "audio"
    BY SMT DEF ElevenSpeech
<1>4. \A m \in DOMAIN MiniMaxSpeech : MiniMaxSpeech[m].kind = "audio"
    BY SMT DEF MiniMaxSpeech
<1> HIDE DEF Speech, Entry, Unlisted, Ends, Many, Never, T
<1> QED
    BY <1>1, <1>2, <1>3, <1>4 DEF SpeechTables

(* The kind of an entry is the one of the list its table is in.            *)
LEMMA ListKinds ==
    /\ \A t \in ImageTables : \A m \in DOMAIN t : t[m].kind = "image"
    /\ \A t \in VideoTables : \A m \in DOMAIN t : t[m].kind = "video"
    /\ \A t \in MusicTables : \A m \in DOMAIN t : t[m].kind = "music"
    /\ \A t \in SpeechTables : \A m \in DOMAIN t : t[m].kind = "audio"
<1>1. \A t \in ImageTables : \A m \in DOMAIN t : t[m].kind = "image"
    BY ImageEntries DEF ImageTables, Plain, Documents
<1>2. \A t \in VideoTables : \A m \in DOMAIN t : t[m].kind = "video"
    BY VideoEntries DEF VideoTables, Plain, Documents
<1>3. \A t \in MusicTables : \A m \in DOMAIN t : t[m].kind = "music"
    BY MusicEntries DEF MusicTables, Plain, Documents
<1> QED
    BY <1>1, <1>2, <1>3, SpeechEntries

(* What a table says of a model is what the merged tables say of it.       *)
LEMMA MergedAt ==
    ASSUME NEW tables, NEW t \in tables, NEW m \in DOMAIN t,
           \A u \in tables : m \in DOMAIN u => u = t
    PROVE  m \in DOMAIN Merged(tables) /\ Merged(tables)[m] = t[m]
<1>1. m \in UNION {DOMAIN u : u \in tables}
    OBVIOUS
<1>2. (CHOOSE u \in tables : m \in DOMAIN u) = t
    OBVIOUS
<1> QED
    BY <1>1, <1>2 DEF Merged

(* A merged table lists what one of its tables lists.                      *)
LEMMA MergedFrom ==
    ASSUME NEW tables, NEW m \in DOMAIN Merged(tables)
    PROVE  \E t \in tables : m \in DOMAIN t
BY DEF Merged

\* The three lists of tables a media request can be about, and the speech one.
MediaLists == {ImageTables, VideoTables, MusicTables}
Lists == MediaLists \cup {SpeechTables}

(* No two lists have a model in common.                                    *)
LEMMA OneList ==
    ASSUME NEW L \in MediaLists, NEW t \in L, NEW m \in DOMAIN t,
           NEW K \in Lists, NEW u \in K, m \in DOMAIN u
    PROVE  K = L /\ u = t
<1>1. OnlyTable(t)
    BY ImagesListedOnce, VideosListedOnce, MusicListedOnce DEF MediaLists
<1>2. u = t
    BY <1>1 DEF OnlyTable, AllTables, Lists, MediaLists
<1> QED
    BY <1>2, ListKinds DEF Lists, MediaLists

(* The catalogue says of a model what its table says.                      *)
LEMMA CatalogueAt ==
    ASSUME NEW L \in MediaLists, NEW t \in L, NEW m \in DOMAIN t
    PROVE  m \in DOMAIN Merged(L) /\ m \in DOMAIN Catalogue /\ Catalogue[m] = t[m]
<1> DEFINE Parts == {Images, Videos, Songs, Voices}
<1>1. Parts = {Merged(K) : K \in Lists}
    BY DEF Images, Videos, Songs, Voices, Lists, MediaLists
<1>2. \A u \in L : m \in DOMAIN u => u = t
    BY OneList DEF Lists
<1>3. m \in DOMAIN Merged(L) /\ Merged(L)[m] = t[m]
    BY <1>2, MergedAt
<1>4. ASSUME NEW P \in Parts, m \in DOMAIN P
      PROVE  P = Merged(L)
    <2>1. PICK K \in Lists : P = Merged(K)
        BY <1>1
    <2>2. PICK u \in K : m \in DOMAIN u
        BY <1>4, <2>1, MergedFrom
    <2> QED
        BY <2>1, <2>2, OneList
<1>5. Merged(L) \in Parts
    BY <1>1 DEF Lists
<1> HIDE DEF Parts
<1>6. m \in DOMAIN Merged(Parts) /\ Merged(Parts)[m] = Merged(L)[m]
    <2> DEFINE P == Merged(L)
    <2>1. P \in Parts /\ m \in DOMAIN P /\ \A Q \in Parts : m \in DOMAIN Q => Q = P
        BY <1>3, <1>4, <1>5
    <2> HIDE DEF P
    <2>2. m \in DOMAIN Merged(Parts) /\ Merged(Parts)[m] = P[m]
        BY <2>1, MergedAt
    <2> QED
        BY <2>2 DEF P
<1> QED
    BY <1>3, <1>6 DEF Catalogue, Parts

-----------------------------------------------------------------------------
(* Which adapter's body a model gets.                                      *)

(* The body of a video request, by the table that lists the model.         *)
LEMMA VideoDispatch ==
    ASSUME NEW r
    PROVE  /\ \A m \in DOMAIN SoraVideos : VideoBody(m, r) = SoraBody(r)
           /\ \A m \in DOMAIN Veo2And3Videos : VideoBody(m, r) = VeoBody(r)
           /\ \A m \in DOMAIN Veo31Previews : VideoBody(m, r) = VeoBody(r)
           /\ \A m \in DOMAIN Veo31Videos : VideoBody(m, r) = VeoBody(r)
           /\ \A m \in DOMAIN OmniVideos : VideoBody(m, r) = OmniBody(r)
           /\ \A m \in DOMAIN XaiVideos : VideoBody(m, r) = XaiVideoBody(r)
           /\ \A m \in DOMAIN StableVideos : VideoBody(m, r) = StableVideoBody(r)
           /\ \A m \in DOMAIN Seedance1Videos : VideoBody(m, r) = SeedanceBody(r, FALSE)
           /\ \A m \in DOMAIN Seedance2Videos : VideoBody(m, r) = SeedanceBody(r, TRUE)
           /\ \A m \in DOMAIN WanTextVideos : VideoBody(m, r) = WanVideoBody(r)
           /\ \A m \in DOMAIN WanImageVideos : VideoBody(m, r) = WanVideoBody(r)
           /\ \A m \in DOMAIN Wan3Videos : VideoBody(m, r) = Wan3Body(r)
           /\ \A m \in DOMAIN Wan27ImageVideos : VideoBody(m, r) = Wan27Body(r)
           /\ \A m \in DOMAIN HappyHorseVideos : VideoBody(m, r) = HappyHorseBody(r, m)
           /\ \A m \in DOMAIN MiniMaxVideos : VideoBody(m, r) = MiniMaxVideoBody(r)
           /\ \A m : m \notin DOMAIN Catalogue => VideoBody(m, r) = OpenRouterVideoBody(r)
<1>1. ASSUME NEW m \in DOMAIN SoraVideos PROVE VideoBody(m, r) = SoraBody(r)
    <2>1. m \notin DOMAIN Veo2And3Videos \cup DOMAIN Veo31Previews \cup
                DOMAIN Veo31Videos \cup DOMAIN OmniVideos \cup DOMAIN XaiVideos \cup
                DOMAIN StableVideos \cup DOMAIN Seedance1Videos \cup
                DOMAIN Seedance2Videos \cup DOMAIN WanTextVideos \cup
                DOMAIN WanImageVideos \cup DOMAIN Wan3Videos \cup
                DOMAIN Wan27ImageVideos \cup DOMAIN HappyHorseVideos \cup
                DOMAIN MiniMaxVideos
        BY VideoNames, SMTT(30)
    <2> QED
        BY <2>1, Zenon DEF VideoBody
<1>2. ASSUME NEW m \in DOMAIN Veo2And3Videos PROVE VideoBody(m, r) = VeoBody(r)
    <2>1. m \notin DOMAIN SoraVideos \cup DOMAIN Veo31Previews \cup
                DOMAIN Veo31Videos \cup DOMAIN OmniVideos \cup DOMAIN XaiVideos \cup
                DOMAIN StableVideos \cup DOMAIN Seedance1Videos \cup
                DOMAIN Seedance2Videos \cup DOMAIN WanTextVideos \cup
                DOMAIN WanImageVideos \cup DOMAIN Wan3Videos \cup
                DOMAIN Wan27ImageVideos \cup DOMAIN HappyHorseVideos \cup
                DOMAIN MiniMaxVideos
        BY VideoNames, SMTT(30)
    <2> QED
        BY <2>1, Zenon DEF VideoBody
<1>3. ASSUME NEW m \in DOMAIN Veo31Previews PROVE VideoBody(m, r) = VeoBody(r)
    <2>1. m \notin DOMAIN SoraVideos \cup DOMAIN Veo2And3Videos \cup
                DOMAIN Veo31Videos \cup DOMAIN OmniVideos \cup DOMAIN XaiVideos \cup
                DOMAIN StableVideos \cup DOMAIN Seedance1Videos \cup
                DOMAIN Seedance2Videos \cup DOMAIN WanTextVideos \cup
                DOMAIN WanImageVideos \cup DOMAIN Wan3Videos \cup
                DOMAIN Wan27ImageVideos \cup DOMAIN HappyHorseVideos \cup
                DOMAIN MiniMaxVideos
        BY VideoNames, SMTT(30)
    <2> QED
        BY <2>1, Zenon DEF VideoBody
<1>4. ASSUME NEW m \in DOMAIN Veo31Videos PROVE VideoBody(m, r) = VeoBody(r)
    <2>1. m \notin DOMAIN SoraVideos \cup DOMAIN Veo2And3Videos \cup
                DOMAIN Veo31Previews \cup DOMAIN OmniVideos \cup
                DOMAIN XaiVideos \cup DOMAIN StableVideos \cup
                DOMAIN Seedance1Videos \cup DOMAIN Seedance2Videos \cup
                DOMAIN WanTextVideos \cup DOMAIN WanImageVideos \cup
                DOMAIN Wan3Videos \cup DOMAIN Wan27ImageVideos \cup
                DOMAIN HappyHorseVideos \cup DOMAIN MiniMaxVideos
        BY VideoNames, SMTT(30)
    <2> QED
        BY <2>1, Zenon DEF VideoBody
<1>5. ASSUME NEW m \in DOMAIN OmniVideos PROVE VideoBody(m, r) = OmniBody(r)
    <2>1. m \notin DOMAIN SoraVideos \cup DOMAIN Veo2And3Videos \cup
                DOMAIN Veo31Previews \cup DOMAIN Veo31Videos \cup
                DOMAIN XaiVideos \cup DOMAIN StableVideos \cup
                DOMAIN Seedance1Videos \cup DOMAIN Seedance2Videos \cup
                DOMAIN WanTextVideos \cup DOMAIN WanImageVideos \cup
                DOMAIN Wan3Videos \cup DOMAIN Wan27ImageVideos \cup
                DOMAIN HappyHorseVideos \cup DOMAIN MiniMaxVideos
        BY VideoNames, SMTT(30)
    <2> QED
        BY <2>1, Zenon DEF VideoBody
<1>6. ASSUME NEW m \in DOMAIN XaiVideos PROVE VideoBody(m, r) = XaiVideoBody(r)
    <2>1. m \notin DOMAIN SoraVideos \cup DOMAIN Veo2And3Videos \cup
                DOMAIN Veo31Previews \cup DOMAIN Veo31Videos \cup
                DOMAIN OmniVideos \cup DOMAIN StableVideos \cup
                DOMAIN Seedance1Videos \cup DOMAIN Seedance2Videos \cup
                DOMAIN WanTextVideos \cup DOMAIN WanImageVideos \cup
                DOMAIN Wan3Videos \cup DOMAIN Wan27ImageVideos \cup
                DOMAIN HappyHorseVideos \cup DOMAIN MiniMaxVideos
        BY VideoNames, SMTT(30)
    <2> QED
        BY <2>1, Zenon DEF VideoBody
<1>7. ASSUME NEW m \in DOMAIN StableVideos PROVE VideoBody(m, r) = StableVideoBody(r)
    <2>1. m \notin DOMAIN SoraVideos \cup DOMAIN Veo2And3Videos \cup
                DOMAIN Veo31Previews \cup DOMAIN Veo31Videos \cup
                DOMAIN OmniVideos \cup DOMAIN XaiVideos \cup
                DOMAIN Seedance1Videos \cup DOMAIN Seedance2Videos \cup
                DOMAIN WanTextVideos \cup DOMAIN WanImageVideos \cup
                DOMAIN Wan3Videos \cup DOMAIN Wan27ImageVideos \cup
                DOMAIN HappyHorseVideos \cup DOMAIN MiniMaxVideos
        BY VideoNames, SMTT(30)
    <2> QED
        BY <2>1, Zenon DEF VideoBody
<1>8. ASSUME NEW m \in DOMAIN Seedance1Videos PROVE VideoBody(m, r) = SeedanceBody(r, FALSE)
    <2>1. m \notin DOMAIN SoraVideos \cup DOMAIN Veo2And3Videos \cup
                DOMAIN Veo31Previews \cup DOMAIN Veo31Videos \cup
                DOMAIN OmniVideos \cup DOMAIN XaiVideos \cup DOMAIN StableVideos \cup
                DOMAIN Seedance2Videos \cup DOMAIN WanTextVideos \cup
                DOMAIN WanImageVideos \cup DOMAIN Wan3Videos \cup
                DOMAIN Wan27ImageVideos \cup DOMAIN HappyHorseVideos \cup
                DOMAIN MiniMaxVideos
        BY VideoNames, SMTT(30)
    <2> QED
        BY <2>1, Zenon DEF VideoBody
<1>9. ASSUME NEW m \in DOMAIN Seedance2Videos PROVE VideoBody(m, r) = SeedanceBody(r, TRUE)
    <2>1. m \notin DOMAIN SoraVideos \cup DOMAIN Veo2And3Videos \cup
                DOMAIN Veo31Previews \cup DOMAIN Veo31Videos \cup
                DOMAIN OmniVideos \cup DOMAIN XaiVideos \cup DOMAIN StableVideos \cup
                DOMAIN Seedance1Videos \cup DOMAIN WanTextVideos \cup
                DOMAIN WanImageVideos \cup DOMAIN Wan3Videos \cup
                DOMAIN Wan27ImageVideos \cup DOMAIN HappyHorseVideos \cup
                DOMAIN MiniMaxVideos
        BY VideoNames, SMTT(30)
    <2> QED
        BY <2>1, Zenon DEF VideoBody
<1>10. ASSUME NEW m \in DOMAIN WanTextVideos PROVE VideoBody(m, r) = WanVideoBody(r)
    <2>1. m \notin DOMAIN SoraVideos \cup DOMAIN Veo2And3Videos \cup
                DOMAIN Veo31Previews \cup DOMAIN Veo31Videos \cup
                DOMAIN OmniVideos \cup DOMAIN XaiVideos \cup DOMAIN StableVideos \cup
                DOMAIN Seedance1Videos \cup DOMAIN Seedance2Videos \cup
                DOMAIN WanImageVideos \cup DOMAIN Wan3Videos \cup
                DOMAIN Wan27ImageVideos \cup DOMAIN HappyHorseVideos \cup
                DOMAIN MiniMaxVideos
        BY VideoNames, SMTT(30)
    <2> QED
        BY <2>1, Zenon DEF VideoBody
<1>11. ASSUME NEW m \in DOMAIN WanImageVideos PROVE VideoBody(m, r) = WanVideoBody(r)
    <2>1. m \notin DOMAIN SoraVideos \cup DOMAIN Veo2And3Videos \cup
                DOMAIN Veo31Previews \cup DOMAIN Veo31Videos \cup
                DOMAIN OmniVideos \cup DOMAIN XaiVideos \cup DOMAIN StableVideos \cup
                DOMAIN Seedance1Videos \cup DOMAIN Seedance2Videos \cup
                DOMAIN WanTextVideos \cup DOMAIN Wan3Videos \cup
                DOMAIN Wan27ImageVideos \cup DOMAIN HappyHorseVideos \cup
                DOMAIN MiniMaxVideos
        BY VideoNames, SMTT(30)
    <2> QED
        BY <2>1, Zenon DEF VideoBody
<1>12. ASSUME NEW m \in DOMAIN Wan3Videos PROVE VideoBody(m, r) = Wan3Body(r)
    <2>1. m \notin DOMAIN SoraVideos \cup DOMAIN Veo2And3Videos \cup
                DOMAIN Veo31Previews \cup DOMAIN Veo31Videos \cup
                DOMAIN OmniVideos \cup DOMAIN XaiVideos \cup DOMAIN StableVideos \cup
                DOMAIN Seedance1Videos \cup DOMAIN Seedance2Videos \cup
                DOMAIN WanTextVideos \cup DOMAIN WanImageVideos \cup
                DOMAIN Wan27ImageVideos \cup DOMAIN HappyHorseVideos \cup
                DOMAIN MiniMaxVideos
        BY VideoNames, SMTT(30)
    <2> QED
        BY <2>1, Zenon DEF VideoBody
<1>13. ASSUME NEW m \in DOMAIN Wan27ImageVideos PROVE VideoBody(m, r) = Wan27Body(r)
    <2>1. m \notin DOMAIN SoraVideos \cup DOMAIN Veo2And3Videos \cup
                DOMAIN Veo31Previews \cup DOMAIN Veo31Videos \cup
                DOMAIN OmniVideos \cup DOMAIN XaiVideos \cup DOMAIN StableVideos \cup
                DOMAIN Seedance1Videos \cup DOMAIN Seedance2Videos \cup
                DOMAIN WanTextVideos \cup DOMAIN WanImageVideos \cup
                DOMAIN Wan3Videos \cup DOMAIN HappyHorseVideos \cup
                DOMAIN MiniMaxVideos
        BY VideoNames, SMTT(30)
    <2> QED
        BY <2>1, Zenon DEF VideoBody
<1>14. ASSUME NEW m \in DOMAIN HappyHorseVideos PROVE VideoBody(m, r) = HappyHorseBody(r, m)
    <2>1. m \notin DOMAIN SoraVideos \cup DOMAIN Veo2And3Videos \cup
                DOMAIN Veo31Previews \cup DOMAIN Veo31Videos \cup
                DOMAIN OmniVideos \cup DOMAIN XaiVideos \cup DOMAIN StableVideos \cup
                DOMAIN Seedance1Videos \cup DOMAIN Seedance2Videos \cup
                DOMAIN WanTextVideos \cup DOMAIN WanImageVideos \cup
                DOMAIN Wan3Videos \cup DOMAIN Wan27ImageVideos \cup
                DOMAIN MiniMaxVideos
        BY VideoNames, SMTT(30)
    <2> QED
        BY <2>1, Zenon DEF VideoBody
<1>15. ASSUME NEW m \in DOMAIN MiniMaxVideos PROVE VideoBody(m, r) = MiniMaxVideoBody(r)
    <2>1. m \notin DOMAIN SoraVideos \cup DOMAIN Veo2And3Videos \cup
                DOMAIN Veo31Previews \cup DOMAIN Veo31Videos \cup
                DOMAIN OmniVideos \cup DOMAIN XaiVideos \cup DOMAIN StableVideos \cup
                DOMAIN Seedance1Videos \cup DOMAIN Seedance2Videos \cup
                DOMAIN WanTextVideos \cup DOMAIN WanImageVideos \cup
                DOMAIN Wan3Videos \cup DOMAIN Wan27ImageVideos \cup
                DOMAIN HappyHorseVideos
        BY VideoNames, SMTT(30)
    <2> QED
        BY <2>1, Zenon DEF VideoBody
<1>16. ASSUME NEW m, m \notin DOMAIN Catalogue PROVE VideoBody(m, r) = OpenRouterVideoBody(r)
    <2>1. \A t \in VideoTables : m \notin DOMAIN t
        BY <1>16, CatalogueAt DEF MediaLists
    <2> QED
        BY <2>1, VideoNames, SMT DEF VideoBody, VideoTables
<1> QED
    BY <1>1, <1>2, <1>3, <1>4, <1>5, <1>6, <1>7, <1>8, <1>9, <1>10, <1>11,
       <1>12, <1>13, <1>14, <1>15, <1>16

(* The body of an image request, by the table that lists the model.        *)
LEMMA ImageDispatch ==
    ASSUME NEW r
    PROVE  /\ \A m \in DOMAIN OpenAIImages : ImageBody(m, r) = OpenAIImageBody(r)
           /\ \A m \in DOMAIN ImagenImages : ImageBody(m, r) = ImagenBody(r)
           /\ \A m \in DOMAIN GeminiImages : ImageBody(m, r) = GeminiImageBody(r)
           /\ \A m \in DOMAIN XaiImages : ImageBody(m, r) = XaiImageBody(r)
           /\ \A m \in DOMAIN StabilityImages : ImageBody(m, r) = StabilityImageBody(r)
           /\ \A m \in DOMAIN FluxImages : ImageBody(m, r) = FluxImageBody(r)
           /\ \A m \in DOMAIN SeedreamImages : ImageBody(m, r) = SeedreamBody(r)
           /\ \A m \in DOMAIN WanImages : ImageBody(m, r) = (IF m \in GenerationModels THEN WanGenerationBody(r) ELSE WanSynthesisBody(r))
           /\ \A m \in DOMAIN QwenImages : ImageBody(m, r) = WanSynthesisBody(r)
           /\ \A m : m \notin DOMAIN Catalogue => ImageBody(m, r) = OpenRouterImageBody(r)
<1>1. ASSUME NEW m \in DOMAIN OpenAIImages PROVE ImageBody(m, r) = OpenAIImageBody(r)
    <2>1. m \notin DOMAIN ImagenImages \cup DOMAIN GeminiImages \cup
                DOMAIN XaiImages \cup DOMAIN StabilityImages \cup
                DOMAIN FluxImages \cup DOMAIN SeedreamImages \cup
                DOMAIN WanImages \cup DOMAIN QwenImages
        BY ImageNames, SMTT(30)
    <2>2. m \in GenerationModels => m \in DOMAIN WanImages
        BY ImageNames DEF GenerationModels
    <2> QED
        BY <2>1, <2>2, SMT DEF ImageBody
<1>2. ASSUME NEW m \in DOMAIN ImagenImages PROVE ImageBody(m, r) = ImagenBody(r)
    <2>1. m \notin DOMAIN OpenAIImages \cup DOMAIN GeminiImages \cup
                DOMAIN XaiImages \cup DOMAIN StabilityImages \cup
                DOMAIN FluxImages \cup DOMAIN SeedreamImages \cup
                DOMAIN WanImages \cup DOMAIN QwenImages
        BY ImageNames, SMTT(30)
    <2>2. m \in GenerationModels => m \in DOMAIN WanImages
        BY ImageNames DEF GenerationModels
    <2> QED
        BY <2>1, <2>2, SMT DEF ImageBody
<1>3. ASSUME NEW m \in DOMAIN GeminiImages PROVE ImageBody(m, r) = GeminiImageBody(r)
    <2>1. m \notin DOMAIN OpenAIImages \cup DOMAIN ImagenImages \cup
                DOMAIN XaiImages \cup DOMAIN StabilityImages \cup
                DOMAIN FluxImages \cup DOMAIN SeedreamImages \cup
                DOMAIN WanImages \cup DOMAIN QwenImages
        BY ImageNames, SMTT(30)
    <2>2. m \in GenerationModels => m \in DOMAIN WanImages
        BY ImageNames DEF GenerationModels
    <2> QED
        BY <2>1, <2>2, SMT DEF ImageBody
<1>4. ASSUME NEW m \in DOMAIN XaiImages PROVE ImageBody(m, r) = XaiImageBody(r)
    <2>1. m \notin DOMAIN OpenAIImages \cup DOMAIN ImagenImages \cup
                DOMAIN GeminiImages \cup DOMAIN StabilityImages \cup
                DOMAIN FluxImages \cup DOMAIN SeedreamImages \cup
                DOMAIN WanImages \cup DOMAIN QwenImages
        BY ImageNames, SMTT(30)
    <2>2. m \in GenerationModels => m \in DOMAIN WanImages
        BY ImageNames DEF GenerationModels
    <2> QED
        BY <2>1, <2>2, SMT DEF ImageBody
<1>5. ASSUME NEW m \in DOMAIN StabilityImages PROVE ImageBody(m, r) = StabilityImageBody(r)
    <2>1. m \notin DOMAIN OpenAIImages \cup DOMAIN ImagenImages \cup
                DOMAIN GeminiImages \cup DOMAIN XaiImages \cup DOMAIN FluxImages \cup
                DOMAIN SeedreamImages \cup DOMAIN WanImages \cup DOMAIN QwenImages
        BY ImageNames, SMTT(30)
    <2>2. m \in GenerationModels => m \in DOMAIN WanImages
        BY ImageNames DEF GenerationModels
    <2> QED
        BY <2>1, <2>2, SMT DEF ImageBody
<1>6. ASSUME NEW m \in DOMAIN FluxImages PROVE ImageBody(m, r) = FluxImageBody(r)
    <2>1. m \notin DOMAIN OpenAIImages \cup DOMAIN ImagenImages \cup
                DOMAIN GeminiImages \cup DOMAIN XaiImages \cup
                DOMAIN StabilityImages \cup DOMAIN SeedreamImages \cup
                DOMAIN WanImages \cup DOMAIN QwenImages
        BY ImageNames, SMTT(30)
    <2>2. m \in GenerationModels => m \in DOMAIN WanImages
        BY ImageNames DEF GenerationModels
    <2> QED
        BY <2>1, <2>2, SMT DEF ImageBody
<1>7. ASSUME NEW m \in DOMAIN SeedreamImages PROVE ImageBody(m, r) = SeedreamBody(r)
    <2>1. m \notin DOMAIN OpenAIImages \cup DOMAIN ImagenImages \cup
                DOMAIN GeminiImages \cup DOMAIN XaiImages \cup
                DOMAIN StabilityImages \cup DOMAIN FluxImages \cup
                DOMAIN WanImages \cup DOMAIN QwenImages
        BY ImageNames, SMTT(30)
    <2>2. m \in GenerationModels => m \in DOMAIN WanImages
        BY ImageNames DEF GenerationModels
    <2> QED
        BY <2>1, <2>2, SMT DEF ImageBody
<1>8. ASSUME NEW m \in DOMAIN WanImages PROVE ImageBody(m, r) = (IF m \in GenerationModels THEN WanGenerationBody(r) ELSE WanSynthesisBody(r))
    <2>1. m \notin DOMAIN OpenAIImages \cup DOMAIN ImagenImages \cup
                DOMAIN GeminiImages \cup DOMAIN XaiImages \cup
                DOMAIN StabilityImages \cup DOMAIN FluxImages \cup
                DOMAIN SeedreamImages \cup DOMAIN QwenImages
        BY ImageNames, SMTT(30)
    <2>2. m \in GenerationModels => m \in DOMAIN WanImages
        BY ImageNames DEF GenerationModels
    <2> QED
        BY <2>1, <2>2, SMT DEF ImageBody
<1>9. ASSUME NEW m \in DOMAIN QwenImages PROVE ImageBody(m, r) = WanSynthesisBody(r)
    <2>1. m \notin DOMAIN OpenAIImages \cup DOMAIN ImagenImages \cup
                DOMAIN GeminiImages \cup DOMAIN XaiImages \cup
                DOMAIN StabilityImages \cup DOMAIN FluxImages \cup
                DOMAIN SeedreamImages \cup DOMAIN WanImages
        BY ImageNames, SMTT(30)
    <2>2. m \in GenerationModels => m \in DOMAIN WanImages
        BY ImageNames DEF GenerationModels
    <2> QED
        BY <2>1, <2>2, SMT DEF ImageBody
<1>10. ASSUME NEW m, m \notin DOMAIN Catalogue PROVE ImageBody(m, r) = OpenRouterImageBody(r)
    <2>1. \A t \in ImageTables : m \notin DOMAIN t
        BY <1>10, CatalogueAt DEF MediaLists
    <2> QED
        BY <2>1, ImageNames, SMT DEF ImageBody, ImageTables, GenerationModels
<1> QED
    BY <1>1, <1>2, <1>3, <1>4, <1>5, <1>6, <1>7, <1>8, <1>9, <1>10

(* The body of a song request, by the table that lists the model.          *)
LEMMA MusicDispatch ==
    ASSUME NEW r
    PROVE  /\ \A m \in DOMAIN LyriaMusic : MusicBody(m, r) = LyriaBody(r)
           /\ \A m \in DOMAIN MiniMaxMusic : MusicBody(m, r) = MiniMaxMusicBody(r)
           /\ \A m \in DOMAIN ElevenMusic : MusicBody(m, r) = ElevenMusicBody(r)
           /\ \A m \in DOMAIN ChirpMusic : MusicBody(m, r) = ChirpBody(r)
           /\ \A m \in DOMAIN MurekaMusic : MusicBody(m, r) = MurekaBody(r)
           /\ \A m \in DOMAIN AceStepMusic : MusicBody(m, r) = AceStepBody(r)
<1>1. ASSUME NEW m \in DOMAIN LyriaMusic PROVE MusicBody(m, r) = LyriaBody(r)
    <2>1. m \notin DOMAIN MiniMaxMusic \cup DOMAIN ElevenMusic \cup
                DOMAIN ChirpMusic \cup DOMAIN MurekaMusic \cup DOMAIN AceStepMusic
        BY MusicNames, SMTT(30)
    <2> QED
        BY <2>1, Zenon DEF MusicBody
<1>2. ASSUME NEW m \in DOMAIN MiniMaxMusic PROVE MusicBody(m, r) = MiniMaxMusicBody(r)
    <2>1. m \notin DOMAIN LyriaMusic \cup DOMAIN ElevenMusic \cup DOMAIN ChirpMusic \cup
                DOMAIN MurekaMusic \cup DOMAIN AceStepMusic
        BY MusicNames, SMTT(30)
    <2> QED
        BY <2>1, Zenon DEF MusicBody
<1>3. ASSUME NEW m \in DOMAIN ElevenMusic PROVE MusicBody(m, r) = ElevenMusicBody(r)
    <2>1. m \notin DOMAIN LyriaMusic \cup DOMAIN MiniMaxMusic \cup
                DOMAIN ChirpMusic \cup DOMAIN MurekaMusic \cup DOMAIN AceStepMusic
        BY MusicNames, SMTT(30)
    <2> QED
        BY <2>1, Zenon DEF MusicBody
<1>4. ASSUME NEW m \in DOMAIN ChirpMusic PROVE MusicBody(m, r) = ChirpBody(r)
    <2>1. m \notin DOMAIN LyriaMusic \cup DOMAIN MiniMaxMusic \cup
                DOMAIN ElevenMusic \cup DOMAIN MurekaMusic \cup DOMAIN AceStepMusic
        BY MusicNames, SMTT(30)
    <2> QED
        BY <2>1, Zenon DEF MusicBody
<1>5. ASSUME NEW m \in DOMAIN MurekaMusic PROVE MusicBody(m, r) = MurekaBody(r)
    <2>1. m \notin DOMAIN LyriaMusic \cup DOMAIN MiniMaxMusic \cup
                DOMAIN ElevenMusic \cup DOMAIN ChirpMusic \cup DOMAIN AceStepMusic
        BY MusicNames, SMTT(30)
    <2> QED
        BY <2>1, Zenon DEF MusicBody
<1>6. ASSUME NEW m \in DOMAIN AceStepMusic PROVE MusicBody(m, r) = AceStepBody(r)
    <2>1. m \notin DOMAIN LyriaMusic \cup DOMAIN MiniMaxMusic \cup
                DOMAIN ElevenMusic \cup DOMAIN ChirpMusic \cup DOMAIN MurekaMusic
        BY MusicNames, SMTT(30)
    <2> QED
        BY <2>1, Zenon DEF MusicBody
<1> QED
    BY <1>1, <1>2, <1>3, <1>4, <1>5, <1>6

-----------------------------------------------------------------------------
(* Lengths.                                                                *)

(* The request's fields.                                                   *)
LEMMA RequestTypes ==
    ASSUME NEW r \in Requests
    PROVE  /\ r.kind \in {"image", "video", "music"}
           /\ r.n \in Nat /\ r.halves \in Nat /\ r.videos \in Nat
           /\ r.images \in Seq(Frames \cup {"reference_image", "image_to_image"})
           /\ r.audios \in Seq({"reference_audio", "continuation_audio"})
<1> DEFINE Roles == Frames \cup {"reference_image", "image_to_image"}
           Heards == {"reference_audio", "continuation_audio"}
<1>1. \A s : s \in Seq({"image_to_image"}) \cup Seq(Frames \cup {"reference_image"})
                     \cup Seq({"reference_image"}) => s \in Seq(Roles)
    BY Z3
<1>2. <<>> \in Seq(Heards) /\ \A s \in Seq({"reference_audio"}) : s \in Seq(Heards)
    BY Z3
<1> HIDE DEF Roles, Heards
<1> DEFINE I == [kind : {"image"}, n : Nat, lyrics : {FALSE}, sound : {"unset"},
                 images : Seq({"image_to_image"}), videos : {0}, audios : {<<>>}, halves : {0}]
           V == [kind : {"video"}, n : {0}, lyrics : {FALSE}, sound : {"unset", "on", "off"},
                 images : Seq(Frames \cup {"reference_image"}), videos : Nat,
                 audios : Seq({"reference_audio"}), halves : Nat]
           M == [kind : {"music"}, n : Nat, lyrics : BOOLEAN, sound : {"unset"},
                 images : Seq({"reference_image"}), videos : {0},
                 audios : Seq({"reference_audio", "continuation_audio"}), halves : Nat]
<1>3. r \in I \/ r \in V \/ r \in M
    <2> HIDE DEF I, V, M
    <2>1. Requests \subseteq I \cup V \cup M
        BY RequestsAssumption DEF I, V, M
    <2> QED
        BY <2>1
<1>4. CASE r \in I
    <2>1. /\ r.kind = "image" /\ r.n \in Nat /\ r.halves = 0 /\ r.videos = 0
          /\ r.images \in Seq({"image_to_image"}) /\ r.audios = <<>>
        BY <1>4
    <2>2. r.images \in Seq(Roles) /\ r.audios \in Seq(Heards)
        BY <1>1, <1>2, <2>1
    <2> QED
        BY <2>1, <2>2 DEF Roles, Heards
<1>5. CASE r \in V
    BY <1>1, <1>2, <1>5 DEF Roles, Heards
<1>6. CASE r \in M
    BY <1>1, <1>2, <1>6 DEF Roles, Heards
<1> HIDE DEF I, V, M
<1> QED
    BY <1>3, <1>4, <1>5, <1>6 DEF Roles, Heards

\* The lengths an adapter can ask for.
LengthOf(e, r, h) ==
    \/ h \in {0, r.halves, Truncated(r.halves)}
    \/ h = ClampedLength(e.shortest, e.longest, r)
    \/ r.halves # 0 /\ h = Clamped(e.shortest, e.longest, r.halves)

(* Truncation and rounding stay between the even bounds of the range.      *)
LEMMA Rounding ==
    ASSUME NEW h \in Nat
    PROVE  /\ Truncated(h) \in Nat /\ Truncated(h) <= h
           /\ Rounded(h) \in Nat /\ Rounded(h) <= h + 1
           /\ \A low \in Nat : 2 * low <= h => 2 * low <= Truncated(h) /\ 2 * low <= Rounded(h)
           /\ \A high \in Nat : h <= 2 * high => Rounded(h) <= 2 * high
<1>1. PICK k \in Nat : h \div 2 = k /\ (h = 2 * k \/ h = 2 * k + 1)
    BY Z3
<1>2. Truncated(h) = 2 * k
    BY <1>1 DEF Truncated
<1>3. Rounded(h) \in {2 * k, 2 * k + 2} /\ (h = 2 * k => Rounded(h) = 2 * k)
    BY <1>1, Z3 DEF Rounded
<1> QED
    BY <1>1, <1>2, <1>3, Z3

(* A length sent for a request that fits is documented and billed.         *)
LEMMA LengthKept ==
    ASSUME NEW r, NEW e, r.halves \in Nat, e.shortest \in Nat, e.longest \in Nat,
           Fits(r, e), NEW h, LengthOf(e, r, h), h # 0
    PROVE  /\ h \in 2 * e.shortest .. 2 * e.longest
           /\ h <= BilledHalves(r, e) + 1
<1> DEFINE low == e.shortest
           high == e.longest
           n == r.halves
<1>1. low \in Nat /\ high \in Nat /\ n \in Nat
    OBVIOUS
<1>2. n # 0 => n \in 2 * low .. 2 * high
    BY DEF Fits
<1>3. \/ h \in {0, n, Truncated(n)}
      \/ h = ClampedLength(low, high, r)
      \/ n # 0 /\ h = Clamped(low, high, n)
    BY DEF LengthOf
<1>4. n # 0 /\ ClampedLength(low, high, r) = Clamped(low, high, Rounded(n))
    <2>1. n = 0 => ClampedLength(low, high, r) = 0 /\ Truncated(n) = 0
        BY SMT DEF ClampedLength, Truncated
    <2>2. n # 0 => ClampedLength(low, high, r) = Clamped(low, high, Rounded(n))
        BY SMT DEF ClampedLength
    <2> QED
        BY <1>3, <2>1, <2>2
<1>5. BilledHalves(r, e) = n
    BY <1>4 DEF BilledHalves
<1> HIDE DEF low, high, n
<1>6. n \in 2 * low .. 2 * high
    BY <1>2, <1>4
<1>7. /\ Truncated(n) \in 2 * low .. 2 * high /\ Truncated(n) <= n
      /\ Rounded(n) \in 2 * low .. 2 * high /\ Rounded(n) <= n + 1
    BY <1>1, <1>6, Rounding, Z3
<1>8. Clamped(low, high, n) = n /\ Clamped(low, high, Rounded(n)) = Rounded(n)
    BY <1>1, <1>6, <1>7, Z3 DEF Clamped
<1>9. h \in {n, Truncated(n), Rounded(n)}
    BY <1>3, <1>4, <1>8
<1> QED
    BY <1>1, <1>5, <1>6, <1>7, <1>9, Z3 DEF low, high

(* The length sent is a number.                                            *)
LEMMA LengthTypes ==
    ASSUME NEW r, NEW e, r.halves \in Nat, e.shortest \in Nat, e.longest \in Nat,
           NEW h, LengthOf(e, r, h)
    PROVE  h \in Nat
<1>1. Truncated(r.halves) \in Nat /\ Rounded(r.halves) \in Nat
    BY Rounding
<1>2. \A x \in Nat : Clamped(e.shortest, e.longest, x) \in Nat
    BY Z3 DEF Clamped
<1> QED
    BY <1>1, <1>2 DEF LengthOf, ClampedLength


-----------------------------------------------------------------------------
(* Parts.                                                                  *)

(* The parts of a request, by their roles.                                 *)
LEMMA GivenParts ==
    ASSUME NEW r, NEW p
    PROVE  p \in Given(r) <=>
              \/ \E role \in Frames \cup {"reference_image", "image_to_image"} : p \in Tagged(r, role)
              \/ p \in Clips(r)
              \/ p \in AudioParts(r, "reference_audio")
              \/ p \in AudioParts(r, "continuation_audio")
BY DEF Given

(* What a part of a request is.                                            *)
LEMMA PartShape ==
    ASSUME NEW r \in Requests, NEW p \in Given(r)
    PROVE  /\ \/ p[1] = "image" /\ p \in Tagged(r, p[3])
                 /\ p[3] \in Frames \cup {"reference_image", "image_to_image"}
              \/ p[1] = "video" /\ p \in Clips(r) /\ p[3] = "reference_video"
              \/ p[1] = "audio" /\ p \in AudioParts(r, p[3])
                 /\ p[3] \in {"reference_audio", "continuation_audio"}
           /\ p[2] \in Nat \ {0}
<1> DEFINE Roles == Frames \cup {"reference_image", "image_to_image"}
<1>0. r.videos \in Nat /\ DOMAIN r.images \subseteq Nat \ {0} /\ DOMAIN r.audios \subseteq Nat \ {0}
    <2>1. r.videos \in Nat /\ r.images \in Seq(Roles)
          /\ r.audios \in Seq({"reference_audio", "continuation_audio"})
        BY RequestTypes
    <2> QED
        BY <2>1
<1>1. ASSUME NEW role \in Roles, p \in Tagged(r, role)
      PROVE  p[1] = "image" /\ p[3] = role /\ p[2] \in Nat \ {0}
    BY <1>0, <1>1 DEF Tagged
<1>2. ASSUME p \in Clips(r)
      PROVE  p[1] = "video" /\ p[3] = "reference_video" /\ p[2] \in Nat \ {0}
    BY <1>0, <1>2 DEF Clips
<1>3. ASSUME NEW role, p \in AudioParts(r, role)
      PROVE  p[1] = "audio" /\ p[3] = role /\ p[2] \in Nat \ {0}
    BY <1>0, <1>3 DEF AudioParts
<1>4. \/ \E role \in Roles : p \in Tagged(r, role)
      \/ p \in Clips(r)
      \/ p \in AudioParts(r, "reference_audio")
      \/ p \in AudioParts(r, "continuation_audio")
    BY GivenParts
<1>5. CASE \E role \in Roles : p \in Tagged(r, role)
    BY <1>1, <1>5
<1>6. CASE p \in Clips(r)
    BY <1>2, <1>6
<1>7. CASE p \in AudioParts(r, "reference_audio") \cup AudioParts(r, "continuation_audio")
    BY <1>3, <1>7
<1> QED
    BY <1>4, <1>5, <1>6, <1>7

(* The parts an adapter picks are parts of the request.                    *)
LEMMA Picked ==
    ASSUME NEW r
    PROVE  /\ \A role \in Frames \cup {"reference_image", "image_to_image"} : Tagged(r, role) \subseteq Given(r)
           /\ Clips(r) \subseteq Given(r)
           /\ \A role \in {"reference_audio", "continuation_audio"} : AudioParts(r, role) \subseteq Given(r)
           /\ \A items, k : FirstOf(items, k) \subseteq items
           /\ LastImage(r) \subseteq Given(r)
           /\ FramesOverReferences(r) \subseteq Given(r)
<1>1. \A role \in Frames \cup {"reference_image", "image_to_image"} : Tagged(r, role) \subseteq Given(r)
    BY GivenParts
<1>2. Clips(r) \subseteq Given(r)
    BY GivenParts
<1>3. \A role \in {"reference_audio", "continuation_audio"} : AudioParts(r, role) \subseteq Given(r)
    BY GivenParts
<1>4. \A items, k : FirstOf(items, k) \subseteq items
    BY DEF FirstOf
<1>5. Tagged(r, "first_frame") \subseteq Given(r) /\ Tagged(r, "last_frame") \subseteq Given(r)
    BY <1>1 DEF Frames
<1>6. LastImage(r) \subseteq Given(r)
    BY <1>4, <1>5 DEF LastImage
<1>7. FramesOverReferences(r) \subseteq Given(r)
    BY <1>5 DEF FramesOverReferences
<1> QED
    BY <1>1, <1>2, <1>3, <1>4, <1>6, <1>7

(* The image animated: a part tagged so, or else any image in that role.   *)
LEMMA Animated ==
    ASSUME NEW r \in Requests
    PROVE  /\ \A p \in FirstImage(r) : p[1] = "image" /\ p[2] \in Nat /\ p[3] = "first_frame"
           /\ Tagged(r, "first_frame") # {} => FirstImage(r) = FirstOf(Tagged(r, "first_frame"), 1)
<1>1. DOMAIN r.images \subseteq Nat
    <2>1. r.images \in Seq(Frames \cup {"reference_image", "image_to_image"})
        BY RequestTypes
    <2> QED
        BY <2>1
<1>2. FirstImage(r) \subseteq Tagged(r, "first_frame") \cup AnyImage(r, "first_frame")
    BY Picked DEF FirstImage
<1>3. \A p \in AnyImage(r, "first_frame") : p[1] = "image" /\ p[2] \in Nat /\ p[3] = "first_frame"
    BY <1>1 DEF AnyImage
<1>4. \A p \in Tagged(r, "first_frame") : p[1] = "image" /\ p[2] \in Nat /\ p[3] = "first_frame"
    BY <1>1 DEF Tagged
<1>5. Tagged(r, "first_frame") # {} => FirstImage(r) = FirstOf(Tagged(r, "first_frame"), 1)
    BY DEF FirstImage
<1> QED
    BY <1>2, <1>3, <1>4, <1>5

(* The first part in a role is sent as what the adapter animates.          *)
LEMMA FrameSent ==
    ASSUME NEW r \in Requests, NEW p \in FirstOf(Tagged(r, "first_frame"), 1)
    PROVE  p \in FirstImage(r)
BY Animated DEF FirstOf

(* Every role in use is one the router looks for.                          *)
LEMMA RolesWanted ==
    ASSUME NEW r
    PROVE  /\ \A p \in Given(r) : p[3] \in Wanted(r)
           /\ r.kind = "video" => \A p \in FirstImage(r) : p[3] \in Wanted(r)
BY DEF Wanted

(* What is picked from a request that fits is in supported roles.          *)
LEMMA RolesKept ==
    ASSUME NEW r, NEW e, Fits(r, e), NEW items,
           items \subseteq Given(r) \/ (r.kind = "video" /\ items \subseteq Given(r) \cup FirstImage(r))
    PROVE  \A item \in items : item[3] \notin e.no
<1>1. Wanted(r) \cap e.no = {}
    BY DEF Fits
<1> QED
    BY <1>1, RolesWanted


-----------------------------------------------------------------------------
(* The limits and the body of a request's model.                           *)

(* A model's limits are the ones of its table.                             *)
LEMMA LimitsAt ==
    ASSUME NEW L \in MediaLists, NEW t \in L, model \in DOMAIN t, t[model].kind = request.kind
    PROVE  Limits = t[model]
BY CatalogueAt DEF Limits, limits_for

(* A model of OpenRouter's own has no documented limits.                   *)
LEMMA LimitsUnlisted ==
    ASSUME model \notin DOMAIN Catalogue
    PROVE  /\ Limits = Unlisted
           /\ Unlisted.yes = {} /\ Unlisted.no = {} /\ Unlisted.exclusive = FALSE
           /\ Unlisted.outputs = Many /\ Unlisted.shortest = 0 /\ Unlisted.longest = Many
           /\ Unlisted.images = Many
BY DEF Limits, limits_for, Unlisted

(* A model served for a modality is listed for it, or by no table.         *)
LEMMA ListedFor ==
    ASSUME model \in Served(request.kind)
    PROVE  /\ request.kind = "video" =>
                 model \notin DOMAIN Catalogue \/ \E t \in VideoTables : model \in DOMAIN t
           /\ request.kind = "image" =>
                 model \notin DOMAIN Catalogue \/ \E t \in ImageTables : model \in DOMAIN t
           /\ request.kind = "music" => \E t \in MusicTables : model \in DOMAIN t
<1>1. CASE request.kind = "video"
    <2>1. model \in (Models \ DOMAIN Catalogue) \cup DOMAIN Videos
        BY <1>1 DEF Served
    <2> QED
        BY <1>1, <2>1, MergedFrom DEF Videos
<1>2. CASE request.kind = "image"
    <2>1. model \in (Models \ DOMAIN Catalogue) \cup DOMAIN Images
        BY <1>2 DEF Served
    <2> QED
        BY <1>2, <2>1, MergedFrom DEF Images
<1>3. CASE request.kind = "music"
    <2>1. model \in DOMAIN Songs
        BY <1>3 DEF Served
    <2> QED
        BY <1>3, <2>1, MergedFrom DEF Songs
<1> QED
    BY <1>1, <1>2, <1>3

\* A body of these items and this length, for a model without exclusive modes
\* that is documented to take these roles at most.
Sends(roles, items, h) ==
    /\ Plain(Limits, Limits.kind, roles)
    /\ BodyOf(model, request) = Body(items, h)

Whole == Truncated(request.halves)
Fitted == ClampedLength(Limits.shortest, Limits.longest, request)

\* What Veo and OpenRouter are sent.
Frameset(r) == FirstImage(r) \cup LastImage(r) \cup Tagged(r, "reference_image")

(* What the adapters send for a video, against what its model documents.   *)
LEMMA VideoFamilies ==
    ASSUME request.kind = "video", model \in Served(request.kind)
    PROVE  \/ Sends({"first_frame"} \cup Heard, FirstImage(request), Whole)
           \/ Sends({"first_frame"}, FirstImage(request), 0)
           \/ Sends(Frames \cup {"reference_image"} \cup Heard, Frameset(request), Whole)
           \/ /\ Sends(Frames \cup {"reference_video"} \cup Heard, Frameset(request), Whole)
              /\ model \in DOMAIN Veo31Previews
           \/ Sends(Frames \cup {"reference_image", "reference_video"} \cup Heard,
                    FirstOf(Tagged(request, "first_frame"), 1) \cup LastImage(request)
                      \cup Tagged(request, "reference_image") \cup Clips(request), Fitted)
           \/ Sends({"first_frame", "reference_image"} \cup Heard,
                    FirstImage(request) \cup Tagged(request, "reference_image"), Whole)
           \/ Sends(Frames, Given(request), Whole)
           \/ /\ Documents(Limits, Limits.kind, Frames \cup References \cup Heard) /\ Limits.exclusive
              /\ BodyOf(model, request) = Body(FramesOverReferences(request), Whole)
           \/ /\ Documents(Limits, Limits.kind, Frames \cup References \cup Heard) /\ Limits.exclusive
              /\ Limits.images = 10 /\ Limits.shortest = 2 /\ Limits.longest = 30
              /\ BodyOf(model, request) = Wan3Body(request)
           \/ /\ model = "wan2.7-i2v"
              /\ Sends(Frames \cup {"reference_audio"} \cup Heard,
                       FirstOf(Tagged(request, "first_frame"), 1) \cup LastImage(request)
                         \cup FirstOf(AudioParts(request, "reference_audio"), 1), Fitted)
           \/ Sends({"first_frame"} \cup Heard, FirstImage(request), Fitted)
           \/ Sends(Heard, {}, Fitted)
           \/ /\ Sends({"reference_image"} \cup Heard,
                       FirstOf(AnyImage(request, "reference_image"), 9), Fitted)
              /\ Limits.images = 9 /\ Limits.no = Frames
<1>1. BodyOf(model, request) = VideoBody(model, request)
    BY DEF BodyOf
<1>2. CASE model \notin DOMAIN Catalogue
    <2>1. Plain(Limits, Limits.kind, Frames \cup {"reference_image"} \cup Heard)
        <3>1. /\ Limits.yes = {} /\ ~Limits.exclusive /\ Limits.images = Many
              /\ Limits.outputs = Many /\ Limits.shortest = 0 /\ Limits.longest = Many
            BY <1>2, LimitsUnlisted
        <3>2. Many \in Nat \ {0}
            BY DEF Many
        <3> QED
            BY <3>1, <3>2 DEF Plain, Documents
    <2>2. BodyOf(model, request) = Body(Frameset(request), Whole)
        BY <1>1, <1>2, VideoDispatch DEF OpenRouterVideoBody, Frameset, Whole
    <2> QED
        BY <2>1, <2>2 DEF Sends
<1>3. ASSUME NEW t \in VideoTables, model \in DOMAIN t
      PROVE  Limits = t[model]
    BY <1>3, LimitsAt, ListKinds DEF MediaLists
<1>4. ASSUME model \in DOMAIN SoraVideos
      PROVE  Sends({"first_frame"} \cup Heard,
                   FirstImage(request), Whole)
    <2>1. Limits = SoraVideos[model]
        BY <1>3, <1>4 DEF VideoTables
    <2>2. Plain(Limits, Limits.kind, {"first_frame"} \cup Heard)
        BY <1>4, <2>1, VideoEntries DEF Plain, Documents
    <2>4. BodyOf(model, request) = Body(FirstImage(request), Whole)
        BY <1>1, <1>4, VideoDispatch DEF SoraBody, Whole
    <2> QED
        BY <2>2, <2>4 DEF Sends
<1>5. ASSUME model \in DOMAIN Veo2And3Videos
      PROVE  Sends(Frames \cup {"reference_image"} \cup Heard,
                   Frameset(request), Whole)
    <2>1. Limits = Veo2And3Videos[model]
        BY <1>3, <1>5 DEF VideoTables
    <2>2. Plain(Limits, Limits.kind, Frames \cup {"reference_image"} \cup Heard)
        BY <1>5, <2>1, VideoEntries DEF Plain, Documents
    <2>4. BodyOf(model, request) = Body(Frameset(request), Whole)
        BY <1>1, <1>5, VideoDispatch DEF VeoBody, Frameset, Whole
    <2> QED
        BY <2>2, <2>4 DEF Sends
<1>6. ASSUME model \in DOMAIN Veo31Previews
      PROVE  Sends(Frames \cup {"reference_video"} \cup Heard,
                   Frameset(request), Whole)
    <2>1. Limits = Veo31Previews[model]
        BY <1>3, <1>6 DEF VideoTables
    <2>2. Plain(Limits, Limits.kind, Frames \cup {"reference_video"} \cup Heard)
        BY <1>6, <2>1, VideoEntries DEF Plain, Documents
    <2>4. BodyOf(model, request) = Body(Frameset(request), Whole)
        BY <1>1, <1>6, VideoDispatch DEF VeoBody, Frameset, Whole
    <2> QED
        BY <2>2, <2>4 DEF Sends
<1>7. ASSUME model \in DOMAIN Veo31Videos
      PROVE  Sends(Frames \cup {"reference_image"} \cup Heard,
                   Frameset(request), Whole)
    <2>1. Limits = Veo31Videos[model]
        BY <1>3, <1>7 DEF VideoTables
    <2>2. Plain(Limits, Limits.kind, Frames \cup {"reference_image"} \cup Heard)
        BY <1>7, <2>1, VideoEntries DEF Plain, Documents
    <2>4. BodyOf(model, request) = Body(Frameset(request), Whole)
        BY <1>1, <1>7, VideoDispatch DEF VeoBody, Frameset, Whole
    <2> QED
        BY <2>2, <2>4 DEF Sends
<1>8. ASSUME model \in DOMAIN OmniVideos
      PROVE  Sends(Frames \cup {"reference_image", "reference_video"} \cup Heard,
                   FirstOf(Tagged(request, "first_frame"), 1) \cup LastImage(request)
                     \cup Tagged(request, "reference_image") \cup Clips(request), Fitted)
    <2>1. Limits = OmniVideos[model]
        BY <1>3, <1>8 DEF VideoTables
    <2>2. Plain(Limits, Limits.kind, Frames \cup {"reference_image", "reference_video"} \cup Heard)
        BY <1>8, <2>1, VideoEntries DEF Plain, Documents
    <2>3. Limits.shortest = 3 /\ Limits.longest = 10
        BY <1>8, <2>1, VideoEntries
    <2>4. BodyOf(model, request) = Body(FirstOf(Tagged(request, "first_frame"), 1) \cup LastImage(request)
                                          \cup Tagged(request, "reference_image") \cup Clips(request), Fitted)
        BY <1>1, <1>8, <2>3, VideoDispatch DEF OmniBody, Fitted
    <2> QED
        BY <2>2, <2>4 DEF Sends
<1>9. ASSUME model \in DOMAIN XaiVideos
      PROVE  Sends({"first_frame", "reference_image"} \cup Heard,
                   FirstImage(request) \cup Tagged(request, "reference_image"), Whole)
    <2>1. Limits = XaiVideos[model]
        BY <1>3, <1>9 DEF VideoTables
    <2>2. Plain(Limits, Limits.kind, {"first_frame", "reference_image"} \cup Heard)
        BY <1>9, <2>1, VideoEntries DEF Plain, Documents
    <2>4. BodyOf(model, request) = Body(FirstImage(request) \cup Tagged(request, "reference_image"), Whole)
        BY <1>1, <1>9, VideoDispatch DEF XaiVideoBody, Whole
    <2> QED
        BY <2>2, <2>4 DEF Sends
<1>10. ASSUME model \in DOMAIN StableVideos
      PROVE  Sends({"first_frame"},
                   FirstImage(request), 0)
    <2>1. Limits = StableVideos[model]
        BY <1>3, <1>10 DEF VideoTables
    <2>2. Plain(Limits, Limits.kind, {"first_frame"})
        BY <1>10, <2>1, VideoEntries DEF Plain, Documents
    <2>4. BodyOf(model, request) = Body(FirstImage(request), 0)
        BY <1>1, <1>10, VideoDispatch DEF StableVideoBody
    <2> QED
        BY <2>2, <2>4 DEF Sends
<1>11. ASSUME model \in DOMAIN Seedance1Videos
      PROVE  Sends(Frames,
                   Given(request), Whole)
    <2>1. Limits = Seedance1Videos[model]
        BY <1>3, <1>11 DEF VideoTables
    <2>2. Plain(Limits, Limits.kind, Frames)
        BY <1>11, <2>1, VideoEntries DEF Plain, Documents
    <2>4. BodyOf(model, request) = Body(Given(request), Whole)
        BY <1>1, <1>11, VideoDispatch DEF SeedanceBody, Whole
    <2> QED
        BY <2>2, <2>4 DEF Sends
<1>12. ASSUME model \in DOMAIN WanTextVideos
      PROVE  Sends({"first_frame"} \cup Heard,
                   FirstImage(request), Whole)
    <2>1. Limits = WanTextVideos[model]
        BY <1>3, <1>12 DEF VideoTables
    <2>2. Plain(Limits, Limits.kind, {"first_frame"} \cup Heard)
        BY <1>12, <2>1, VideoEntries DEF Plain, Documents
    <2>4. BodyOf(model, request) = Body(FirstImage(request), Whole)
        BY <1>1, <1>12, VideoDispatch DEF WanVideoBody, Whole
    <2> QED
        BY <2>2, <2>4 DEF Sends
<1>13. ASSUME model \in DOMAIN WanImageVideos
      PROVE  Sends({"first_frame"} \cup Heard,
                   FirstImage(request), Whole)
    <2>1. Limits = WanImageVideos[model]
        BY <1>3, <1>13 DEF VideoTables
    <2>2. Plain(Limits, Limits.kind, {"first_frame"} \cup Heard)
        BY <1>13, <2>1, VideoEntries DEF Plain, Documents
    <2>4. BodyOf(model, request) = Body(FirstImage(request), Whole)
        BY <1>1, <1>13, VideoDispatch DEF WanVideoBody, Whole
    <2> QED
        BY <2>2, <2>4 DEF Sends
<1>14. ASSUME model \in DOMAIN Wan27ImageVideos
      PROVE  Sends(Frames \cup {"reference_audio"} \cup Heard,
                   FirstOf(Tagged(request, "first_frame"), 1) \cup LastImage(request)
                     \cup FirstOf(AudioParts(request, "reference_audio"), 1), Fitted)
    <2>1. Limits = Wan27ImageVideos[model]
        BY <1>3, <1>14 DEF VideoTables
    <2>2. Plain(Limits, Limits.kind, Frames \cup {"reference_audio"} \cup Heard)
        BY <1>14, <2>1, VideoEntries DEF Plain, Documents
    <2>3. Limits.shortest = 2 /\ Limits.longest = 15
        BY <1>14, <2>1, VideoEntries
    <2>4. BodyOf(model, request) = Body(FirstOf(Tagged(request, "first_frame"), 1) \cup LastImage(request)
                                          \cup FirstOf(AudioParts(request, "reference_audio"), 1), Fitted)
        BY <1>1, <1>14, <2>3, VideoDispatch DEF Wan27Body, Fitted
    <2> QED
        BY <2>2, <2>4 DEF Sends
<1>15. ASSUME model \in DOMAIN Seedance2Videos
      PROVE  /\ Documents(Limits, Limits.kind, Frames \cup References \cup Heard) /\ Limits.exclusive
             /\ BodyOf(model, request) = Body(FramesOverReferences(request), Whole)
    <2>1. Limits = Seedance2Videos[model]
        BY <1>3, <1>15 DEF VideoTables
    <2>2. Documents(Limits, Limits.kind, Frames \cup References \cup Heard) /\ Limits.exclusive
        BY <1>15, <2>1, VideoEntries DEF Documents
    <2>3. BodyOf(model, request) = Body(FramesOverReferences(request), Whole)
        BY <1>1, <1>15, VideoDispatch DEF SeedanceBody, Whole
    <2> QED
        BY <2>2, <2>3
<1>16. ASSUME model \in DOMAIN MiniMaxVideos
      PROVE  /\ Documents(Limits, Limits.kind, Frames \cup References \cup Heard) /\ Limits.exclusive
             /\ BodyOf(model, request) = Body(FramesOverReferences(request), Whole)
    <2>1. Limits = MiniMaxVideos[model]
        BY <1>3, <1>16 DEF VideoTables
    <2>2. Documents(Limits, Limits.kind, Frames \cup References \cup Heard) /\ Limits.exclusive
        BY <1>16, <2>1, VideoEntries DEF Documents
    <2>3. BodyOf(model, request) = Body(FramesOverReferences(request), Whole)
        BY <1>1, <1>16, VideoDispatch DEF MiniMaxVideoBody, Whole
    <2> QED
        BY <2>2, <2>3
<1>17. ASSUME model \in DOMAIN Wan3Videos
      PROVE  /\ Documents(Limits, Limits.kind, Frames \cup References \cup Heard) /\ Limits.exclusive
             /\ Limits.images = 10 /\ Limits.shortest = 2 /\ Limits.longest = 30
             /\ BodyOf(model, request) = Wan3Body(request)
    <2>1. Limits = Wan3Videos[model]
        BY <1>3, <1>17 DEF VideoTables
    <2>2. /\ Documents(Limits, Limits.kind, Frames \cup References \cup Heard) /\ Limits.exclusive
          /\ Limits.images = 10 /\ Limits.shortest = 2 /\ Limits.longest = 30
        BY <1>17, <2>1, VideoEntries DEF Documents
    <2> QED
        BY <1>1, <1>17, <2>2, VideoDispatch
<1>18. ASSUME model \in DOMAIN HappyHorseVideos
      PROVE  \/ Sends({"first_frame"} \cup Heard, FirstImage(request), Fitted)
             \/ Sends(Heard, {}, Fitted)
             \/ /\ Sends({"reference_image"} \cup Heard,
                         FirstOf(AnyImage(request, "reference_image"), 9), Fitted)
                /\ Limits.images = 9 /\ Limits.no = Frames
    <2>1. Limits = HappyHorseVideos[model]
        BY <1>3, <1>18 DEF VideoTables
    <2>2. /\ Plain(Limits, Limits.kind, {"first_frame", "reference_image"} \cup Heard)
          /\ Limits.shortest = 3 /\ Limits.longest = 15
          /\ model # "happyhorse-1.1-i2v" => "first_frame" \notin Limits.yes
          /\ model # "happyhorse-1.1-r2v" => "reference_image" \notin Limits.yes
          /\ model = "happyhorse-1.1-r2v" => Limits.images = 9 /\ Limits.no = Frames
        BY <1>18, <2>1, VideoEntries DEF Plain, Documents
    <2>3. BodyOf(model, request) = HappyHorseBody(request, model)
        BY <1>1, <1>18, VideoDispatch
    <2>4. CASE model = "happyhorse-1.1-i2v"
        <3>1. BodyOf(model, request) = Body(FirstImage(request), Fitted)
            BY <2>2, <2>3, <2>4 DEF HappyHorseBody, Fitted
        <3>2. Plain(Limits, Limits.kind, {"first_frame"} \cup Heard)
            BY <2>2, <2>4 DEF Plain, Documents
        <3> QED
            BY <3>1, <3>2 DEF Sends
    <2>5. CASE model = "happyhorse-1.1-r2v"
        <3>1. BodyOf(model, request) = Body(FirstOf(AnyImage(request, "reference_image"), 9), Fitted)
            BY <2>2, <2>3, <2>5 DEF HappyHorseBody, Fitted
        <3>2. Plain(Limits, Limits.kind, {"reference_image"} \cup Heard)
            BY <2>2, <2>5 DEF Plain, Documents
        <3> QED
            BY <2>2, <2>5, <3>1, <3>2 DEF Sends
    <2>6. CASE model \notin {"happyhorse-1.1-i2v", "happyhorse-1.1-r2v"}
        <3>1. BodyOf(model, request) = Body({}, Fitted)
            BY <2>2, <2>3, <2>6 DEF HappyHorseBody, Fitted
        <3>2. Plain(Limits, Limits.kind, Heard)
            BY <2>2, <2>6 DEF Plain, Documents
        <3> QED
            BY <3>1, <3>2 DEF Sends
    <2> QED
        BY <2>4, <2>5, <2>6
<1>19. model \in DOMAIN Wan27ImageVideos => model = "wan2.7-i2v"
    BY VideoNames
<1> QED
    BY <1>2, <1>4, <1>5, <1>6, <1>7, <1>8, <1>9, <1>10, <1>11,
       <1>12, <1>13, <1>14, <1>15, <1>16, <1>17, <1>18, <1>19, ListedFor DEF VideoTables


\* The same for an image request, whatever count the adapter asks for.
Counts ==
    {0, request.n, IF request.n > 1 THEN request.n ELSE 0, IF request.n > 10 THEN 10 ELSE request.n}

Draws(roles, items) ==
    /\ Plain(Limits, Limits.kind, roles)
    /\ \E count \in Counts : BodyOf(model, request) = Pictures(items, count)

(* What the adapters send for an image, against what its model documents.  *)
LEMMA ImageFamilies ==
    ASSUME request.kind = "image", model \in Served(request.kind)
    PROVE  \/ Draws({}, {})
           \/ Draws({"image_to_image"}, Given(request))
           \/ /\ Draws({"image_to_image"}, {})
              /\ model \in DOMAIN OpenAIImages \cup DOMAIN StabilityImages \cup DOMAIN QwenImages
<1>1. BodyOf(model, request) = ImageBody(model, request)
    BY DEF BodyOf
<1>2. CASE model \notin DOMAIN Catalogue
    <2>1. /\ Limits.yes = {} /\ ~Limits.exclusive /\ Limits.images = Many
          /\ Limits.outputs = Many /\ Limits.shortest = 0 /\ Limits.longest = Many
        BY <1>2, LimitsUnlisted
    <2>2. Many \in Nat \ {0}
        BY DEF Many
    <2>3. Plain(Limits, Limits.kind, {"image_to_image"})
        BY <2>1, <2>2 DEF Plain, Documents
    <2>4. BodyOf(model, request) = Pictures(Given(request), request.n)
        BY <1>1, <1>2, ImageDispatch DEF OpenRouterImageBody
    <2> QED
        BY <2>3, <2>4 DEF Draws, Counts
<1>3. ASSUME NEW t \in ImageTables, model \in DOMAIN t
      PROVE  Limits = t[model]
    BY <1>3, LimitsAt, ListKinds DEF MediaLists
<1>4. ASSUME model \in DOMAIN OpenAIImages
      PROVE  Draws({"image_to_image"}, {})
    <2>1. Limits = OpenAIImages[model]
        BY <1>3, <1>4 DEF ImageTables
    <2>2. Plain(Limits, Limits.kind, {"image_to_image"})
        BY <1>4, <2>1, ImageEntries DEF Plain, Documents
    <2>3. BodyOf(model, request) = Pictures({}, IF request.n > 1 THEN request.n ELSE 0)
        BY <1>1, <1>4, ImageDispatch DEF OpenAIImageBody
    <2> QED
        BY <2>2, <2>3 DEF Draws, Counts
<1>5. ASSUME model \in DOMAIN ImagenImages
      PROVE  Draws({}, {})
    <2>1. Limits = ImagenImages[model]
        BY <1>3, <1>5 DEF ImageTables
    <2>2. Plain(Limits, Limits.kind, {})
        BY <1>5, <2>1, ImageEntries DEF Plain, Documents
    <2>3. BodyOf(model, request) = Pictures({}, request.n)
        BY <1>1, <1>5, ImageDispatch DEF ImagenBody
    <2> QED
        BY <2>2, <2>3 DEF Draws, Counts
<1>6. ASSUME model \in DOMAIN GeminiImages
      PROVE  Draws({"image_to_image"}, Given(request))
    <2>1. Limits = GeminiImages[model]
        BY <1>3, <1>6 DEF ImageTables
    <2>2. Plain(Limits, Limits.kind, {"image_to_image"})
        BY <1>6, <2>1, ImageEntries DEF Plain, Documents
    <2>3. BodyOf(model, request) = Pictures(Given(request), 0)
        BY <1>1, <1>6, ImageDispatch DEF GeminiImageBody
    <2> QED
        BY <2>2, <2>3 DEF Draws, Counts
<1>7. ASSUME model \in DOMAIN XaiImages
      PROVE  Draws({}, {})
    <2>1. Limits = XaiImages[model]
        BY <1>3, <1>7 DEF ImageTables
    <2>2. Plain(Limits, Limits.kind, {})
        BY <1>7, <2>1, ImageEntries DEF Plain, Documents
    <2>3. BodyOf(model, request) = Pictures({}, IF request.n > 10 THEN 10 ELSE request.n)
        BY <1>1, <1>7, ImageDispatch DEF XaiImageBody
    <2> QED
        BY <2>2, <2>3 DEF Draws, Counts
<1>8. ASSUME model \in DOMAIN StabilityImages
      PROVE  Draws({"image_to_image"}, {})
    <2>1. Limits = StabilityImages[model]
        BY <1>3, <1>8 DEF ImageTables
    <2>2. Plain(Limits, Limits.kind, {"image_to_image"})
        BY <1>8, <2>1, ImageEntries DEF Plain, Documents
    <2>3. BodyOf(model, request) = Pictures({}, 0)
        BY <1>1, <1>8, ImageDispatch DEF StabilityImageBody
    <2> QED
        BY <2>2, <2>3 DEF Draws, Counts
<1>9. ASSUME model \in DOMAIN FluxImages
      PROVE  Draws({"image_to_image"}, Given(request))
    <2>1. Limits = FluxImages[model]
        BY <1>3, <1>9 DEF ImageTables
    <2>2. Plain(Limits, Limits.kind, {"image_to_image"})
        BY <1>9, <2>1, ImageEntries DEF Plain, Documents
    <2>3. BodyOf(model, request) = Pictures(Given(request), 0)
        BY <1>1, <1>9, ImageDispatch DEF FluxImageBody
    <2> QED
        BY <2>2, <2>3 DEF Draws, Counts
<1>10. ASSUME model \in DOMAIN SeedreamImages
      PROVE  Draws({"image_to_image"}, Given(request))
    <2>1. Limits = SeedreamImages[model]
        BY <1>3, <1>10 DEF ImageTables
    <2>2. Plain(Limits, Limits.kind, {"image_to_image"})
        BY <1>10, <2>1, ImageEntries DEF Plain, Documents
    <2>3. BodyOf(model, request) = Pictures(Given(request), 0)
        BY <1>1, <1>10, ImageDispatch DEF SeedreamBody
    <2> QED
        BY <2>2, <2>3 DEF Draws, Counts
<1>11. ASSUME model \in DOMAIN QwenImages
      PROVE  Draws({"image_to_image"}, {})
    <2>1. Limits = QwenImages[model]
        BY <1>3, <1>11 DEF ImageTables
    <2>2. Plain(Limits, Limits.kind, {"image_to_image"})
        BY <1>11, <2>1, ImageEntries DEF Plain, Documents
    <2>3. BodyOf(model, request) = Pictures({}, request.n)
        BY <1>1, <1>11, ImageDispatch DEF WanSynthesisBody
    <2> QED
        BY <2>2, <2>3 DEF Draws, Counts
<1>12. ASSUME model \in DOMAIN WanImages
      PROVE  Draws({}, {}) \/ Draws({"image_to_image"}, Given(request))
    <2>1. Limits = WanImages[model]
        BY <1>3, <1>12 DEF ImageTables
    <2>2. CASE model \in GenerationModels
        <3>1. Plain(Limits, Limits.kind, {"image_to_image"})
            BY <1>12, <2>1, <2>2, ImageEntries DEF Plain, Documents
        <3>2. BodyOf(model, request) = Pictures(Given(request), request.n)
            BY <1>1, <1>12, <2>2, ImageDispatch DEF WanGenerationBody
        <3> QED
            BY <3>1, <3>2 DEF Draws, Counts
    <2>3. CASE model \notin GenerationModels
        <3>1. Plain(Limits, Limits.kind, {})
            BY <1>12, <2>1, <2>3, ImageEntries DEF Plain, Documents
        <3>2. BodyOf(model, request) = Pictures({}, request.n)
            BY <1>1, <1>12, <2>3, ImageDispatch DEF WanSynthesisBody
        <3> QED
            BY <3>1, <3>2 DEF Draws, Counts
    <2> QED
        BY <2>2, <2>3
<1> QED
    BY <1>2, <1>4, <1>5, <1>6, <1>7, <1>8, <1>9, <1>10, <1>11, <1>12,
       ListedFor DEF ImageTables

\* The same for a song.
Plays(roles, items, h, count) ==
    /\ Plain(Limits, Limits.kind, roles)
    /\ \E task \in {"none", "cover"} : BodyOf(model, request) = SongBody(items, h, count, task)

TaggedAudio(role) == FirstOf(AudioParts(request, role), 1)

(* What the adapters send for a song, against what its model documents.    *)
LEMMA MusicFamilies ==
    ASSUME request.kind = "music", model \in Served(request.kind)
    PROVE  \/ Plays({"lyrics"}, Given(request), 0, request.n)
           \/ Plays({"lyrics", "reference_audio"}, TaggedAudio("reference_audio"), 0, 0)
           \/ /\ model \in DOMAIN ElevenMusic /\ Limits.shortest = 3 /\ Limits.longest = 600
              /\ Plays({"lyrics", "reference_audio"}, {},
                       IF request.halves = 0 THEN 0 ELSE Clamped(3, 600, request.halves), 0)
           \/ Plays({"lyrics"}, {}, 0, 0)
           \/ /\ model \in DOMAIN MurekaMusic
              /\ Plays({"lyrics", "reference_audio", "continuation_audio"}, {}, Whole, 0)
           \/ /\ model \in DOMAIN AceStepMusic
              /\ Plays({"lyrics", "reference_audio", "continuation_audio"},
                       AceStepSource(request), request.halves, request.n)
<1>1. BodyOf(model, request) = MusicBody(model, request)
    BY DEF BodyOf
<1>2. ASSUME NEW t \in MusicTables, model \in DOMAIN t
      PROVE  Limits = t[model]
    BY <1>2, LimitsAt, ListKinds DEF MediaLists
<1>3. ASSUME model \in DOMAIN LyriaMusic
      PROVE  Plays({"lyrics"}, Given(request), 0, request.n)
    <2>1. Limits = LyriaMusic[model]
        BY <1>2, <1>3 DEF MusicTables
    <2>2. Plain(Limits, Limits.kind, {"lyrics"})
        BY <1>3, <2>1, MusicEntries DEF Plain, Documents
    <2>3. BodyOf(model, request) = SongBody(Given(request), 0, request.n, "none")
        BY <1>1, <1>3, MusicDispatch DEF LyriaBody
    <2> QED
        BY <2>2, <2>3 DEF Plays
<1>4. ASSUME model \in DOMAIN MiniMaxMusic
      PROVE  Plays({"lyrics", "reference_audio"}, TaggedAudio("reference_audio"), 0, 0)
    <2>1. Limits = MiniMaxMusic[model]
        BY <1>2, <1>4 DEF MusicTables
    <2>2. Plain(Limits, Limits.kind, {"lyrics", "reference_audio"})
        BY <1>4, <2>1, MusicEntries DEF Plain, Documents
    <2>3. BodyOf(model, request) = SongBody(TaggedAudio("reference_audio"), 0, 0, "none")
        BY <1>1, <1>4, MusicDispatch DEF MiniMaxMusicBody, TaggedAudio
    <2> QED
        BY <2>2, <2>3 DEF Plays
<1>5. ASSUME model \in DOMAIN ElevenMusic
      PROVE  Plays({"lyrics", "reference_audio"}, {},
                   IF request.halves = 0 THEN 0 ELSE Clamped(3, 600, request.halves), 0)
             /\ Limits.shortest = 3 /\ Limits.longest = 600
    <2>1. Limits = ElevenMusic[model]
        BY <1>2, <1>5 DEF MusicTables
    <2>2. Plain(Limits, Limits.kind, {"lyrics", "reference_audio"}) /\ Limits.shortest = 3 /\ Limits.longest = 600
        BY <1>5, <2>1, MusicEntries DEF Plain, Documents
    <2>3. BodyOf(model, request) = SongBody({}, IF request.halves = 0 THEN 0 ELSE Clamped(3, 600, request.halves), 0, "none")
        BY <1>1, <1>5, MusicDispatch DEF ElevenMusicBody
    <2> QED
        BY <2>2, <2>3 DEF Plays
<1>6. ASSUME model \in DOMAIN ChirpMusic
      PROVE  Plays({"lyrics"}, {}, 0, 0)
    <2>1. Limits = ChirpMusic[model]
        BY <1>2, <1>6 DEF MusicTables
    <2>2. Plain(Limits, Limits.kind, {"lyrics"})
        BY <1>6, <2>1, MusicEntries DEF Plain, Documents
    <2>3. BodyOf(model, request) = SongBody({}, 0, 0, "none")
        BY <1>1, <1>6, MusicDispatch DEF ChirpBody
    <2> QED
        BY <2>2, <2>3 DEF Plays
<1>7. ASSUME model \in DOMAIN MurekaMusic
      PROVE  Plays({"lyrics", "reference_audio", "continuation_audio"}, {}, Whole, 0)
    <2>1. Limits = MurekaMusic[model]
        BY <1>2, <1>7 DEF MusicTables
    <2>2. Plain(Limits, Limits.kind, {"lyrics", "reference_audio", "continuation_audio"})
        BY <1>7, <2>1, MusicEntries DEF Plain, Documents
    <2>3. BodyOf(model, request) = SongBody({}, Whole, 0, "none")
        BY <1>1, <1>7, MusicDispatch DEF MurekaBody, Whole
    <2> QED
        BY <2>2, <2>3 DEF Plays
<1>8. ASSUME model \in DOMAIN AceStepMusic
      PROVE  Plays({"lyrics", "reference_audio", "continuation_audio"}, AceStepSource(request), request.halves, request.n)
    <2>1. Limits = AceStepMusic[model]
        BY <1>2, <1>8 DEF MusicTables
    <2>2. Plain(Limits, Limits.kind, {"lyrics", "reference_audio", "continuation_audio"})
        BY <1>8, <2>1, MusicEntries DEF Plain, Documents
    <2>3. BodyOf(model, request) = SongBody(AceStepSource(request), request.halves, request.n, "cover")
        BY <1>1, <1>8, MusicDispatch DEF AceStepBody
    <2> QED
        BY <2>2, <2>3 DEF Plays
<1> QED
    BY <1>3, <1>4, <1>5, <1>6, <1>7, <1>8, ListedFor DEF MusicTables


-----------------------------------------------------------------------------
(* Inputs.                                                                 *)

(* The fields of the bodies.                                               *)
LEMMA BodyFields ==
    ASSUME NEW items, NEW h, NEW c, NEW task
    PROVE  /\ Body(items, h).items = items /\ Body(items, h).halves = h /\ Body(items, h).count = 0
           /\ Pictures(items, c).items = items /\ Pictures(items, c).halves = 0
           /\ Pictures(items, c).count = c
           /\ SongBody(items, h, c, task).items = items /\ SongBody(items, h, c, task).halves = h
           /\ SongBody(items, h, c, task).count = c
BY DEF Body, Pictures, SongBody, Nothing

(* What Wan 3 is sent: its frames, or else its references.                 *)
LEMMA Wan3Items ==
    ASSUME NEW r
    PROVE  LET frames == FirstOf(Tagged(r, "first_frame"), 1) \cup LastImage(r)
               references == FirstOf(Tagged(r, "reference_image"), 10) \cup FirstOf(Clips(r), 5)
                               \cup FirstOf(AudioParts(r, "reference_audio"), 5)
           IN  /\ Wan3Body(r).items = IF frames # {} THEN frames ELSE references
               /\ Wan3Body(r).halves = ClampedLength(2, 30, r)
               /\ Wan3Body(r).count = 0
BY BodyFields DEF Wan3Body

(* The parts a video's body is made of.                                    *)
LEMMA VideoItems ==
    ASSUME request \in Requests, request.kind = "video", model \in Served(request.kind)
    PROVE  \/ BodyOf(model, request).items \subseteq Given(request) \cup FirstImage(request)
           \/ /\ BodyOf(model, request).items \subseteq AnyImage(request, "reference_image")
              /\ Limits.no = Frames /\ ~Limits.exclusive
<1> DEFINE Good(items) == items \subseteq Given(request) \cup FirstImage(request)
           b == BodyOf(model, request)
<1>1. \A role \in Frames \cup {"reference_image"} : Good(Tagged(request, role))
    BY Picked
<1>2. /\ Good(FirstImage(request)) /\ Good(LastImage(request)) /\ Good(Clips(request))
      /\ Good(Given(request)) /\ Good({}) /\ Good(FramesOverReferences(request))
      /\ Good(AudioParts(request, "reference_audio"))
    BY Picked
<1>3. Good(Tagged(request, "first_frame")) /\ Good(Tagged(request, "reference_image"))
    BY <1>1 DEF Frames
<1>4. \A items, k : Good(items) => Good(FirstOf(items, k))
    BY DEF FirstOf
<1>5. \A x, y : Good(x) /\ Good(y) => Good(x \cup y)
    OBVIOUS
<1>6. Good(Frameset(request))
    BY <1>2, <1>3 DEF Frameset
<1>7. ASSUME NEW roles, NEW items, NEW h, Sends(roles, items, h), Good(items)
      PROVE  Good(b.items)
    BY <1>7, BodyFields DEF Sends
<1>8. Good(Wan3Body(request).items)
    <2> DEFINE frames == FirstOf(Tagged(request, "first_frame"), 1) \cup LastImage(request)
               references == FirstOf(Tagged(request, "reference_image"), 10) \cup FirstOf(Clips(request), 5)
                               \cup FirstOf(AudioParts(request, "reference_audio"), 5)
    <2>1. Good(frames) /\ Good(references)
        BY <1>2, <1>3, <1>4
    <2>2. Wan3Body(request).items \in {frames, references}
        BY Wan3Items
    <2> QED
        BY <2>1, <2>2
<1>9. Good(Body(FramesOverReferences(request), Whole).items)
    BY <1>2, BodyFields
<1>10. Good(FirstOf(Tagged(request, "first_frame"), 1) \cup LastImage(request)
              \cup Tagged(request, "reference_image") \cup Clips(request))
    BY <1>2, <1>3, <1>4
<1>11. Good(FirstOf(Tagged(request, "first_frame"), 1) \cup LastImage(request)
              \cup FirstOf(AudioParts(request, "reference_audio"), 1))
    BY <1>2, <1>3, <1>4
<1>12. Good(FirstImage(request) \cup Tagged(request, "reference_image"))
    BY <1>2, <1>3
<1>13. ASSUME Sends({"reference_image"} \cup Heard,
                    FirstOf(AnyImage(request, "reference_image"), 9), Fitted)
       PROVE  b.items \subseteq AnyImage(request, "reference_image") /\ ~Limits.exclusive
    <2>1. b.items = FirstOf(AnyImage(request, "reference_image"), 9)
        BY <1>13, BodyFields DEF Sends
    <2>2. ~Limits.exclusive
        BY <1>13 DEF Sends, Plain
    <2> QED
        BY <2>1, <2>2, Picked
<1> HIDE DEF Good, b
<1>14. Good(b.items) \/ (b.items \subseteq AnyImage(request, "reference_image")
                           /\ Limits.no = Frames /\ ~Limits.exclusive)
    BY VideoFamilies, <1>2, <1>6, <1>7, <1>8, <1>9, <1>10, <1>11, <1>12, <1>13 DEF b
<1> QED
    BY <1>14 DEF Good, b

(* No body of a video holds an input its model is documented not to have.  *)
LEMMA VideoRoles ==
    ASSUME request \in Requests, request.kind = "video", model \in Served(request.kind),
           Fits(request, Limits)
    PROVE  \A item \in BodyOf(model, request).items : item[3] \notin Limits.no
<1> DEFINE items == BodyOf(model, request).items
<1>1. CASE items \subseteq Given(request) \cup FirstImage(request)
    <2> HIDE DEF items
    <2> QED
        BY <1>1, RolesKept DEF items
<1>2. CASE items \subseteq AnyImage(request, "reference_image") /\ Limits.no = Frames
    BY <1>2 DEF AnyImage, Frames
<1> QED
    BY <1>1, <1>2, VideoItems

(* A video's frames and references never meet in the body of a model for   *)
(* which they exclude each other.                                          *)
LEMMA VideoModes ==
    ASSUME request \in Requests, request.kind = "video", model \in Served(request.kind),
           Limits.exclusive
    PROVE  \/ \A item \in BodyOf(model, request).items : item[3] \notin Frames
           \/ \A item \in BodyOf(model, request).items : item[3] \notin References
<1> DEFINE items == BodyOf(model, request).items
           F == Tagged(request, "first_frame") \cup Tagged(request, "last_frame")
<1>1. \A role : \A p \in Tagged(request, role) : p[3] = role
    BY DEF Tagged
<1>2. /\ \A p \in Clips(request) : p[3] = "reference_video"
      /\ \A p \in AudioParts(request, "reference_audio") : p[3] = "reference_audio"
    BY DEF Clips, AudioParts
<1>3. \A p \in F : p[3] \notin References
    BY <1>1 DEF References
<1>4. F = {} => \A p \in Given(request) : p[3] \notin Frames
    <2> SUFFICES ASSUME F = {}, NEW p \in Given(request) PROVE p[3] \notin Frames
        OBVIOUS
    <2>1. p[3] \in Frames => p \in Tagged(request, p[3])
        BY PartShape DEF Frames
    <2> QED
        BY <2>1 DEF Frames
<1>5. CASE BodyOf(model, request) = Body(FramesOverReferences(request), Whole)
    <2>1. items = FramesOverReferences(request)
        BY <1>5, BodyFields
    <2> QED
        BY <1>3, <1>4, <2>1 DEF FramesOverReferences
<1>6. CASE BodyOf(model, request) = Wan3Body(request)
    <2> DEFINE frames == FirstOf(Tagged(request, "first_frame"), 1) \cup LastImage(request)
               references == FirstOf(Tagged(request, "reference_image"), 10) \cup FirstOf(Clips(request), 5)
                               \cup FirstOf(AudioParts(request, "reference_audio"), 5)
    <2>1. items \in {frames, references}
        BY <1>6, Wan3Items
    <2>2. frames \subseteq F
        BY Picked DEF LastImage
    <2>3. \A p \in references : p[3] \notin Frames
        <3>1. references \subseteq Tagged(request, "reference_image") \cup Clips(request)
                 \cup AudioParts(request, "reference_audio")
            BY Picked
        <3> HIDE DEF references
        <3> QED
            BY <1>1, <1>2, <3>1 DEF Frames
    <2> QED
        BY <1>3, <2>1, <2>2, <2>3
<1>7. \A roles, s, h : ~Sends(roles, s, h)
    BY DEF Sends, Plain
<1> QED
    BY <1>5, <1>6, <1>7, VideoFamilies


(* What is made of a request for an image or a song is made of its parts.  *)
LEMMA OtherItems ==
    ASSUME request \in Requests, request.kind \in {"image", "music"}, model \in Served(request.kind)
    PROVE  BodyOf(model, request).items \subseteq Given(request) /\ ~Limits.exclusive
<1> DEFINE b == BodyOf(model, request)
<1>1. ASSUME NEW roles, NEW items, Draws(roles, items), items \subseteq Given(request)
      PROVE  b.items \subseteq Given(request) /\ ~Limits.exclusive
    BY <1>1, BodyFields DEF Draws, Plain
<1>2. ASSUME NEW roles, NEW items, NEW h, NEW c, Plays(roles, items, h, c),
             items \subseteq Given(request)
      PROVE  b.items \subseteq Given(request) /\ ~Limits.exclusive
    BY <1>2, BodyFields DEF Plays, Plain
<1>3. \A role \in {"reference_audio", "continuation_audio"} : TaggedAudio(role) \subseteq Given(request)
    BY Picked DEF TaggedAudio
<1>4. AceStepSource(request) \subseteq Given(request)
    BY Picked DEF AceStepSource
<1> HIDE DEF b
<1>5. ASSUME request.kind = "image" PROVE b.items \subseteq Given(request) /\ ~Limits.exclusive
    <2>1. {} \subseteq Given(request)
        OBVIOUS
    <2> QED
        BY <1>1, <1>5, <2>1, ImageFamilies
<1>6. ASSUME request.kind = "music" PROVE b.items \subseteq Given(request) /\ ~Limits.exclusive
    <2>1. {} \subseteq Given(request)
        OBVIOUS
    <2> QED
        BY <1>2, <1>3, <1>4, <1>6, <2>1, MusicFamilies
<1> QED
    BY <1>5, <1>6 DEF b

-----------------------------------------------------------------------------
(* Documented parts.                                                       *)

(* The size of an interval.                                                *)
LEMMA UpTo ==
    ASSUME NEW n \in Nat
    PROVE  IsFiniteSet(1..n) /\ Cardinality(1..n) = n
BY FS_Interval

(* At most k - 1 parts of a kind come before the k-th.                     *)
LEMMA Early ==
    ASSUME NEW S, NEW kind, NEW role, NEW k \in Nat, NEW p \in S,
           \A q \in S : q = <<kind, q[2], role>> /\ q[2] \in Nat \ {0},
           p[2] <= k
    PROVE  p \in FirstOf(S, k)
<1> DEFINE before == {q \in S : q[2] < p[2]}
           n == p[2] - 1
           f == [q \in before |-> q[2]]
<1>1. p[2] \in Nat \ {0} /\ n \in Nat /\ n < k
    BY Z3
<1>2. \A q \in before : q[2] \in 1..n
    BY <1>1
<1>3. f \in Injection(before, 1..n)
    <2>1. f \in [before -> 1..n]
        BY <1>2
    <2>2. ASSUME NEW a \in before, NEW b \in before, f[a] = f[b]
          PROVE  a = b
        <3>1. a[2] = b[2]
            BY <2>2
        <3>2. a = <<kind, a[2], role>> /\ b = <<kind, b[2], role>>
            OBVIOUS
        <3> QED
            BY <3>1, <3>2
    <2>3. DOMAIN f = before
        OBVIOUS
    <2> HIDE DEF f
    <2> QED
        BY <2>1, <2>2, <2>3 DEF Injection, IsInjective
<1> HIDE DEF before, f, n
<1>4. IsFiniteSet(1..n) /\ Cardinality(1..n) = n
    BY <1>1, UpTo, Zenon
<1>5. IsFiniteSet(before) /\ Cardinality(before) <= n
    BY <1>3, <1>4, FS_Injection
<1>6. Cardinality(before) < k
    BY <1>1, <1>4, <1>5, FS_CardinalityType
<1> QED
    BY <1>6 DEF FirstOf, before

(* Fewer parts come before a part among fewer parts.                       *)
LEMMA FirstOfFewer ==
    ASSUME NEW S, NEW F \in SUBSET S, IsFiniteSet(S), NEW k \in Nat, NEW p \in F,
           p \in FirstOf(S, k)
    PROVE  p \in FirstOf(F, k)
<1> DEFINE A == {q \in S : q[2] < p[2]}
           B == {q \in F : q[2] < p[2]}
<1>1. IsFiniteSet(A)
    BY FS_Subset
<1>2. B \subseteq A
    OBVIOUS
<1> HIDE DEF A, B
<1>3. Cardinality(A) < k
    BY DEF FirstOf, A
<1>4. Cardinality(A) \in Nat /\ Cardinality(B) \in Nat /\ Cardinality(B) <= Cardinality(A)
    BY <1>1, <1>2, FS_Subset, FS_CardinalityType
<1> QED
    BY <1>3, <1>4 DEF FirstOf, B

(* A request has finitely many audio parts.                                *)
LEMMA FiniteAudio ==
    ASSUME NEW r \in Requests
    PROVE  IsFiniteSet({p \in Given(r) : p[1] = "audio"})
<1> DEFINE A == {p \in Given(r) : p[1] = "audio"}
           I == DOMAIN r.audios
           R == {"reference_audio", "continuation_audio"}
           f == [ir \in I \X R |-> <<"audio", ir[1], ir[2]>>]
<1>1. IsFiniteSet(I) /\ IsFiniteSet(R)
    <2>1. r.audios \in Seq(R)
        BY RequestTypes
    <2>2. PICK n \in Nat : I = 1..n
        BY <2>1
    <2>3. IsFiniteSet(1..n)
        BY FS_Interval
    <2>4. IsFiniteSet({"reference_audio"}) /\ IsFiniteSet({"continuation_audio"})
        BY FS_Singleton
    <2>5. IsFiniteSet({"reference_audio"} \cup {"continuation_audio"})
        BY <2>4, FS_Union, Zenon
    <2> QED
        BY <2>2, <2>3, <2>5
<1>2. IsFiniteSet(I \X R)
    BY <1>1, FS_Product
<1>3. \A p \in A : \E i \in I, role \in R : p = <<"audio", i, role>>
    <2> SUFFICES ASSUME NEW p \in A PROVE \E i \in I, role \in R : p = <<"audio", i, role>>
        OBVIOUS
    <2>1. p \in AudioParts(r, p[3]) /\ p[3] \in R
        BY PartShape
    <2> QED
        BY <2>1 DEF AudioParts
<1> HIDE DEF A, I, R
<1> DEFINE Parts == {f[x] : x \in I \X R}
<1>4. A \subseteq Parts
    <2>1. ASSUME NEW i \in I, NEW role \in R PROVE <<"audio", i, role>> \in Parts
        <3>1. <<i, role>> \in I \X R /\ f[<<i, role>>] = <<"audio", i, role>>
            OBVIOUS
        <3> QED
            BY <3>1
    <2> QED
        BY <1>3, <2>1
<1>5. IsFiniteSet(Parts)
    <2>1. f \in Surjection(I \X R, Parts)
        BY DEF Surjection
    <2> QED
        BY <1>2, <2>1, FS_Surjection
<1> HIDE DEF Parts
<1> QED
    BY <1>4, <1>5, FS_Subset DEF A

(* The images of a request that fits are as many as its model takes.       *)
LEMMA Shown ==
    ASSUME request \in Requests, request.kind # "music", Fits(request, Limits), Limits.images \in Nat,
           NEW role, NEW p \in Tagged(request, role)
    PROVE  p[2] <= Limits.images
<1>1. Len(request.images) <= Limits.images
    BY DEF Fits
<1>2. request.images \in Seq(Frames \cup {"reference_image", "image_to_image"})
    BY RequestTypes
<1>3. p[2] \in 1..Len(request.images)
    BY <1>2 DEF Tagged
<1> DEFINE n == Len(request.images)
           k == Limits.images
<1>4. n \in Nat /\ k \in Nat /\ n <= k /\ p[2] \in 1..n
    BY <1>1, <1>2, <1>3
<1> HIDE DEF n, k
<1>5. p[2] <= k
    BY <1>4
<1> QED
    BY <1>5 DEF k

(* The images and the clips up to the k-th are among the first k.          *)
LEMMA EarlyParts ==
    ASSUME request \in Requests, NEW k \in Nat, NEW p, p[2] <= k
    PROVE  /\ \A role : p \in Tagged(request, role) => p \in FirstOf(Tagged(request, role), k)
           /\ \A role : p \in AnyImage(request, role) => p \in FirstOf(AnyImage(request, role), k)
           /\ p \in Clips(request) => p \in FirstOf(Clips(request), k)
<1>1. DOMAIN request.images \subseteq Nat \ {0} /\ request.videos \in Nat
    <2>1. request.videos \in Nat /\ request.images \in Seq(Frames \cup {"reference_image", "image_to_image"})
        BY RequestTypes
    <2> QED
        BY <2>1
<1>2. ASSUME NEW role PROVE \A q \in Tagged(request, role) : q = <<"image", q[2], role>> /\ q[2] \in Nat \ {0}
    BY <1>1 DEF Tagged
<1>3. ASSUME NEW role PROVE \A q \in AnyImage(request, role) : q = <<"image", q[2], role>> /\ q[2] \in Nat \ {0}
    BY <1>1 DEF AnyImage
<1>4. \A q \in Clips(request) : q = <<"video", q[2], "reference_video">> /\ q[2] \in Nat \ {0}
    BY <1>1 DEF Clips
<1>5. ASSUME NEW role, p \in Tagged(request, role)
      PROVE  p \in FirstOf(Tagged(request, role), k)
    BY <1>2, <1>5, Early
<1>6. ASSUME NEW role, p \in AnyImage(request, role)
      PROVE  p \in FirstOf(AnyImage(request, role), k)
    BY <1>3, <1>6, Early
<1>7. ASSUME p \in Clips(request) PROVE p \in FirstOf(Clips(request), k)
    BY <1>4, <1>7, Early
<1> QED
    BY <1>5, <1>6, <1>7


(* Where a part that is no surplus is found.                               *)
LEMMA Kept ==
    ASSUME request \in Requests, NEW part \in Given(request), ~Surplus(part)
    PROVE  /\ part[3] = "first_frame" =>
                 /\ part \in FirstOf(Tagged(request, "first_frame"), 1)
                 /\ part \in FirstImage(request)
           /\ part[3] = "last_frame" => part \in LastImage(request)
           /\ part[3] = "reference_image" => part \in Tagged(request, "reference_image")
           /\ part[3] = "reference_video" => part \in Clips(request) /\ part[2] <= 5
           /\ part[3] \in {"reference_audio", "continuation_audio"} =>
                 /\ part[1] = "audio" /\ part \in AudioParts(request, part[3])
                 /\ part \in FirstOf({p \in Given(request) : p[1] = "audio"}, 5)
           /\ Limits.exclusive /\ part[3] \in References =>
                 Tagged(request, "first_frame") \cup Tagged(request, "last_frame") = {}
           /\ part[3] \notin Heard \cup {"lyrics"}
           /\ part[2] \in Nat \ {0}
<1>1. /\ \/ part[1] = "image" /\ part \in Tagged(request, part[3])
            /\ part[3] \in Frames \cup {"reference_image", "image_to_image"}
         \/ part[1] = "video" /\ part \in Clips(request) /\ part[3] = "reference_video"
         \/ part[1] = "audio" /\ part \in AudioParts(request, part[3])
            /\ part[3] \in {"reference_audio", "continuation_audio"}
      /\ part[2] \in Nat \ {0}
    BY PartShape
<1>2. part[3] \in Frames => part[1] = "image" /\ part \in FirstOf(Tagged(request, part[3]), 1)
    BY <1>1 DEF Surplus, Frames
<1>3. part[3] = "first_frame" =>
         part \in FirstOf(Tagged(request, "first_frame"), 1) /\ part \in FirstImage(request)
    BY <1>2, FrameSent DEF Frames
<1>4. part[3] = "last_frame" => part \in LastImage(request)
    BY <1>2 DEF Frames, LastImage
<1>5. part[3] = "reference_image" => part \in Tagged(request, "reference_image")
    BY <1>1
<1>6. part[3] = "reference_video" => part \in Clips(request) /\ part[2] <= 5
    <2>1. part[1] = "video" => ~(part[2] > 5)
        BY DEF Surplus
    <2> QED
        BY <1>1, <2>1 DEF Frames
<1>7. part[3] \in {"reference_audio", "continuation_audio"} =>
         /\ part[1] = "audio" /\ part \in AudioParts(request, part[3])
         /\ part \in FirstOf({p \in Given(request) : p[1] = "audio"}, 5)
    BY <1>1 DEF Surplus, Frames
<1>8. ASSUME Limits.exclusive, part[3] \in References
      PROVE  Tagged(request, "first_frame") \cup Tagged(request, "last_frame") = {}
    <2>1. \A p \in Given(request) : p[3] \notin Frames
        BY <1>8 DEF Surplus
    <2>2. \A p \in Tagged(request, "first_frame") \cup Tagged(request, "last_frame") :
             p[3] \in Frames /\ p \in Given(request)
        BY Picked DEF Tagged, Frames
    <2> QED
        BY <2>1, <2>2
<1>9. part[3] \notin Heard \cup {"lyrics"}
    BY <1>1 DEF Heard, Frames
<1> QED
    BY <1>1, <1>3, <1>4, <1>5, <1>6, <1>7, <1>8, <1>9

(* Every documented part of a video that fits reaches its model.           *)
LEMMA VideoParts ==
    ASSUME request \in Requests, request.kind = "video", model \in Served(request.kind),
           Fits(request, Limits),
           NEW part \in Given(request), part[3] \in Limits.yes,
           model \notin InputsIgnored(part[3]), ~Surplus(part)
    PROVE  part \in BodyOf(model, request).items
<1> DEFINE items == BodyOf(model, request).items
           role == part[3]
<1>1. /\ role = "first_frame" =>
             /\ part \in FirstOf(Tagged(request, "first_frame"), 1)
             /\ part \in FirstImage(request)
      /\ role = "last_frame" => part \in LastImage(request)
      /\ role = "reference_image" => part \in Tagged(request, "reference_image")
      /\ role = "reference_video" => part \in Clips(request) /\ part[2] <= 5
      /\ role \in {"reference_audio", "continuation_audio"} =>
             /\ part[1] = "audio" /\ part \in AudioParts(request, role)
             /\ part \in FirstOf({p \in Given(request) : p[1] = "audio"}, 5)
      /\ Limits.exclusive /\ role \in References =>
             Tagged(request, "first_frame") \cup Tagged(request, "last_frame") = {}
      /\ role \notin Heard \cup {"lyrics"}
      /\ part[2] \in Nat \ {0}
    BY Kept
<1>2. ASSUME NEW roles, NEW s, NEW h, Sends(roles, s, h)
      PROVE  role \in roles /\ items = s
    BY <1>2, BodyFields DEF Sends, Plain, Documents
<1>3. ASSUME Documents(Limits, Limits.kind, Frames \cup References \cup Heard)
      PROVE  role \in Frames \cup References
    BY <1>1, <1>3 DEF Documents
<1> HIDE DEF role
<1>4. ASSUME NEW s, NEW h, Sends({"first_frame"} \cup Heard, s, h) \/ Sends({"first_frame"}, s, h),
             FirstImage(request) \subseteq s
      PROVE  part \in items
    BY <1>1, <1>2, <1>4
<1>5. ASSUME NEW h, Sends(Frames \cup {"reference_image"} \cup Heard, Frameset(request), h)
      PROVE  part \in items
    BY <1>1, <1>2, <1>5 DEF Frameset, Frames
<1>6. ASSUME NEW h, Sends(Frames \cup {"reference_video"} \cup Heard, Frameset(request), h),
             model \in DOMAIN Veo31Previews
      PROVE  part \in items
    <2>1. role # "reference_video"
        BY <1>6 DEF InputsIgnored, role
    <2> QED
        BY <1>1, <1>2, <1>6, <2>1 DEF Frameset, Frames
<1>7. ASSUME NEW h,
             Sends(Frames \cup {"reference_image", "reference_video"} \cup Heard,
                   FirstOf(Tagged(request, "first_frame"), 1) \cup LastImage(request)
                     \cup Tagged(request, "reference_image") \cup Clips(request), h)
      PROVE  part \in items
    BY <1>1, <1>2, <1>7 DEF Frames
<1>8. ASSUME NEW h, Sends({"first_frame", "reference_image"} \cup Heard,
                          FirstImage(request) \cup Tagged(request, "reference_image"), h)
      PROVE  part \in items
    BY <1>1, <1>2, <1>8
<1>9. ASSUME NEW h, Sends(Frames, Given(request), h)
      PROVE  part \in items
    BY <1>2, <1>9
<1>10. ASSUME Documents(Limits, Limits.kind, Frames \cup References \cup Heard), Limits.exclusive,
              BodyOf(model, request) = Body(FramesOverReferences(request), Whole)
       PROVE  part \in items
    <2>1. items = FramesOverReferences(request)
        BY <1>10, BodyFields
    <2>2. role \in Frames => part \in Tagged(request, "first_frame") \cup Tagged(request, "last_frame")
        BY <1>1, Picked DEF Frames, LastImage
    <2> QED
        BY <1>1, <1>3, <1>10, <2>1, <2>2 DEF FramesOverReferences
<1>11. ASSUME NEW h, model = "wan2.7-i2v",
              Sends(Frames \cup {"reference_audio"} \cup Heard,
                    FirstOf(Tagged(request, "first_frame"), 1) \cup LastImage(request)
                      \cup FirstOf(AudioParts(request, "reference_audio"), 1), h)
       PROVE  part \in items
    <2>1. role = "reference_audio" => part \in FirstOf(AudioParts(request, "reference_audio"), 1)
        BY <1>1, <1>11 DEF Surplus, role
    <2> QED
        BY <1>1, <1>2, <1>11, <2>1 DEF Frames
<1>12. ASSUME NEW h, Sends(Heard, {}, h)
       PROVE  FALSE
    BY <1>1, <1>2, <1>12
<1>13. ASSUME Documents(Limits, Limits.kind, Frames \cup References \cup Heard), Limits.exclusive,
              Limits.images = 10, BodyOf(model, request) = Wan3Body(request)
       PROVE  part \in items
    <2> DEFINE frames == FirstOf(Tagged(request, "first_frame"), 1) \cup LastImage(request)
               references == FirstOf(Tagged(request, "reference_image"), 10) \cup FirstOf(Clips(request), 5)
                               \cup FirstOf(AudioParts(request, "reference_audio"), 5)
    <2>1. items = IF frames # {} THEN frames ELSE references
        BY <1>13, Wan3Items
    <2>2. role \in Frames \cup References
        BY <1>3, <1>13
    <2>3. CASE role \in Frames
        <3>1. part \in frames
            BY <1>1, <2>3 DEF Frames
        <3> QED
            BY <2>1, <3>1
    <2>4. CASE role \in References
        <3>1. frames = {}
            BY <1>1, <1>13, <2>4, Picked DEF LastImage
        <3>2. ASSUME role = "reference_image" PROVE part \in FirstOf(Tagged(request, "reference_image"), 10)
            <4>1. part \in Tagged(request, "reference_image") /\ part[2] <= 10
                BY <1>1, <1>13, <3>2, Shown
            <4> QED
                BY <4>1, EarlyParts
        <3>3. ASSUME role = "reference_video" PROVE part \in FirstOf(Clips(request), 5)
            BY <1>1, <3>3, EarlyParts
        <3>4. ASSUME role = "reference_audio" PROVE part \in FirstOf(AudioParts(request, "reference_audio"), 5)
            <4> DEFINE A == {p \in Given(request) : p[1] = "audio"}
                       R == AudioParts(request, "reference_audio")
            <4>1. part \in R /\ part \in FirstOf(A, 5)
                BY <1>1, <3>4
            <4>2. R \subseteq A
                BY Picked DEF AudioParts
            <4>3. IsFiniteSet(A)
                BY FiniteAudio
            <4> HIDE DEF A, R
            <4>4. part \in FirstOf(R, 5)
                BY <4>1, <4>2, <4>3, FirstOfFewer
            <4> QED
                BY <4>4 DEF R
        <3>5. part \in references
            BY <2>4, <3>2, <3>3, <3>4 DEF References
        <3> QED
            BY <2>1, <3>1, <3>5
    <2> QED
        BY <2>2, <2>3, <2>4
<1>14. ASSUME Sends({"reference_image"} \cup Heard, FirstOf(AnyImage(request, "reference_image"), 9), Fitted),
              Limits.images = 9
       PROVE  part \in items
    <2>1. role = "reference_image" /\ items = FirstOf(AnyImage(request, "reference_image"), 9)
        BY <1>1, <1>2, <1>14
    <2>2. part \in Tagged(request, "reference_image") /\ part[2] <= 9
        BY <1>1, <1>14, <2>1, Shown
    <2>3. part \in AnyImage(request, "reference_image")
        BY <2>2 DEF Tagged, AnyImage
    <2> QED
        BY <2>1, <2>2, <2>3, EarlyParts
<1> HIDE DEF items
<1>15. part \in items
    BY <1>4, <1>5, <1>6, <1>7, <1>8, <1>9, <1>10, <1>11, <1>12, <1>13, <1>14, VideoFamilies
<1> QED
    BY <1>15 DEF items

(* Every documented part of an image request reaches its model.            *)
LEMMA ImageParts ==
    ASSUME request \in Requests, request.kind = "image", model \in Served(request.kind),
           NEW part \in Given(request), part[3] \in Limits.yes,
           model \notin InputsIgnored(part[3])
    PROVE  part \in BodyOf(model, request).items
<1> DEFINE items == BodyOf(model, request).items
<1>1. ASSUME NEW roles, NEW s, Draws(roles, s)
      PROVE  part[3] \in roles /\ items = s
    BY <1>1, BodyFields DEF Draws, Plain, Documents
<1>2. ~Draws({}, {})
    BY <1>1
<1>3. ASSUME Draws({"image_to_image"}, {})
      PROVE  model \notin DOMAIN OpenAIImages \cup DOMAIN StabilityImages \cup DOMAIN QwenImages
    BY <1>1, <1>3 DEF InputsIgnored
<1>4. ASSUME Draws({"image_to_image"}, Given(request))
      PROVE  part \in items
    BY <1>1, <1>4
<1> HIDE DEF items
<1>5. part \in items
    BY <1>2, <1>3, <1>4, ImageFamilies
<1> QED
    BY <1>5 DEF items

(* Every documented part of a song that is no surplus reaches its model.   *)
LEMMA MusicParts ==
    ASSUME request \in Requests, request.kind = "music", model \in Served(request.kind),
           NEW part \in Given(request), part[3] \in Limits.yes,
           model \notin InputsIgnored(part[3]), ~Surplus(part)
    PROVE  part \in BodyOf(model, request).items
<1> DEFINE items == BodyOf(model, request).items
<1>1. ASSUME NEW roles, NEW s, NEW h, NEW c, Plays(roles, s, h, c)
      PROVE  part[3] \in roles /\ items = s
    BY <1>1, BodyFields DEF Plays, Plain, Documents
<1>2. part[3] # "lyrics"
    BY PartShape DEF Frames
<1>3. part[3] \in {"reference_audio", "continuation_audio"} =>
         part[1] = "audio" /\ part \in TaggedAudio(part[3])
    <2>1. part[3] \in {"reference_audio", "continuation_audio"} => part[1] = "audio"
        BY PartShape DEF Frames
    <2> QED
        BY <2>1 DEF Surplus, TaggedAudio
<1>4. ASSUME NEW h, NEW c, Plays({"lyrics"}, Given(request), h, c) \/ Plays({"lyrics"}, {}, h, c)
      PROVE  FALSE
    BY <1>1, <1>2, <1>4
<1>5. ASSUME NEW h, NEW c,
             Plays({"lyrics", "reference_audio"}, TaggedAudio("reference_audio"), h, c)
      PROVE  part \in items
    BY <1>1, <1>2, <1>3, <1>5
<1>6. ASSUME NEW h, NEW c, model \in DOMAIN ElevenMusic \cup DOMAIN MurekaMusic,
             \/ Plays({"lyrics", "reference_audio"}, {}, h, c)
             \/ Plays({"lyrics", "reference_audio", "continuation_audio"}, {}, h, c)
      PROVE  FALSE
    BY <1>1, <1>2, <1>6 DEF InputsIgnored
<1>7. ASSUME NEW h, NEW c, model \in DOMAIN AceStepMusic,
             Plays({"lyrics", "reference_audio", "continuation_audio"}, AceStepSource(request), h, c)
      PROVE  part \in items
    <2>1. part[3] \in {"reference_audio", "continuation_audio"} /\ items = AceStepSource(request)
        BY <1>1, <1>2, <1>7
    <2>2. CASE part[3] = "continuation_audio"
        BY <1>3, <2>1, <2>2 DEF AceStepSource, TaggedAudio, FirstOf
    <2>3. CASE part[3] = "reference_audio"
        <3>1. AudioParts(request, "continuation_audio") = {}
            BY <1>7, <2>3 DEF Surplus
        <3> QED
            BY <1>3, <2>1, <2>3, <3>1 DEF AceStepSource, TaggedAudio
    <2> QED
        BY <2>1, <2>2, <2>3
<1> HIDE DEF items
<1>8. part \in items
    BY <1>4, <1>5, <1>6, <1>7, MusicFamilies
<1> QED
    BY <1>8 DEF items

-----------------------------------------------------------------------------
(* Counts and lengths.                                                     *)

(* The numbers an entry documents.                                         *)
LEMMA LimitTypes ==
    ASSUME request.kind \in {"image", "video", "music"}, model \in Served(request.kind)
    PROVE  /\ Limits.outputs \in Nat \ {0} /\ Limits.images \in Nat
           /\ Limits.shortest \in Nat /\ Limits.longest \in Nat
<1> DEFINE Sound == /\ Limits.outputs \in Nat \ {0} /\ Limits.images \in Nat
                    /\ Limits.shortest \in Nat /\ Limits.longest \in Nat
<1>1. \A roles : Documents(Limits, Limits.kind, roles) => Sound
    BY DEF Documents
<1> HIDE DEF Sound
<1>2. /\ \A roles, s, h : Sends(roles, s, h) => Sound
      /\ \A roles, s : Draws(roles, s) => Sound
      /\ \A roles, s, h, c : Plays(roles, s, h, c) => Sound
    BY <1>1 DEF Sends, Draws, Plays, Plain
<1>3. ASSUME request.kind = "video" PROVE Sound
    BY <1>1, <1>2, <1>3, VideoFamilies
<1>4. ASSUME request.kind = "image" PROVE Sound
    BY <1>2, <1>4, ImageFamilies
<1>5. ASSUME request.kind = "music" PROVE Sound
    BY <1>2, <1>5, MusicFamilies
<1> QED
    BY <1>3, <1>4, <1>5 DEF Sound

(* The length and the count of a body.                                     *)
LEMMA Measured ==
    ASSUME request \in Requests, model \in Served(request.kind)
    PROVE  /\ LengthOf(Limits, request, BodyOf(model, request).halves)
           /\ BodyOf(model, request).count \in Counts
           /\ request.kind = "video" => BodyOf(model, request).count = 0
<1> DEFINE b == BodyOf(model, request)
           L(h) == LengthOf(Limits, request, h)
           C(c) == c \in Counts
<1>1. /\ L(0) /\ L(Whole) /\ L(Fitted) /\ L(request.halves)
      /\ Limits.shortest = 3 /\ Limits.longest = 600 =>
            L(IF request.halves = 0 THEN 0 ELSE Clamped(3, 600, request.halves))
    BY DEF LengthOf, Whole, Fitted
<1>2. ASSUME request.kind = "video"
      PROVE  L(b.halves) /\ b.count = 0
    <2>1. ASSUME NEW roles, NEW s, NEW h, Sends(roles, s, h), L(h)
          PROVE  L(b.halves) /\ b.count = 0
        BY <2>1, BodyFields DEF Sends
    <2>2. ASSUME b = Body(FramesOverReferences(request), Whole)
          PROVE  L(b.halves) /\ b.count = 0
        BY <1>1, <2>2, BodyFields
    <2>3. ASSUME b = Wan3Body(request), Limits.shortest = 2, Limits.longest = 30
          PROVE  L(b.halves) /\ b.count = 0
        <3>1. b.halves = Fitted /\ b.count = 0
            BY <2>3, Wan3Items DEF Fitted
        <3> QED
            BY <1>1, <3>1
    <2> HIDE DEF b, L
    <2>4. L(b.halves) /\ b.count = 0
        BY <1>1, <1>2, <2>1, <2>2, <2>3, VideoFamilies DEF b
    <2> QED
        BY <2>4
<1>3. ASSUME request.kind = "image"
      PROVE  L(b.halves) /\ C(b.count)
    <2>1. ASSUME NEW roles, NEW s, Draws(roles, s)
          PROVE  L(b.halves) /\ C(b.count)
        <3>1. PICK count \in Counts : b = Pictures(s, count)
            BY <2>1 DEF Draws
        <3>2. b.halves = 0 /\ b.count = count
            BY <3>1, BodyFields
        <3> QED
            BY <1>1, <3>1, <3>2
    <2> HIDE DEF b, L, C
    <2> QED
        BY <1>3, <2>1, ImageFamilies
<1>4. ASSUME request.kind = "music"
      PROVE  L(b.halves) /\ C(b.count)
    <2>1. ASSUME NEW roles, NEW s, NEW h, NEW c, Plays(roles, s, h, c), L(h), c \in {0, request.n}
          PROVE  L(b.halves) /\ C(b.count)
        BY <2>1, BodyFields DEF Plays, Counts
    <2> HIDE DEF b, L, C
    <2> QED
        BY <1>1, <1>4, <2>1, MusicFamilies
<1>5. request.kind \in {"image", "video", "music"}
    BY RequestTypes
<1>6. C(0)
    BY DEF Counts
<1> HIDE DEF b, L, C
<1>7. L(b.halves) /\ C(b.count) /\ (request.kind = "video" => b.count = 0)
    BY <1>2, <1>3, <1>4, <1>5, <1>6
<1> QED
    BY <1>7 DEF b, L, C

(* Where the count is left to the vendor, none is asked for, and the model *)
(* documents two outputs at least.                                         *)
LEMMA LeftToVendor ==
    ASSUME CountLeftToVendor, model \in Served(request.kind)
    PROVE  BodyOf(model, request).count = 0 /\ Limits.outputs >= 2
<1>1. BodyOf(model, request) = MusicBody(model, request)
    BY DEF BodyOf, CountLeftToVendor
<1>2. ASSUME NEW t \in MusicTables, model \in DOMAIN t
      PROVE  Limits = t[model]
    BY <1>2, LimitsAt, ListKinds DEF MediaLists, CountLeftToVendor
<1>3. CASE model \in DOMAIN ChirpMusic
    <2>1. Limits = ChirpMusic[model]
        BY <1>2, <1>3 DEF MusicTables
    <2>2. ChirpMusic[model].outputs = 2
        BY <1>3 DEF ChirpMusic, Music, Entry, Unlisted
    <2>3. BodyOf(model, request) = SongBody({}, 0, 0, "none")
        BY <1>1, <1>3, MusicDispatch DEF ChirpBody
    <2> QED
        BY <2>1, <2>2, <2>3, BodyFields
<1>4. CASE model \in DOMAIN MurekaMusic
    <2>1. Limits = MurekaMusic[model]
        BY <1>2, <1>4 DEF MusicTables
    <2>2. MurekaMusic[model].outputs = 3
        BY <1>4 DEF MurekaMusic, Music, Entry, Unlisted
    <2>3. BodyOf(model, request) = SongBody({}, Whole, 0, "none")
        BY <1>1, <1>4, MusicDispatch DEF MurekaBody, Whole
    <2> QED
        BY <2>1, <2>2, <2>3, BodyFields
<1> QED
    BY <1>3, <1>4 DEF CountLeftToVendor

(* The outputs a vendor makes when a body asks for c of them.              *)
MadeFor(c) == IF c # 0 THEN c ELSE IF CountLeftToVendor THEN 2 ELSE 1

(* What a vendor makes was billed, unless the count is left to it, and is  *)
(* documented when the request fits.                                       *)
LEMMA CountKept ==
    ASSUME request \in Requests, model \in Served(request.kind),
           NEW c \in Counts, request.kind = "video" => c = 0,
           CountLeftToVendor => c = 0 /\ Limits.outputs >= 2
    PROVE  /\ c \in Nat
           /\ ~CountLeftToVendor => MadeFor(c) <= BilledCount(request)
           /\ Fits(request, Limits) => MadeFor(c) <= Limits.outputs
<1> DEFINE n == request.n
           most == Limits.outputs
<1>1. request.kind \in {"image", "video", "music"} /\ n \in Nat
    BY RequestTypes
<1>2. most \in Nat \ {0}
    BY <1>1, LimitTypes
<1>3. c \in Nat /\ c <= n
    BY <1>1 DEF Counts
<1>4. CASE request.kind = "video"
    BY <1>2, <1>3, <1>4 DEF BilledCount, MadeFor, CountLeftToVendor
<1>5. CASE request.kind # "video"
    <2>1. BilledCount(request) = IF n = 0 THEN 1 ELSE n
        BY <1>5 DEF BilledCount
    <2>2. Fits(request, Limits) => n <= most
        BY <1>5 DEF Fits
    <2>3. CASE CountLeftToVendor
        BY <1>2, <1>3, <2>3 DEF MadeFor
    <2>4. CASE ~CountLeftToVendor
        <3>1. MadeFor(c) = IF c # 0 THEN c ELSE 1
            BY <2>4 DEF MadeFor
        <3> HIDE DEF most, n
        <3>2. MadeFor(c) <= BilledCount(request)
            BY <1>1, <1>3, <2>1, <3>1
        <3>3. Fits(request, Limits) => MadeFor(c) <= most
            BY <1>1, <1>2, <1>3, <2>2, <3>1
        <3> QED
            BY <1>3, <3>2, <3>3 DEF most
    <2> QED
        BY <2>3, <2>4
<1> QED
    BY <1>4, <1>5

(* What the parts of a body are.                                           *)
LEMMA ItemTypes ==
    ASSUME request \in Requests, model \in Served(request.kind)
    PROVE  \A item \in BodyOf(model, request).items :
              item[1] \in {"image", "video", "audio"} /\ item[2] \in Nat
<1> DEFINE items == BodyOf(model, request).items
           Good(p) == p[1] \in {"image", "video", "audio"} /\ p[2] \in Nat
<1>1. \A p \in Given(request) : Good(p)
    BY PartShape
<1>2. \A p \in FirstImage(request) : Good(p)
    BY Animated
<1>3. \A p \in AnyImage(request, "reference_image") : Good(p)
    <2>1. request.images \in Seq(Frames \cup {"reference_image", "image_to_image"})
        BY RequestTypes
    <2>2. DOMAIN request.images \subseteq Nat
        BY <2>1
    <2> QED
        BY <2>2 DEF AnyImage
<1>4. request.kind \in {"image", "video", "music"}
    BY RequestTypes
<1> HIDE DEF Good
<1>5. \/ items \subseteq Given(request) \cup FirstImage(request)
      \/ items \subseteq AnyImage(request, "reference_image")
    BY <1>4, VideoItems, OtherItems
<1> HIDE DEF items
<1>6. \A p \in items : Good(p)
    BY <1>1, <1>2, <1>3, <1>5
<1> QED
    BY <1>6 DEF items, Good

-----------------------------------------------------------------------------
(* Every state.                                                            *)

\* What is sent is the adapter's body for a request that was let through.
SentInv ==
    /\ request \in Requests /\ model \in Served(request.kind)
    /\ stage \in {"profiled", "rejected", "refused", "sent"}
    /\ stage # "sent" => sent = Nothing
    /\ stage = "sent" => sent = BodyOf(model, request) /\ (pinned = TRUE \/ Fits(request, Limits))

(* Only what the router lets through, or the client named, is sent.        *)
LEMMA Sending == Spec => []SentInv
<1>1. Init => SentInv
    BY DEF Init, SentInv
<1>2. ASSUME SentInv, [Next]_vars PROVE SentInv'
    <2>1. CASE Reject
        BY <1>2, <2>1 DEF SentInv, Reject
    <2>2. CASE Refuse
        BY <1>2, <2>2 DEF SentInv, Refuse
    <2>3. CASE Send
        <3>1. request' = request /\ model' = model /\ pinned' = pinned
            BY <2>3 DEF Send
        <3>2. Limits' = Limits
            BY <3>1 DEF Limits
        <3>3. sent' = BodyOf(model, request) /\ (pinned = TRUE \/ Fits(request, Limits)) /\ stage' = "sent"
            BY <2>3 DEF Send
        <3> QED
            BY <1>2, <3>1, <3>2, <3>3 DEF SentInv
    <2>4. CASE UNCHANGED vars
        BY <1>2, <2>4 DEF SentInv, vars, Limits
    <2> QED
        BY <1>2, <2>1, <2>2, <2>3, <2>4 DEF Next, Done
<1> QED
    BY <1>1, <1>2, PTL DEF Spec

(* No model is sent an input in a role it is documented not to have, and   *)
(* frames and references never meet where they exclude each other: the     *)
(* router's reading of a request (router._video_profile, router._fits)     *)
(* against the bodies of the adapters, for every request and every entry   *)
(* of the catalogue.                                                       *)
THEOREM InputsAreSupported == Spec => []InputsSupported
<1>1. ASSUME SentInv PROVE InputsSupported
    <2>1. CASE stage # "sent"
        BY <2>1 DEF InputsSupported, NothingUnsupportedSent, ExclusiveModesKept, Routed
    <2>2. CASE stage = "sent"
        <3>1. /\ request \in Requests /\ model \in Served(request.kind)
              /\ sent = BodyOf(model, request) /\ (pinned = TRUE \/ Fits(request, Limits))
            BY <1>1, <2>2 DEF SentInv
        <3>2. request.kind \in {"image", "video", "music"}
            BY <3>1, RequestTypes
        <3>3. Fits(request, Limits) => \A item \in sent.items : item[3] \notin Limits.no
            <4>1. CASE request.kind = "video"
                BY <3>1, <4>1, VideoRoles
            <4>2. CASE request.kind # "video"
                <5>1. sent.items \subseteq Given(request)
                    BY <3>1, <3>2, <4>2, OtherItems
                <5> QED
                    BY <5>1, RolesKept
            <4> QED
                BY <4>1, <4>2
        <3>4. Limits.exclusive => \/ \A item \in sent.items : item[3] \notin Frames
                                  \/ \A item \in sent.items : item[3] \notin References
            BY <3>1, <3>2, VideoModes, OtherItems
        <3> QED
            BY <3>1, <3>3, <3>4 DEF InputsSupported, NothingUnsupportedSent, ExclusiveModesKept, Routed
    <2> QED
        BY <2>1, <2>2
<1> QED
    BY <1>1, Sending, PTL

(* Every part of a request the router let through reaches its model in its *)
(* role when the model is documented to take it, but for the surplus that  *)
(* Surplus names and the models that InputsIgnored names (models/limits.py *)
(* against the bodies of the adapters).                                    *)
THEOREM DocumentedPartsAreSent == Spec => []DocumentedPartsSent
<1>1. ASSUME SentInv PROVE DocumentedPartsSent
    <2> SUFFICES ASSUME Routed,
                        NEW part \in Given(request), part[3] \in Limits.yes,
                        model \notin InputsIgnored(part[3]), ~Surplus(part)
                 PROVE  part \in sent.items
        BY DEF DocumentedPartsSent
    <2>1. /\ request \in Requests /\ model \in Served(request.kind)
          /\ sent = BodyOf(model, request) /\ Fits(request, Limits)
        BY <1>1 DEF SentInv, Routed
    <2>2. request.kind \in {"image", "video", "music"}
        BY <2>1, RequestTypes
    <2> QED
        BY <2>1, <2>2, VideoParts, ImageParts, MusicParts
<1> QED
    BY <1>1, Sending, PTL

(* The upstream is asked for a length inside the model's documented range, *)
(* at most half a second above the billed one, and makes as many outputs   *)
(* as were billed at most, but for the two adapters that leave the count   *)
(* to the vendor; a routed model makes no more than it is documented to    *)
(* (pricing.estimate and router._fits against the adapters' bodies).       *)
THEOREM AsksWithinBounds == Spec => []AskedWithinBounds
<1>1. ASSUME SentInv PROVE AskedWithinBounds
    <2>1. stage \in {"profiled", "rejected", "refused", "sent"}
        BY <1>1 DEF SentInv
    <2>2. CASE stage # "sent"
        <3>1. sent.items = {} /\ sent.halves = 0 /\ sent.count = 0
            BY <1>1, <2>2 DEF SentInv, Nothing
        <3> QED
            BY <2>1, <2>2, <3>1
               DEF AskedWithinBounds, TypeOK, LengthsDocumentedAndBilled,
                   CountsDocumentedAndBilled, Routed
    <2>3. CASE stage = "sent"
        <3>1. /\ request \in Requests /\ model \in Served(request.kind)
              /\ sent = BodyOf(model, request) /\ (pinned = TRUE \/ Fits(request, Limits))
            BY <1>1, <2>3 DEF SentInv
        <3>2. request.kind \in {"image", "video", "music"} /\ request.halves \in Nat
            BY <3>1, RequestTypes
        <3>3. Limits.shortest \in Nat /\ Limits.longest \in Nat
            BY <3>1, <3>2, LimitTypes
        <3>4. LengthOf(Limits, request, sent.halves)
            BY <3>1, Measured
        <3>5. sent.halves \in Nat
            BY <3>2, <3>3, <3>4, LengthTypes
        <3>6. Fits(request, Limits) /\ sent.halves # 0 =>
                 /\ sent.halves \in 2 * Limits.shortest .. 2 * Limits.longest
                 /\ sent.halves <= BilledHalves(request, Limits) + 1
            BY <3>2, <3>3, <3>4, LengthKept
        <3>7. /\ sent.count \in Nat
              /\ ~CountLeftToVendor => Made <= BilledCount(request)
              /\ Fits(request, Limits) => Made <= Limits.outputs
            <4>1. sent.count \in Counts /\ (request.kind = "video" => sent.count = 0)
                BY <3>1, Measured
            <4>2. CountLeftToVendor => sent.count = 0 /\ Limits.outputs >= 2
                BY <3>1, LeftToVendor
            <4>3. Made = MadeFor(sent.count)
                BY DEF Made, MadeFor
            <4> QED
                BY <3>1, <4>1, <4>2, <4>3, CountKept
        <3>8. \A item \in sent.items : item[1] \in {"image", "video", "audio"} /\ item[2] \in Nat
            BY <3>1, ItemTypes
        <3>9. TypeOK
            BY <2>1, <3>5, <3>7, <3>8 DEF TypeOK
        <3>10. LengthsDocumentedAndBilled
            BY <3>1, <3>6 DEF LengthsDocumentedAndBilled, Routed
        <3>11. CountsDocumentedAndBilled
            BY <3>1, <3>7 DEF CountsDocumentedAndBilled
        <3> QED
            BY <3>9, <3>10, <3>11 DEF AskedWithinBounds
    <2> QED
        BY <2>2, <2>3
<1> QED
    BY <1>1, Sending, PTL
=============================================================================
