--------------------------- MODULE MCMediaRequests ---------------------------
(* Requests with up to two parts in every order, and a few past each ceiling *)
EXTENDS MediaRequests

Times(role, k) == [i \in 1..k |-> role]

Rows(roles) ==
    {<<>>} \cup {<<a>> : a \in roles} \cup {<<a, b>> : a, b \in roles}

MCRequests ==
    [kind : {"video"}, n : {0}, lyrics : {FALSE}, sound : {"unset", "on"},
     images : Rows(Frames \cup {"reference_image"})
                \cup {Times("reference_image", 11), <<"reference_image", "last_frame", "first_frame">>},
     videos : {0, 1, 6}, audios : {<<>>, Times("reference_audio", 1), Times("reference_audio", 6)},
     halves : {0, 5, 7, 41}]
    \cup
    [kind : {"image"}, n : {0, 1, 3, 16}, lyrics : {FALSE}, sound : {"unset"},
     images : {Times("image_to_image", k) : k \in {0, 1, 2, 12}}, videos : {0}, audios : {<<>>}, halves : {0}]
    \cup
    [kind : {"music"}, n : {0, 2, 5}, lyrics : BOOLEAN, sound : {"unset"},
     images : {Times("reference_image", k) : k \in {0, 1, 12}}, videos : {0},
     audios : Rows({"reference_audio", "continuation_audio"}), halves : {0, 7, 21, 61}]

\* An id of OpenRouter's catalogue, which this one does not list.
MCModels == DOMAIN Images \cup DOMAIN Videos \cup DOMAIN Songs \cup {"vendor/unlisted"}
===============================================================================
