---------------------------- MODULE HookPipeline ----------------------------
(***************************************************************************)
(* The HTTP plugin middleware (plugins/middleware.py): request hooks in    *)
(* order, the handler or a short circuit, then response and chunk hooks in *)
(* reverse over the ASGI messages the handler sends, with a JSON body held *)
(* back until it is whole.                                                 *)
(*                                                                         *)
(* A body is its length and a hook's edit adds to it.  What a hook does is *)
(* its own: it keeps, edits, answers or fails (an exception, a timeout and *)
(* an invalid result alike), and its failure mode decides what follows.    *)
(***************************************************************************)
EXTENDS Integers, Sequences, SequencesExt

CONSTANTS
    Pipelines,  \* sequences of leased plugins, records [id, hooks, closed, json]
    Limit       \* plugins_max_body_bytes, in the unit of lengths

ASSUME PipelineAssumption ==
    /\ \A pipeline \in Pipelines : pipeline \in Seq(ToSet(pipeline))
    /\ Limit \in Nat

VARIABLES
    plugins, method,
    stage,      \* "arrive", "request", "handler", "start", "hooks", "body", and how it ended
    turn,       \* the hook loop's position
    entered,    \* plugins whose turn came on the way in
    edits,      \* what the request passed on holds: who edited it, in order
    app,        \* what the handler (or the short circuit) answers
    rest,       \* lengths of its body messages not yet sent
    head,       \* the start message in the making: [status, length, buffering]
    buffer,
    wire,       \* history: what was sent to the client
    unwound     \* history: whose on_response ran

hookVars == <<plugins, method, stage, turn, entered, edits, app, rest, head, buffer, wire, unwound>>

None == -1
Bodyless == {204, 205, 304}
Ended == {"done", "aborted", "refused", "gone"}

Has(hook) == {i \in DOMAIN plugins : hook \in plugins[i].hooks}

InnermostFirst == Reverse(entered)

\* The sum of lengths is the number of their units.
Sum(lengths) == Cardinality(UNION {{i} \X (1..lengths[i]) : i \in DOMAIN lengths})
Started == \E i \in DOMAIN wire : wire[i].type = "start"
Bodies(messages) == Sum([i \in DOMAIN messages |-> messages[i].size])

Start(status, length) == [type |-> "start", status |-> status, length |-> length, size |-> 0]
Body(size, more) == [type |-> "body", status |-> 0, length |-> None, size |-> size, more |-> more]

NoHead == [status |-> 0, length |-> None, buffering |-> FALSE]

HookInit ==
    /\ plugins \in Pipelines /\ method \in {"GET", "HEAD"}
    /\ stage = "arrive" /\ turn = 1 /\ entered = <<>> /\ edits = <<>>
    /\ app = [status |-> 0, json |-> FALSE, length |-> None] /\ rest = <<>>
    /\ head = NoHead /\ buffer = 0 /\ wire = <<>> /\ unwound = <<>>

\* Before the headers went out a failure is a problem response, after them an abort.
Fail(status) ==
    IF Started THEN stage' = "aborted" /\ UNCHANGED wire
    ELSE stage' = "refused" /\ wire' = <<Start(status, 1), Body(1, FALSE)>>

\* _invoke: with failure mode "open" a failed hook leaves things as they were.
Tolerated(plugin) == ~plugin.closed

---------------------------------------------------------------------------
(* On the way in *)

\* The body is read whole only for a request hook, and then bounded.
ReadBody ==
    /\ stage = "arrive"
    /\ \/ stage' = "request" /\ UNCHANGED wire
       \/ Has("request") # {} /\ Fail(413)
       \/ Has("request") # {} /\ stage' = "gone" /\ UNCHANGED wire
    /\ UNCHANGED <<plugins, method, turn, entered, edits, app, rest, head, buffer, unwound>>

Answer(response, lengths) ==
    /\ app' = response /\ rest' = lengths
    /\ stage' = "start" /\ turn' = 1

RequestHook ==
    /\ stage = "request" /\ turn <= Len(plugins)
    /\ LET plugin == plugins[turn]
           Continue == turn' = turn + 1 /\ UNCHANGED <<stage, app, rest, wire>>
       IN  /\ entered' = Append(entered, plugin)
           /\ IF "request" \notin plugin.hooks THEN Continue /\ UNCHANGED edits
              ELSE \/ edits' \in {edits, Append(edits, plugin.id)} /\ Continue
                   \/ edits' \in {edits, Append(edits, plugin.id)} /\ UNCHANGED wire
                      /\ \E status \in {204, 403}, size \in 0..1 :
                           Answer([status |-> status, json |-> TRUE, length |-> None], <<size>>)
                   \/ /\ UNCHANGED edits
                      /\ IF Tolerated(plugin) THEN Continue ELSE Fail(500) /\ UNCHANGED <<turn, app, rest>>
    /\ UNCHANGED <<plugins, method, head, buffer, unwound>>

RequestPassed ==
    /\ stage = "request" /\ turn > Len(plugins)
    /\ stage' = "handler"
    /\ UNCHANGED <<plugins, method, turn, entered, edits, app, rest, head, buffer, wire, unwound>>

\* What the gateway's own handlers answer: JSON of known length, a stream, nothing.
HandlerAnswers ==
    /\ stage = "handler"
    /\ \/ \E lengths \in {<<1>>, <<1, 2>>, <<2, 2>>} :
            Answer([status |-> 200, json |-> TRUE, length |-> Sum(lengths)], lengths)
       \/ \E lengths \in {<<0>>, <<1, 1, 0>>} : Answer([status |-> 200, json |-> FALSE, length |-> None], lengths)
       \/ Answer([status |-> 204, json |-> FALSE, length |-> None], <<0>>)
    /\ UNCHANGED <<plugins, method, entered, edits, head, buffer, wire, unwound>>

---------------------------------------------------------------------------
(* On the way out *)

BodyAllowed == method # "HEAD" /\ head.status \notin Bodyless
Chunked == {i \in DOMAIN entered : "chunk" \in entered[i].hooks}

\* The start message: a JSON body is held back for the plugins that asked for it.
ResponseStarts ==
    /\ stage = "start"
    /\ head' = [status |-> app.status,
                length |-> app.length,
                buffering |-> /\ method # "HEAD" /\ app.status \notin Bodyless /\ app.json
                              /\ \E i \in DOMAIN entered : entered[i].json]
    /\ stage' = IF head'.buffering THEN "body" ELSE "hooks"
    /\ turn' = 1 /\ buffer' = 0
    /\ UNCHANGED <<plugins, method, entered, edits, app, rest, wire, unwound>>

\* on_response edits the status, and the body when it was held back.
ResponseHook ==
    /\ stage = "hooks" /\ turn <= Len(entered)
    /\ LET plugin == InnermostFirst[turn]
           Continue == turn' = turn + 1 /\ UNCHANGED <<stage, wire>>
       IN  IF "response" \notin plugin.hooks THEN Continue /\ UNCHANGED <<head, buffer, unwound>>
           ELSE /\ unwound' = Append(unwound, plugin.id)
                /\ \/ \E status \in {head.status, 204} : head' = [head EXCEPT !.status = status] /\ Continue
                      /\ buffer' \in {buffer} \cup (IF head.buffering /\ buffer < Limit THEN {buffer + 1} ELSE {})
                   \/ /\ UNCHANGED <<head, buffer>>
                      /\ IF Tolerated(plugin) THEN Continue ELSE Fail(500) /\ UNCHANGED turn
    /\ UNCHANGED <<plugins, method, entered, edits, app, rest>>

\* The chunk hooks, in reverse order, may let the chunk grow; nothing else adds a body.
Edited(size) ==
    LET grown == IF Chunked = {} \/ size = Limit THEN {size} ELSE {size, size + 1}
    IN  IF BodyAllowed THEN grown ELSE {0}

\* A hook of a closed plugin that fails ends the response.
ChunkFails == (\E i \in Chunked : entered[i].closed) /\ Fail(500) /\ UNCHANGED <<rest, turn>>

\* Headers of a streamed body go out as soon as the hooks have seen them.
StreamHead ==
    /\ stage = "hooks" /\ turn > Len(entered) /\ ~head.buffering
    /\ LET declared == IF Chunked # {} \/ head.status \in Bodyless THEN None ELSE head.length
       IN  wire' = Append(wire, Start(head.status, declared))
    /\ stage' = "body"
    /\ UNCHANGED <<plugins, method, turn, entered, edits, app, rest, head, buffer, unwound>>

StreamChunk ==
    /\ stage = "body" /\ ~head.buffering /\ rest # <<>>
    /\ \/ /\ \E size \in Edited(Head(rest)) : wire' = Append(wire, Body(size, Len(rest) > 1))
          /\ rest' = Tail(rest)
          /\ stage' = IF Len(rest) = 1 THEN "done" ELSE "body"
          /\ UNCHANGED turn
       \/ ChunkFails
    /\ UNCHANGED <<plugins, method, entered, edits, app, head, buffer, unwound>>

\* A body held back is bounded; the whole of it is what on_response sees.
BufferChunk ==
    /\ stage = "body" /\ head.buffering /\ rest # <<>>
    /\ IF buffer + Head(rest) > Limit
       THEN Fail(502) /\ UNCHANGED <<rest, buffer, turn>>
       ELSE /\ buffer' = buffer + Head(rest) /\ rest' = Tail(rest) /\ turn' = 1
            /\ stage' = IF Len(rest) = 1 THEN "hooks" ELSE "body"
            /\ UNCHANGED wire
    /\ UNCHANGED <<plugins, method, entered, edits, app, head, unwound>>

\* Mutant: the handler's content length goes out with the edited body.
BufferedKeepsLength ==
    /\ stage = "hooks" /\ turn > Len(entered) /\ head.buffering
    /\ \/ /\ \E size \in Edited(buffer) : wire' = <<Start(head.status, head.length), Body(size, FALSE)>>
          /\ stage' = "done" /\ UNCHANGED <<rest, turn>>
       \/ ChunkFails
    /\ UNCHANGED <<plugins, method, entered, edits, app, head, buffer, unwound>>

\* The edited body goes out as one message behind a head of its own length.
BufferedSend ==
    /\ stage = "hooks" /\ turn > Len(entered) /\ head.buffering
    /\ \/ /\ \E size \in Edited(buffer) :
               wire' = <<Start(head.status, IF head.status \in Bodyless THEN None ELSE size), Body(size, FALSE)>>
          /\ stage' = "done" /\ UNCHANGED <<rest, turn>>
       \/ ChunkFails
    /\ UNCHANGED <<plugins, method, entered, edits, app, head, buffer, unwound>>

HookStep ==
    \/ ReadBody \/ RequestHook \/ RequestPassed \/ ResponseStarts \/ ResponseHook
    \/ StreamHead \/ StreamChunk \/ BufferChunk \/ BufferedSend

---------------------------------------------------------------------------
(* Properties *)

HookTypeOK ==
    /\ turn \in 1..(Len(plugins) + 1) /\ buffer \in 0..Limit
    /\ stage \in {"arrive", "request", "handler", "start", "hooks", "body"} \cup Ended
    /\ head.status \in {0} \cup 200..599

\* One start message, then bodies, the last of them final; a failure once headers
\* went out aborts and adds nothing, and no byte of the handler's answer is in a
\* refusal (plugins.md:284-286; PluginMiddleware.__call__).
WireWellFormed ==
    /\ \A i \in DOMAIN wire : (wire[i].type = "start") = (i = 1)
    /\ \A i \in DOMAIN wire : i > 1 => wire[i].more = (i < Len(wire) \/ stage \notin {"done", "refused"})
    /\ stage = "refused" => Len(wire) = 2 /\ wire[1].status \in {413, 500, 502}

\* A response that completes carries the length it declares, and a status or a
\* method without a body carries none (plugins.md:141, 155; process_send).
LengthsMatch ==
    stage = "done" =>
        LET declared == wire[1].length
            carried == Bodies(Tail(wire))
        IN  /\ method # "HEAD" /\ declared # None => declared = carried
            /\ method = "HEAD" => carried = 0
            /\ wire[1].status \in Bodyless => carried = 0 /\ declared = None

\* on_response ran for the entered plugins behind position n that have one, once
\* each and innermost first.
UnwoundTo(n) ==
    \E at \in [DOMAIN unwound -> DOMAIN entered] :
        /\ \A i, j \in DOMAIN unwound : i < j => at[j] < at[i]
        /\ \A i \in DOMAIN unwound : unwound[i] = entered[at[i]].id
        /\ {at[i] : i \in DOMAIN unwound} = {k \in DOMAIN entered : k > n /\ "response" \in entered[k].hooks}

\* on_response runs once for each plugin already entered, innermost first, and for
\* no other: a short circuit unwinds only those (plugins.md:158-160; _process).
UnwindsEntered ==
    /\ \A i \in DOMAIN entered : i <= Len(plugins) /\ entered[i] = plugins[i]
    /\ \E n \in 0..Len(entered) : UnwoundTo(n)
    /\ stage = "done" => UnwoundTo(0)
    /\ \A i \in DOMAIN edits : \E j \in DOMAIN entered : edits[i] = entered[j].id
=============================================================================
