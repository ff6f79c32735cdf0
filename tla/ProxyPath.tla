------------------------------ MODULE ProxyPath ------------------------------
(***************************************************************************)
(* The pass-through proxy (proxy.py): an HTTP request forwarded over the   *)
(* ranked accounts and streamed back through the plugin pipeline, and a    *)
(* WebSocket bridged in both directions once an account's handshake goes   *)
(* through.  A frame is its number among those of its sender, close codes  *)
(* are an ordinary one, a reserved one or none.                            *)
(*                                                                         *)
(* A request of the gateway's own routes takes the same pipeline, and      *)
(* `kind` says which of the three a behaviour is about.                    *)
(***************************************************************************)
EXTENDS HookPipeline

CONSTANTS
    Accounts,   \* the credentials of the proxy, best first (_ranked_accounts)
    MaxFrames   \* bound on the frames each side of a socket sends

\* forward() refuses a proxy without accounts before it makes an attempt.
ASSUME ProxyAssumption ==
    /\ Accounts \in Seq(ToSet(Accounts)) /\ Accounts # <<>>
    /\ MaxFrames \in Nat

VARIABLES
    kind,       \* "handler", "proxy" or "socket"
    account,    \* position in Accounts of the attempt
    attempts,   \* history: [account, outcome]
    upstream,   \* the upstream response or socket: "none", "open", "closed"
    socket,     \* the client's socket: "asked", "open", "closed", "dropped"
    closing,    \* the close code sent to the client, NoCode before
    fromClient, fromUpstream,   \* frames received and not yet passed on, in order
    passedUp, passedDown,       \* history: frames passed on, in order
    sentUp, sentDown,           \* how many frames each peer sent
    clientGone, upstreamCode,   \* the peers' own closes: a flag, a code
    clientDone, upstreamDone    \* the pumps' flags

bridgeVars == <<socket, closing, fromClient, fromUpstream, passedUp, passedDown, sentUp, sentDown,
                clientGone, upstreamCode, clientDone, upstreamDone>>
vars == <<hookVars, kind, account, attempts, upstream, bridgeVars>>

NoCode == 0
Reserved == {1004, 1005, 1006, 1015}

Init ==
    /\ HookInit
    /\ kind \in {"handler", "proxy", "socket"}
    \* The pipeline is for HTTP: a socket passes it by.
    /\ kind = "socket" => plugins = <<>> /\ method = "GET"
    /\ account = 1 /\ attempts = <<>> /\ upstream = "none"
    /\ socket = "asked" /\ closing = NoCode
    /\ fromClient = <<>> /\ fromUpstream = <<>> /\ passedUp = <<>> /\ passedDown = <<>>
    /\ sentUp = 0 /\ sentDown = 0
    /\ clientGone = FALSE /\ upstreamCode = NoCode
    /\ clientDone = FALSE /\ upstreamDone = FALSE

---------------------------------------------------------------------------
(* HTTP *)

RetryableStatus(status) == status = 429 \/ status >= 500
Tried(outcome) == attempts' = Append(attempts, [account |-> Accounts[account], outcome |-> outcome])

\* The response is handed on as a stream; its own length is not relayed.
Relay(status) ==
    /\ upstream' = "open"
    /\ \E lengths \in {<<0>>, <<1, 0>>}, json \in BOOLEAN :
         Answer([status |-> status, json |-> json, length |-> None], lengths)

\* Mutant: every status but 200 costs another account.
UpstreamAnswersWell ==
    /\ kind = "proxy" /\ stage = "handler"
    /\ \E status \in {200, 404, 429, 503} :
         /\ Tried(status)
         /\ IF status # 200 /\ account < Len(Accounts)
            THEN account' = account + 1 /\ upstream' = "closed" /\ UNCHANGED <<app, rest, stage, turn>>
            ELSE Relay(status) /\ UNCHANGED account
    /\ UNCHANGED <<plugins, method, entered, edits, head, buffer, wire, unwound, kind, bridgeVars>>

\* A status of the last account is relayed as it is; before, 429 and 5xx move on.
UpstreamAnswers ==
    /\ kind = "proxy" /\ stage = "handler"
    /\ \E status \in {200, 404, 429, 503} :
         /\ Tried(status)
         /\ IF RetryableStatus(status) /\ account < Len(Accounts)
            THEN account' = account + 1 /\ upstream' = "closed" /\ UNCHANGED <<app, rest, stage, turn>>
            ELSE Relay(status) /\ UNCHANGED account
    /\ UNCHANGED <<plugins, method, entered, edits, head, buffer, wire, unwound, kind, bridgeVars>>

\* Timeouts and transport errors move on; the last one is answered as a problem.
UpstreamFails ==
    /\ kind = "proxy" /\ stage = "handler"
    /\ \E outcome \in {502, 504} :
         /\ Tried(outcome)
         /\ IF account < Len(Accounts) THEN account' = account + 1 /\ UNCHANGED <<app, rest, stage, turn>>
            ELSE Answer([status |-> outcome, json |-> TRUE, length |-> 1], <<1>>) /\ UNCHANGED account
    /\ UNCHANGED <<plugins, method, entered, edits, head, buffer, wire, unwound, kind, upstream, bridgeVars>>

\* A backend auth plugin that fails ends the request: no account is tried after it.
AuthPluginFails ==
    /\ kind = "proxy" /\ stage = "handler"
    /\ Tried(503) /\ Answer([status |-> 503, json |-> TRUE, length |-> 1], <<1>>)
    /\ UNCHANGED <<plugins, method, entered, edits, head, buffer, wire, unwound, kind, account, upstream, bridgeVars>>

\* Mutant: only a stream read to its end is closed.
ClosedAtEnd == upstream' = IF upstream = "open" /\ stage' = "done" THEN "closed" ELSE upstream

\* The body iterator closes the response when it ends, or when it is abandoned
\* once started; one that was never started closes nothing.
StreamClosed ==
    upstream' = IF upstream = "open" /\ stage = "body" /\ stage' # "body" /\ ~head.buffering THEN "closed"
                ELSE IF upstream = "open" /\ head.buffering /\ (rest' = <<>> \/ stage' = "refused") THEN "closed"
                ELSE upstream

\* The client is gone before the stream is read to its end, and the task that sends it
\* is cancelled.  The iterator is asked for a first chunk once the head is sent.
ClientLeavesStream ==
    /\ kind = "proxy" /\ upstream = "open" /\ stage \in {"start", "hooks", "body"}
    /\ stage' = "gone"
    /\ upstream' \in IF stage # "body" THEN {"open"}
                     ELSE IF ~head.buffering /\ Len(wire) = 1 THEN {"open", "closed"}
                     ELSE {"closed"}
    /\ UNCHANGED <<plugins, method, turn, entered, edits, app, rest, head, buffer, wire, unwound,
                   kind, account, attempts, bridgeVars>>

\* The upstream breaks off: the iterator raises, and is closed by that.
UpstreamBreaks ==
    /\ kind = "proxy" /\ upstream = "open" /\ stage = "body"
    /\ Fail(500)
    /\ upstream' = "closed"
    /\ UNCHANGED <<plugins, method, turn, entered, edits, app, rest, head, buffer, unwound,
                   kind, account, attempts, bridgeVars>>

Handler == kind = "handler" /\ HandlerAnswers /\ UNCHANGED <<kind, account, attempts, upstream, bridgeVars>>
Hooks == kind # "socket" /\ HookStep /\ StreamClosed /\ UNCHANGED <<kind, account, attempts, bridgeVars>>

---------------------------------------------------------------------------
(* WebSocket *)

Connecting == kind = "socket" /\ socket = "asked" /\ upstream = "none"

Reject(code) == socket' = "closed" /\ closing' = code

HandshakeAccepted ==
    /\ Connecting /\ account <= Len(Accounts)
    /\ Tried(101) /\ upstream' = "open" /\ socket' = "open"
    /\ UNCHANGED <<hookVars, kind, account, closing, fromClient, fromUpstream, passedUp, passedDown,
                   sentUp, sentDown, clientGone, upstreamCode, clientDone, upstreamDone>>

\* A client error of the first account is surfaced; any later one costs an account.
HandshakeRefused ==
    /\ Connecting /\ account <= Len(Accounts)
    /\ \E status \in {401, 404, 429, 502} :
         /\ Tried(status)
         /\ IF account = 1 /\ status = 404 THEN Reject(4502) /\ UNCHANGED account
            ELSE account' = account + 1 /\ UNCHANGED <<socket, closing>>
    /\ UNCHANGED <<hookVars, kind, upstream, fromClient, fromUpstream, passedUp, passedDown,
                   sentUp, sentDown, clientGone, upstreamCode, clientDone, upstreamDone>>

NoAccountConnects ==
    /\ Connecting /\ account > Len(Accounts)
    /\ Reject(4502)
    /\ UNCHANGED <<hookVars, kind, account, attempts, upstream, fromClient, fromUpstream, passedUp, passedDown,
                   sentUp, sentDown, clientGone, upstreamCode, clientDone, upstreamDone>>

Bridged == kind = "socket" /\ socket = "open" /\ upstream = "open"

ClientSends ==
    /\ Bridged /\ ~clientGone /\ sentUp < MaxFrames
    /\ sentUp' = sentUp + 1 /\ fromClient' = Append(fromClient, sentUp + 1)
    /\ UNCHANGED <<hookVars, kind, account, attempts, upstream, socket, closing, fromUpstream, passedUp, passedDown,
                   sentDown, clientGone, upstreamCode, clientDone, upstreamDone>>

ClientLeaves ==
    /\ Bridged /\ ~clientGone /\ clientGone' = TRUE
    /\ UNCHANGED <<hookVars, kind, account, attempts, upstream, socket, closing, fromClient, fromUpstream, passedUp,
                   passedDown, sentUp, sentDown, upstreamCode, clientDone, upstreamDone>>

UpstreamSends ==
    /\ Bridged /\ upstreamCode = NoCode /\ sentDown < MaxFrames
    /\ sentDown' = sentDown + 1 /\ fromUpstream' = Append(fromUpstream, sentDown + 1)
    /\ UNCHANGED <<hookVars, kind, account, attempts, upstream, socket, closing, fromClient, passedUp, passedDown,
                   sentUp, clientGone, upstreamCode, clientDone, upstreamDone>>

UpstreamLeaves ==
    /\ Bridged /\ upstreamCode = NoCode /\ upstreamCode' \in {1000, 1006}
    /\ UNCHANGED <<hookVars, kind, account, attempts, upstream, socket, closing, fromClient, fromUpstream, passedUp,
                   passedDown, sentUp, sentDown, clientGone, clientDone, upstreamDone>>

\* Mutant: a disconnect is noticed before the frames received ahead of it.
PumpUpHurried ==
    /\ Bridged /\ ~clientDone
    /\ IF clientGone \/ (fromClient # <<>> /\ upstreamCode # NoCode)
       THEN clientDone' = TRUE /\ UNCHANGED <<fromClient, passedUp>>
       ELSE /\ fromClient # <<>> /\ fromClient' = Tail(fromClient)
            /\ passedUp' = Append(passedUp, Head(fromClient)) /\ UNCHANGED clientDone
    /\ UNCHANGED <<hookVars, kind, account, attempts, upstream, socket, closing, fromUpstream, passedDown,
                   sentUp, sentDown, clientGone, upstreamCode, upstreamDone>>

\* client_to_upstream: frames in order, then the disconnect; sending on a closed
\* upstream raises, which ends the pump as well.
PumpUp ==
    /\ Bridged /\ ~clientDone
    /\ IF fromClient # <<>>
       THEN /\ fromClient' = Tail(fromClient)
            /\ IF upstreamCode = NoCode THEN passedUp' = Append(passedUp, Head(fromClient)) /\ UNCHANGED clientDone
               ELSE clientDone' = TRUE /\ UNCHANGED passedUp
       ELSE clientGone /\ clientDone' = TRUE /\ UNCHANGED <<fromClient, passedUp>>
    /\ UNCHANGED <<hookVars, kind, account, attempts, upstream, socket, closing, fromUpstream, passedDown,
                   sentUp, sentDown, clientGone, upstreamCode, upstreamDone>>

\* upstream_to_client: what was received, then the end of the iteration; sending to
\* a client that left raises.
PumpDown ==
    /\ Bridged /\ ~upstreamDone
    /\ IF fromUpstream # <<>>
       THEN /\ fromUpstream' = Tail(fromUpstream)
            /\ \/ passedDown' = Append(passedDown, Head(fromUpstream)) /\ UNCHANGED upstreamDone
               \/ clientGone /\ upstreamDone' = TRUE /\ UNCHANGED passedDown
       ELSE upstreamCode # NoCode /\ upstreamDone' = TRUE /\ UNCHANGED <<fromUpstream, passedDown>>
    /\ UNCHANGED <<hookVars, kind, account, attempts, upstream, socket, closing, fromClient, passedUp,
                   sentUp, sentDown, clientGone, upstreamCode, clientDone>>

Forwardable(code) == IF code \in Reserved THEN 1011 ELSE code

\* Mutant: the bridge waits for both pumps.
BothPumpsEnd ==
    /\ Bridged /\ clientDone /\ upstreamDone
    /\ upstream' = "closed" /\ socket' = "dropped"
    /\ UNCHANGED <<hookVars, kind, account, attempts, closing, fromClient, fromUpstream, passedUp, passedDown,
                   sentUp, sentDown, clientGone, upstreamCode, clientDone, upstreamDone>>

\* The first pump to end ends the bridge; the flags say which side it was.
BridgeEnds ==
    /\ Bridged /\ (clientDone \/ upstreamDone)
    /\ upstream' = "closed"
    /\ IF upstreamDone /\ ~clientDone
       THEN socket' = "closed" /\ closing' = Forwardable(IF upstreamCode = NoCode THEN 1011 ELSE upstreamCode)
       ELSE socket' = "dropped" /\ UNCHANGED closing
    /\ UNCHANGED <<hookVars, kind, account, attempts, fromClient, fromUpstream, passedUp, passedDown,
                   sentUp, sentDown, clientGone, upstreamCode, clientDone, upstreamDone>>

Over == IF kind = "socket" THEN socket \in {"closed", "dropped"} ELSE stage \in Ended
Finished == Over /\ UNCHANGED vars

Socket == \/ HandshakeAccepted \/ HandshakeRefused \/ NoAccountConnects
          \/ ClientSends \/ ClientLeaves \/ UpstreamSends \/ UpstreamLeaves
          \/ PumpUp \/ PumpDown \/ BridgeEnds

Next ==
    \/ Hooks \/ Handler \/ UpstreamAnswers \/ UpstreamFails \/ AuthPluginFails
    \/ ClientLeavesStream \/ UpstreamBreaks
    \/ Socket \/ Finished

\* The pumps are tasks of the event loop: each runs when it can, as does their waiter.
Spec == Init /\ [][Next]_vars /\ WF_vars(PumpUp) /\ WF_vars(PumpDown) /\ WF_vars(BridgeEnds)
             /\ WF_vars(HandshakeAccepted \/ HandshakeRefused \/ NoAccountConnects)

---------------------------------------------------------------------------
(* Properties *)

ProxyTypeOK ==
    /\ HookTypeOK
    /\ account \in 1..(Len(Accounts) + 1) /\ upstream \in {"none", "open", "closed"}
    /\ socket \in {"asked", "open", "closed", "dropped"}
    /\ Len(fromClient) <= MaxFrames /\ Len(fromUpstream) <= MaxFrames

\* Accounts are tried in rank order and each once; only a retryable outcome costs
\* another account, and the answer relayed is the last account's own
\* (proxy.py:132-139, 215-224; ProxyRunner.forward).
FailoverKept ==
    kind = "proxy" =>
        /\ \A i \in DOMAIN attempts : attempts[i].account = Accounts[i]
        /\ \A i \in DOMAIN attempts : i < Len(attempts) => RetryableStatus(attempts[i].outcome)
        /\ app.status # 0 /\ upstream = "open" => app.status = attempts[Len(attempts)].outcome

\* Nothing asked for a byte of the upstream response: a plugin failed on its head, or
\* the client left before it was sent more than that.
NeverRead ==
    \/ stage = "refused" /\ \E i \in DOMAIN entered : entered[i].closed /\ "response" \in entered[i].hooks
    \/ stage = "gone" /\ ~head.buffering /\ Len(wire) <= 1

\* When the exchange is over, read to its end or broken off by a plugin, the client
\* or the upstream, the upstream response is closed, so its connection is back in the
\* pool (proxy.py:332-333), unless no byte of it was asked for.
StreamReleased ==
    kind = "proxy" /\ stage \in Ended /\ upstream = "open" => NeverRead

\* The frames are the ones behind the first k of their sender, in its order.
Behind(k, frames) == \A i \in DOMAIN frames : frames[i] = k + i

BridgeOver == kind = "socket" /\ socket \in {"closed", "dropped"}

\* What either side was passed is a beginning of what the other one sent, and while
\* a pump runs it holds the rest.  Once the bridge is over, a frame of the client is
\* lost only when the upstream left, or when the client had left and the other pump
\* found that out first; one of the upstream only when the client left, or when the
\* upstream had left and the client's pump found that out first (_pump_ws).
FramesKept ==
    /\ Behind(0, passedUp) /\ Len(passedUp) <= sentUp
    /\ Behind(0, passedDown) /\ Len(passedDown) <= sentDown
    /\ ~clientDone => Behind(Len(passedUp), fromClient) /\ Len(passedUp) + Len(fromClient) = sentUp
    /\ ~upstreamDone => Behind(Len(passedDown), fromUpstream) /\ Len(passedDown) + Len(fromUpstream) = sentDown
    /\ BridgeOver /\ Len(passedUp) < sentUp => upstreamCode # NoCode \/ (clientGone /\ upstreamDone)
    /\ BridgeOver /\ Len(passedDown) < sentDown => clientGone \/ (upstreamCode # NoCode /\ clientDone)

\* A close frame sent to the client carries no reserved code, whichever pump ended
\* first and however the upstream went (_forwardable_close_code; bridge_websocket).
CloseCodesLegal ==
    /\ closing \notin Reserved
    /\ kind = "socket" /\ socket = "closed" => closing # NoCode

\* Once either side has gone, the bridge ends and the upstream socket is closed.
BridgeCloses ==
    /\ (Bridged /\ (clientGone \/ upstreamCode # NoCode)) ~> (socket \in {"closed", "dropped"})
    /\ [](BridgeOver => upstream # "open")

\* The types, and that a response is well formed, of its own length, and unwound
\* through the plugins that saw the request.
ResponseInv ==
    /\ ProxyTypeOK
    /\ WireWellFormed
    /\ LengthsMatch
    /\ UnwindsEntered

\* A bridge passes on what it was given, in order and but for what is lost to a side
\* that left, and closes with a code that may be sent.
BridgeSafe ==
    /\ FramesKept
    /\ CloseCodesLegal

\* If the upstream closed first its close frame is forwarded to the client, so that
\* the client does not see a bare 1006 (proxy.py:517-524; bridge_websocket).
UpstreamCloseForwarded ==
    kind = "socket" /\ upstreamCode # NoCode /\ ~clientGone => socket # "dropped"
==============================================================================
