-------------------------- MODULE ProxyPath_proofs --------------------------
(***************************************************************************)
(* The proxy's and the hook pipeline's theorems, for every set of plugin   *)
(* pipelines, every list of accounts, and any number of frames.            *)
(***************************************************************************)
EXTENDS ProxyPath, SequenceTheorems, FiniteSetTheorems, TLAPS

-----------------------------------------------------------------------------
(* The bridge.  One direction of it is a queue: how many frames were sent,  *)
(* which of them were passed on, and which wait to be.                     *)

Queue(sent, passed, waiting) ==
    /\ sent \in Nat /\ passed \in Seq(Nat) /\ waiting \in Seq(Nat)
    /\ Behind(0, passed) /\ Len(passed) + Len(waiting) <= sent

Flowing(sent, passed, waiting) ==
    /\ Behind(Len(passed), waiting) /\ Len(passed) + Len(waiting) = sent

(* A frame more behind the others.                                         *)
LEMMA BehindAppend ==
    ASSUME NEW k \in Nat, NEW s \in Seq(Nat), Behind(k, s)
    PROVE  Behind(k, Append(s, k + Len(s) + 1))
<1> DEFINE n == k + Len(s) + 1
           t == Append(s, n)
<1>1. /\ Len(s) \in Nat /\ DOMAIN s = 1 .. Len(s) /\ DOMAIN t = 1 .. Len(s) + 1
      /\ t[Len(s) + 1] = n /\ \A i \in 1 .. Len(s) : t[i] = s[i]
    BY AppendProperties, LenProperties
<1> HIDE DEF t
<1>2. ASSUME NEW i \in DOMAIN t
      PROVE  t[i] = k + i
    <2>1. i = Len(s) + 1 \/ i \in 1 .. Len(s)
        BY <1>1
    <2>2. CASE i = Len(s) + 1
        BY <1>1, <2>2
    <2>3. CASE i \in 1 .. Len(s)
        BY <1>1, <2>3 DEF Behind
    <2> QED
        BY <2>1, <2>2, <2>3
<1> QED
    BY <1>2 DEF Behind, t

(* A frame more that waits, and one passed on.                             *)
LEMMA OneFrame ==
    ASSUME NEW a \in Nat, NEW b \in Nat, NEW c \in Nat, a + b = c
    PROVE  a + (b + 1) = c + 1 /\ (a + 1) + (b - 1) = c
OBVIOUS

(* A frame that is sent waits.                                             *)
LEMMA QueueSends ==
    ASSUME NEW sent, NEW passed, NEW waiting, Queue(sent, passed, waiting)
    PROVE  /\ Queue(sent + 1, passed, Append(waiting, sent + 1))
           /\ Flowing(sent, passed, waiting) => Flowing(sent + 1, passed, Append(waiting, sent + 1))
<1> DEFINE longer == Append(waiting, sent + 1)
<1>1. /\ sent \in Nat /\ passed \in Seq(Nat) /\ waiting \in Seq(Nat)
      /\ Len(passed) \in Nat /\ Len(waiting) \in Nat
      /\ Behind(0, passed) /\ Len(passed) + Len(waiting) <= sent
    BY LenProperties DEF Queue
<1>2. longer \in Seq(Nat) /\ Len(longer) = Len(waiting) + 1
    BY <1>1, AppendProperties
<1>3. ASSUME Flowing(sent, passed, waiting)
      PROVE  Behind(Len(passed), longer)
    <2>1. Behind(Len(passed), waiting) /\ sent + 1 = Len(passed) + Len(waiting) + 1
        BY <1>1, <1>3 DEF Flowing
    <2> QED
        BY <1>1, <2>1, BehindAppend
<1> HIDE DEF longer
<1>4. Queue(sent + 1, passed, longer)
    BY <1>1, <1>2 DEF Queue
<1>5. ASSUME Flowing(sent, passed, waiting)
      PROVE  Flowing(sent + 1, passed, longer)
    <2>1. Len(passed) + Len(waiting) = sent
        BY <1>5 DEF Flowing
    <2>2. Len(passed) + Len(longer) = sent + 1
        <3> DEFINE a == Len(passed)
                   b == Len(waiting)
        <3>1. a \in Nat /\ b \in Nat /\ sent \in Nat /\ a + b = sent /\ Len(longer) = b + 1
            BY <1>1, <1>2, <2>1
        <3> HIDE DEF a, b
        <3>2. a + (b + 1) = sent + 1
            BY <3>1, OneFrame
        <3> QED
            BY <3>1, <3>2 DEF a
    <2>3. Behind(Len(passed), longer)
        BY <1>3, <1>5
    <2> QED
        BY <2>2, <2>3 DEF Flowing
<1> QED
    BY <1>4, <1>5 DEF longer

(* The first one that waits is passed on, or dropped.                      *)
LEMMA QueuePasses ==
    ASSUME NEW sent, NEW passed, NEW waiting, Queue(sent, passed, waiting), waiting # <<>>
    PROVE  /\ Queue(sent, passed, Tail(waiting))
           /\ Flowing(sent, passed, waiting) =>
                /\ Queue(sent, Append(passed, Head(waiting)), Tail(waiting))
                /\ Flowing(sent, Append(passed, Head(waiting)), Tail(waiting))
<1> DEFINE left == Tail(waiting)
           first == Head(waiting)
           longer == Append(passed, first)
<1>1. /\ sent \in Nat /\ passed \in Seq(Nat) /\ waiting \in Seq(Nat)
      /\ Len(passed) \in Nat /\ Len(waiting) \in Nat
      /\ Behind(0, passed) /\ Len(passed) + Len(waiting) <= sent
    BY LenProperties DEF Queue
<1>2. /\ left \in Seq(Nat) /\ Len(left) = Len(waiting) - 1 /\ Len(waiting) >= 1
      /\ first = waiting[1] /\ first \in Nat
      /\ DOMAIN left = 1 .. Len(left) /\ DOMAIN waiting = 1 .. Len(waiting)
      /\ \A i \in 1 .. Len(left) : left[i] = waiting[i + 1]
    BY <1>1, HeadTailProperties, LenProperties, EmptySeq, ElementOfSeq
<1> HIDE DEF left, first
<1>3. longer \in Seq(Nat) /\ Len(longer) = Len(passed) + 1
    BY <1>1, <1>2, AppendProperties
<1>4. ASSUME Flowing(sent, passed, waiting)
      PROVE  first = Len(passed) + 1 /\ Behind(Len(passed) + 1, left) /\ Len(passed) + Len(waiting) = sent
    <2>1. (\A i \in DOMAIN waiting : waiting[i] = Len(passed) + i) /\ Len(passed) + Len(waiting) = sent
        BY <1>4 DEF Flowing, Behind
    <2>2. first = Len(passed) + 1
        <3>1. 1 \in DOMAIN waiting
            BY <1>1, <1>2
        <3> QED
            BY <1>2, <2>1, <3>1
    <2>3. ASSUME NEW i \in DOMAIN left
          PROVE  left[i] = Len(passed) + 1 + i
        <3>1. Len(left) \in Nat /\ i \in 1 .. Len(left)
            BY <1>2, LenProperties
        <3>2. Len(waiting) = Len(left) + 1
            BY <1>1, <1>2, <3>1
        <3>3. i \in Nat /\ i + 1 \in 1 .. Len(waiting)
            BY <3>1, <3>2
        <3>4. left[i] = waiting[i + 1] /\ waiting[i + 1] = Len(passed) + (i + 1)
            BY <1>2, <2>1, <3>1, <3>3
        <3> QED
            BY <1>1, <3>3, <3>4
    <2> QED
        BY <2>1, <2>2, <2>3 DEF Behind
<1>5. Queue(sent, passed, left)
    BY <1>1, <1>2 DEF Queue
<1>6. ASSUME Flowing(sent, passed, waiting)
      PROVE  Behind(0, longer)
    <2>1. first = 0 + Len(passed) + 1
        BY <1>1, <1>4, <1>6
    <2> QED
        BY <1>1, <2>1, BehindAppend
<1> HIDE DEF longer
<1>7. ASSUME Flowing(sent, passed, waiting)
      PROVE  Queue(sent, longer, left) /\ Flowing(sent, longer, left)
    <2>1. Behind(Len(longer), left) /\ Len(passed) + Len(waiting) = sent
        BY <1>3, <1>4, <1>7
    <2>2. Len(longer) + Len(left) = sent
        <3> DEFINE a == Len(passed)
                   b == Len(waiting)
        <3>1. /\ a \in Nat /\ b \in Nat /\ sent \in Nat /\ a + b = sent
              /\ Len(longer) = a + 1 /\ Len(left) = b - 1
            BY <1>1, <1>2, <1>3, <2>1
        <3> HIDE DEF a, b
        <3>2. (a + 1) + (b - 1) = sent
            BY <3>1, OneFrame
        <3> QED
            BY <3>1, <3>2
    <2>3. Behind(0, longer)
        BY <1>6, <1>7
    <2> QED
        BY <1>1, <1>2, <1>3, <2>1, <2>2, <2>3 DEF Queue, Flowing
<1> QED
    BY <1>5, <1>7 DEF left, first, longer

BridgeTypeOK ==
    /\ sentUp \in Nat /\ sentDown \in Nat
    /\ upstreamCode \in {NoCode, 1000, 1006}
    /\ clientGone \in BOOLEAN /\ clientDone \in BOOLEAN /\ upstreamDone \in BOOLEAN

(* Why a pump has ended: its peer left, and then it had passed everything
   on, or it failed to send to the other side.  While neither has, the
   frames are all there, in order.                                         *)
PumpsInv ==
    /\ Queue(sentUp, passedUp, fromClient) /\ Queue(sentDown, passedDown, fromUpstream)
    /\ ~clientDone => Flowing(sentUp, passedUp, fromClient)
    /\ ~upstreamDone => Flowing(sentDown, passedDown, fromUpstream)
    /\ clientDone => upstreamCode # NoCode \/ (clientGone /\ Len(passedUp) = sentUp)
    /\ upstreamDone => clientGone \/ (upstreamCode # NoCode /\ Len(passedDown) = sentDown)

(* A bridge is over when one of the pumps has ended, or has never begun.   *)
BridgeInv ==
    /\ BridgeTypeOK
    /\ PumpsInv
    /\ sentUp <= MaxFrames /\ sentDown <= MaxFrames
    /\ socket \in {"asked", "open", "closed", "dropped"}
    /\ socket = "asked" => sentUp = 0 /\ sentDown = 0
    /\ BridgeOver => clientDone \/ upstreamDone \/ (sentUp = 0 /\ sentDown = 0)
    /\ CloseCodesLegal
    /\ BridgeOver => upstream # "open"

(* A fresh exchange keeps the bridge's invariant.                          *)
LEMMA BridgeInit == Init => BridgeInv
<1> SUFFICES ASSUME Init PROVE BridgeInv
    OBVIOUS
<1>1. /\ sentUp = 0 /\ sentDown = 0 /\ upstreamCode = NoCode /\ socket = "asked" /\ closing = NoCode
      /\ clientGone = FALSE /\ clientDone = FALSE /\ upstreamDone = FALSE
      /\ fromClient = <<>> /\ fromUpstream = <<>> /\ passedUp = <<>> /\ passedDown = <<>>
    BY DEF Init
<1>2. MaxFrames \in Nat
    BY ProxyAssumption
<1>3. CloseCodesLegal
    BY <1>1 DEF CloseCodesLegal, Reserved, NoCode
<1>4. Queue(0, <<>>, <<>>) /\ Flowing(0, <<>>, <<>>)
    <2>1. <<>> \in Seq(Nat) /\ Len(<<>>) = 0 /\ DOMAIN <<>> = {}
        BY EmptySeq
    <2> QED
        BY <2>1 DEF Queue, Flowing, Behind
<1>5. PumpsInv
    BY <1>1, <1>4 DEF PumpsInv
<1>6. BridgeTypeOK
    BY <1>1 DEF BridgeTypeOK
<1> QED
    BY <1>1, <1>2, <1>3, <1>5, <1>6 DEF BridgeInv, BridgeOver

(* The pump of the client's frames keeps it.                               *)
LEMMA PumpUpStep ==
    ASSUME BridgeInv, PumpUp
    PROVE  BridgeInv'
<1>1. /\ UNCHANGED <<kind, upstream, socket, closing, fromUpstream, passedDown, sentUp, sentDown>>
      /\ UNCHANGED <<clientGone, upstreamCode, upstreamDone>>
      /\ socket = "open" /\ clientDone = FALSE
    BY DEF PumpUp, Bridged, BridgeInv, BridgeTypeOK
<1>2. \/ /\ fromClient # <<>> /\ fromClient' = Tail(fromClient)
         /\ upstreamCode = NoCode /\ passedUp' = Append(passedUp, Head(fromClient)) /\ clientDone' = clientDone
      \/ /\ fromClient # <<>> /\ fromClient' = Tail(fromClient)
         /\ upstreamCode # NoCode /\ passedUp' = passedUp /\ clientDone' = TRUE
      \/ /\ fromClient = <<>> /\ clientGone
         /\ fromClient' = fromClient /\ passedUp' = passedUp /\ clientDone' = TRUE
    BY Zenon DEF PumpUp
<1>3. Queue(sentUp, passedUp, fromClient) /\ Flowing(sentUp, passedUp, fromClient)
    BY <1>1 DEF BridgeInv, PumpsInv
<1>4. /\ Queue(sentUp, passedUp', fromClient')
      /\ ~clientDone' => Flowing(sentUp, passedUp', fromClient')
      /\ clientDone' => upstreamCode # NoCode \/ (clientGone /\ Len(passedUp') = sentUp)
      /\ clientDone' \in BOOLEAN
    <2>1. CASE fromClient # <<>>
        BY <1>1, <1>2, <1>3, <2>1, QueuePasses, Zenon
    <2>2. CASE fromClient = <<>>
        <3>1. clientGone /\ fromClient' = fromClient /\ passedUp' = passedUp /\ clientDone' = TRUE
            BY <1>2, <2>2, Zenon
        <3>2. Len(passedUp) = sentUp
            <4>1. Len(passedUp) \in Nat /\ Len(passedUp) + Len(fromClient) = sentUp
                BY <1>3, LenProperties DEF Flowing, Queue
            <4>2. Len(fromClient) = 0
                BY <2>2, EmptySeq
            <4> QED
                BY <4>1, <4>2
        <3> QED
            BY <1>3, <3>1, <3>2, Zenon
    <2> QED
        BY <2>1, <2>2
<1>5. PumpsInv'
    BY <1>1, <1>4 DEF BridgeInv, PumpsInv
<1>6. BridgeTypeOK'
    BY <1>1, <1>4 DEF BridgeInv, BridgeTypeOK
<1>7. CloseCodesLegal'
    BY <1>1 DEF BridgeInv, CloseCodesLegal
<1> QED
    BY <1>1, <1>5, <1>6, <1>7 DEF BridgeInv, BridgeOver

(* So does the pump of the upstream's.                                     *)
LEMMA PumpDownStep ==
    ASSUME BridgeInv, PumpDown
    PROVE  BridgeInv'
<1>1. /\ UNCHANGED <<kind, upstream, socket, closing, fromClient, passedUp, sentUp, sentDown>>
      /\ UNCHANGED <<clientGone, upstreamCode, clientDone>>
      /\ socket = "open" /\ upstreamDone = FALSE
    BY DEF PumpDown, Bridged, BridgeInv, BridgeTypeOK
<1>2. \/ /\ fromUpstream # <<>> /\ fromUpstream' = Tail(fromUpstream)
         /\ passedDown' = Append(passedDown, Head(fromUpstream)) /\ upstreamDone' = upstreamDone
      \/ /\ fromUpstream # <<>> /\ fromUpstream' = Tail(fromUpstream)
         /\ clientGone /\ passedDown' = passedDown /\ upstreamDone' = TRUE
      \/ /\ fromUpstream = <<>> /\ upstreamCode # NoCode
         /\ fromUpstream' = fromUpstream /\ passedDown' = passedDown /\ upstreamDone' = TRUE
    BY Zenon DEF PumpDown
<1>3. Queue(sentDown, passedDown, fromUpstream) /\ Flowing(sentDown, passedDown, fromUpstream)
    BY <1>1 DEF BridgeInv, PumpsInv
<1>4. /\ Queue(sentDown, passedDown', fromUpstream')
      /\ ~upstreamDone' => Flowing(sentDown, passedDown', fromUpstream')
      /\ upstreamDone' => clientGone \/ (upstreamCode # NoCode /\ Len(passedDown') = sentDown)
      /\ upstreamDone' \in BOOLEAN
    <2>1. CASE fromUpstream # <<>>
        BY <1>1, <1>2, <1>3, <2>1, QueuePasses, Zenon
    <2>2. CASE fromUpstream = <<>>
        <3>1. upstreamCode # NoCode /\ fromUpstream' = fromUpstream /\ passedDown' = passedDown /\ upstreamDone' = TRUE
            BY <1>2, <2>2, Zenon
        <3>2. Len(passedDown) = sentDown
            <4>1. Len(passedDown) \in Nat /\ Len(passedDown) + Len(fromUpstream) = sentDown
                BY <1>3, LenProperties DEF Flowing, Queue
            <4>2. Len(fromUpstream) = 0
                BY <2>2, EmptySeq
            <4> QED
                BY <4>1, <4>2
        <3> QED
            BY <1>3, <3>1, <3>2, Zenon
    <2> QED
        BY <2>1, <2>2
<1>5. PumpsInv'
    BY <1>1, <1>4 DEF BridgeInv, PumpsInv
<1>6. BridgeTypeOK'
    BY <1>1, <1>4 DEF BridgeInv, BridgeTypeOK
<1>7. CloseCodesLegal'
    BY <1>1 DEF BridgeInv, CloseCodesLegal
<1> QED
    BY <1>1, <1>5, <1>6, <1>7 DEF BridgeInv, BridgeOver

(* A frame more from the client, which has not left.                       *)
LEMMA ClientSendsStep ==
    ASSUME BridgeInv, ClientSends
    PROVE  BridgeInv'
<1>1. /\ UNCHANGED <<kind, upstream, socket, closing, fromUpstream, passedUp, passedDown, sentDown>>
      /\ UNCHANGED <<clientGone, upstreamCode, clientDone, upstreamDone>>
      /\ socket = "open" /\ clientGone = FALSE /\ sentUp < MaxFrames
      /\ sentUp' = sentUp + 1 /\ fromClient' = Append(fromClient, sentUp + 1)
    BY DEF ClientSends, Bridged, BridgeInv, BridgeTypeOK
<1>2. Queue(sentUp, passedUp, fromClient) /\ sentUp \in Nat /\ MaxFrames \in Nat
    BY ProxyAssumption DEF BridgeInv, PumpsInv, BridgeTypeOK
<1>3. /\ Queue(sentUp', passedUp', fromClient')
      /\ ~clientDone' => Flowing(sentUp', passedUp', fromClient')
    BY <1>1, <1>2, QueueSends, Zenon DEF BridgeInv, PumpsInv
<1>4. PumpsInv'
    BY <1>1, <1>3 DEF BridgeInv, PumpsInv
<1>5. BridgeTypeOK'
    BY <1>1, <1>2 DEF BridgeInv, BridgeTypeOK
<1>6. CloseCodesLegal'
    BY <1>1 DEF BridgeInv, CloseCodesLegal
<1> QED
    BY <1>1, <1>2, <1>4, <1>5, <1>6 DEF BridgeInv, BridgeOver

(* A frame more from the upstream, which has not closed.                   *)
LEMMA UpstreamSendsStep ==
    ASSUME BridgeInv, UpstreamSends
    PROVE  BridgeInv'
<1>1. /\ UNCHANGED <<kind, upstream, socket, closing, fromClient, passedUp, passedDown, sentUp>>
      /\ UNCHANGED <<clientGone, upstreamCode, clientDone, upstreamDone>>
      /\ socket = "open" /\ upstreamCode = NoCode /\ sentDown < MaxFrames
      /\ sentDown' = sentDown + 1 /\ fromUpstream' = Append(fromUpstream, sentDown + 1)
    BY DEF UpstreamSends, Bridged
<1>2. Queue(sentDown, passedDown, fromUpstream) /\ sentDown \in Nat /\ MaxFrames \in Nat
    BY ProxyAssumption DEF BridgeInv, PumpsInv, BridgeTypeOK
<1>3. /\ Queue(sentDown', passedDown', fromUpstream')
      /\ ~upstreamDone' => Flowing(sentDown', passedDown', fromUpstream')
    BY <1>1, <1>2, QueueSends, Zenon DEF BridgeInv, PumpsInv
<1>4. PumpsInv'
    BY <1>1, <1>3 DEF BridgeInv, PumpsInv
<1>5. BridgeTypeOK'
    BY <1>1, <1>2 DEF BridgeInv, BridgeTypeOK
<1>6. CloseCodesLegal'
    BY <1>1 DEF BridgeInv, CloseCodesLegal
<1> QED
    BY <1>1, <1>2, <1>4, <1>5, <1>6 DEF BridgeInv, BridgeOver

(* The frames are left alone by every step but those four.                 *)
Frames == <<fromClient, fromUpstream, passedUp, passedDown, sentUp, sentDown, clientDone, upstreamDone>>

(* A step that leaves them, and the peers' own closes, alone.              *)
LEMMA FramesStay ==
    ASSUME BridgeInv, UNCHANGED <<Frames, clientGone, upstreamCode>>
    PROVE  BridgeTypeOK' /\ PumpsInv' /\ (sentUp <= MaxFrames /\ sentDown <= MaxFrames)'
<1>1. UNCHANGED <<fromClient, fromUpstream, passedUp, passedDown, sentUp, sentDown, clientDone, upstreamDone>>
    BY DEF Frames
<1>2. PumpsInv'
    BY <1>1 DEF BridgeInv, PumpsInv
<1> QED
    BY <1>1, <1>2 DEF BridgeInv, BridgeTypeOK

(* And every other step of the bridge, and every step beside it.           *)
LEMMA BridgeStep ==
    ASSUME BridgeInv, [Next]_vars
    PROVE  BridgeInv'
<1> DEFINE Beside == kind # "socket" /\ kind' = kind /\ UNCHANGED bridgeVars
<1>1. ASSUME Beside \/ UNCHANGED vars
      PROVE  BridgeInv'
    <2>1. /\ UNCHANGED <<Frames, clientGone, upstreamCode, socket, closing, kind>>
          /\ kind = "socket" => upstream' = upstream
        BY <1>1 DEF vars, bridgeVars, Frames
    <2>2. BridgeTypeOK' /\ PumpsInv' /\ (sentUp <= MaxFrames /\ sentDown <= MaxFrames)'
        BY <2>1, FramesStay
    <2>3. UNCHANGED <<sentUp, sentDown, clientDone, upstreamDone>>
        BY <2>1 DEF Frames
    <2> QED
        BY <2>1, <2>2, <2>3 DEF BridgeInv, BridgeOver, CloseCodesLegal
<1>2. Hooks \/ Handler \/ UpstreamAnswers \/ UpstreamFails \/ AuthPluginFails \/ ClientLeavesStream \/ UpstreamBreaks
          => Beside
    BY DEF Hooks, Handler, UpstreamAnswers, UpstreamFails, AuthPluginFails, ClientLeavesStream, UpstreamBreaks
<1>3. ASSUME HandshakeAccepted \/ HandshakeRefused \/ NoAccountConnects
      PROVE  BridgeInv'
    <2>1. /\ UNCHANGED <<Frames, clientGone, upstreamCode, kind>> /\ socket = "asked"
          /\ upstream = "none"
        BY <1>3 DEF HandshakeAccepted, HandshakeRefused, NoAccountConnects, Connecting, Frames
    <2>2. BridgeTypeOK' /\ PumpsInv' /\ (sentUp <= MaxFrames /\ sentDown <= MaxFrames)'
        BY <2>1, FramesStay
    <2>3. UNCHANGED <<sentUp, sentDown, clientDone, upstreamDone>> /\ sentUp = 0 /\ sentDown = 0
        BY <2>1 DEF Frames, BridgeInv
    <2>4. \/ socket' = "open" /\ closing' = closing
          \/ upstream' = upstream /\ socket' = "closed" /\ closing' = 4502
          \/ upstream' = upstream /\ socket' = "asked" /\ closing' = closing
        BY <1>3, <2>1 DEF HandshakeAccepted, HandshakeRefused, NoAccountConnects, Reject
    <2> QED
        BY <2>1, <2>2, <2>3, <2>4 DEF BridgeInv, BridgeOver, CloseCodesLegal, Reserved, NoCode
<1>4. ASSUME ClientLeaves
      PROVE  BridgeInv'
    <2>1. /\ UNCHANGED <<Frames, upstreamCode, socket, closing, kind, upstream>>
          /\ clientGone = FALSE /\ clientGone' = TRUE
        BY <1>4 DEF ClientLeaves, Frames, BridgeInv, BridgeTypeOK
    <2>2. UNCHANGED <<fromClient, fromUpstream, passedUp, passedDown, sentUp, sentDown, clientDone, upstreamDone>>
        BY <2>1 DEF Frames
    <2>3. PumpsInv'
        BY <2>1, <2>2 DEF BridgeInv, PumpsInv
    <2> QED
        BY <2>1, <2>2, <2>3 DEF BridgeInv, BridgeTypeOK, BridgeOver, CloseCodesLegal
<1>5. ASSUME UpstreamLeaves
      PROVE  BridgeInv'
    <2>1. /\ UNCHANGED <<Frames, clientGone, socket, closing, kind, upstream>>
          /\ upstreamCode = NoCode /\ upstreamCode' \in {1000, 1006}
        BY <1>5 DEF UpstreamLeaves, Frames
    <2>2. UNCHANGED <<fromClient, fromUpstream, passedUp, passedDown, sentUp, sentDown, clientDone, upstreamDone>>
        BY <2>1 DEF Frames
    <2>3. PumpsInv'
        BY <2>1, <2>2 DEF BridgeInv, PumpsInv, NoCode
    <2> QED
        BY <2>1, <2>2, <2>3 DEF BridgeInv, BridgeTypeOK, BridgeOver, CloseCodesLegal
<1>6. ASSUME BridgeEnds
      PROVE  BridgeInv'
    <2>1. /\ UNCHANGED <<Frames, clientGone, upstreamCode, kind>> /\ socket = "open"
          /\ upstream' = "closed" /\ (clientDone \/ upstreamDone)
          /\ \/ socket' = "closed" /\ closing' = Forwardable(IF upstreamCode = NoCode THEN 1011 ELSE upstreamCode)
             \/ socket' = "dropped" /\ closing' = closing
        BY <1>6 DEF BridgeEnds, Bridged, Frames
    <2>2. BridgeTypeOK' /\ PumpsInv' /\ (sentUp <= MaxFrames /\ sentDown <= MaxFrames)'
        BY <2>1, FramesStay
    <2>3. UNCHANGED <<sentUp, sentDown, clientDone, upstreamDone>>
        BY <2>1 DEF Frames
    <2>4. CloseCodesLegal'
        BY <2>1 DEF BridgeInv, BridgeTypeOK, CloseCodesLegal, Forwardable, NoCode, Reserved
    <2> QED
        BY <2>1, <2>2, <2>3, <2>4 DEF BridgeInv, BridgeOver
<1> QED
    BY <1>1, <1>2, <1>3, <1>4, <1>5, <1>6, PumpUpStep, PumpDownStep, ClientSendsStep, UpstreamSendsStep
    DEF Next, Socket, Finished

(* The bridge's invariant holds throughout.                                *)
THEOREM BridgeHolds == Spec => []BridgeInv
BY BridgeInit, BridgeStep, PTL DEF Spec

(* A bridge passes the frames on in order, and none is lost but to a side
   that left: the client's while the upstream stays only when the client
   left and the other pump found out first, the upstream's while the
   client stays only when the upstream left and the client's pump found
   out first.  It closes the client with a code that may go over the wire
   (_pump_ws, bridge_websocket).                                           *)
THEOREM BridgesAreSafe == Spec => []BridgeSafe
<1>1. ASSUME BridgeInv PROVE BridgeSafe
    <2>1. /\ Len(passedUp) \in Nat /\ Len(fromClient) \in Nat /\ Len(passedDown) \in Nat /\ Len(fromUpstream) \in Nat
          /\ sentUp \in Nat /\ sentDown \in Nat
        BY <1>1, LenProperties DEF BridgeInv, BridgeTypeOK, PumpsInv, Queue
    <2>2. /\ Behind(0, passedUp) /\ Len(passedUp) <= sentUp
          /\ Behind(0, passedDown) /\ Len(passedDown) <= sentDown
        BY <1>1, <2>1 DEF BridgeInv, PumpsInv, Queue
    <2>3. /\ ~clientDone => Behind(Len(passedUp), fromClient) /\ Len(passedUp) + Len(fromClient) = sentUp
          /\ ~upstreamDone => Behind(Len(passedDown), fromUpstream) /\ Len(passedDown) + Len(fromUpstream) = sentDown
        BY <1>1 DEF BridgeInv, PumpsInv, Flowing
    <2>4. /\ clientDone => upstreamCode # NoCode \/ (clientGone /\ Len(passedUp) = sentUp)
          /\ upstreamDone => clientGone \/ (upstreamCode # NoCode /\ Len(passedDown) = sentDown)
          /\ BridgeOver => clientDone \/ upstreamDone \/ (sentUp = 0 /\ sentDown = 0)
        BY <1>1 DEF BridgeInv, PumpsInv
    <2>5. BridgeOver /\ Len(passedUp) < sentUp => upstreamCode # NoCode \/ (clientGone /\ upstreamDone)
        BY <2>1, <2>4
    <2>6. BridgeOver /\ Len(passedDown) < sentDown => clientGone \/ (upstreamCode # NoCode /\ clientDone)
        BY <2>1, <2>4
    <2> QED
        BY <1>1, <2>2, <2>3, <2>5, <2>6 DEF BridgeInv, BridgeSafe, FramesKept
<1> QED
    BY <1>1, BridgeHolds, PTL

(* A bridge that is over has closed its upstream (the safety part of
   BridgeCloses; bridge_websocket's async with).                           *)
THEOREM EndedBridgesClose == Spec => [](BridgeOver => upstream # "open")
<1>1. BridgeInv => (BridgeOver => upstream # "open")
    BY DEF BridgeInv
<1> QED
    BY <1>1, BridgeHolds, PTL

-----------------------------------------------------------------------------
(* Sums of lengths.                                                        *)

LengthUnits(lengths) == UNION {{i} \X (1 .. lengths[i]) : i \in DOMAIN lengths}

(* A sequence of lengths has finitely many units.                          *)
LEMMA UnitsAreFinite ==
    ASSUME NEW s \in Seq(Nat)
    PROVE  IsFiniteSet(LengthUnits(s)) /\ Sum(s) \in Nat
<1> DEFINE f == [i \in DOMAIN s |-> {i} \X (1 .. s[i])]
           T == {{i} \X (1 .. s[i]) : i \in DOMAIN s}
<1>1. IsFiniteSet(DOMAIN s)
    <2>1. DOMAIN s = 1 .. Len(s) /\ Len(s) \in Nat
        BY LenProperties
    <2> QED
        BY <2>1, FS_Interval
<1>2. f \in Surjection(DOMAIN s, T)
    BY DEF Surjection
<1>3. IsFiniteSet(T)
    BY <1>1, <1>2, FS_Surjection
<1>4. ASSUME NEW i \in DOMAIN s
      PROVE  IsFiniteSet({i} \X (1 .. s[i]))
    <2>1. IsFiniteSet({i})
        BY FS_Singleton
    <2>2. s[i] \in Nat
        BY LenProperties, ElementOfSeq
    <2>3. IsFiniteSet(1 .. s[i])
        BY <2>2, FS_Interval
    <2> QED
        BY <2>1, <2>3, FS_Product
<1>5. \A U \in T : IsFiniteSet(U)
    BY <1>4
<1>6. IsFiniteSet(UNION T)
    BY <1>3, <1>5, FS_UNION
<1> QED
    BY <1>6, FS_CardinalityType DEF Sum, LengthUnits

(* The units of one length.                                                *)
LEMMA UnitsOfLength ==
    ASSUME NEW x, NEW n \in Nat
    PROVE  /\ IsFiniteSet({x} \X (1 .. n))
           /\ Cardinality({x} \X (1 .. n)) = n
<1>1. IsFiniteSet({x}) /\ Cardinality({x}) = 1
    BY FS_Singleton
<1>2. IsFiniteSet(1 .. n) /\ Cardinality(1 .. n) = n
    BY FS_Interval
<1>3. /\ IsFiniteSet({x} \X (1 .. n))
      /\ Cardinality({x} \X (1 .. n)) = Cardinality({x}) * Cardinality(1 .. n)
    BY <1>1, <1>2, FS_Product
<1> QED
    BY <1>1, <1>2, <1>3

(* Disjoint sets of units add up.                                          *)
LEMMA DisjointUnits ==
    ASSUME NEW S, NEW T, IsFiniteSet(S), IsFiniteSet(T), S \cap T = {}
    PROVE  Cardinality(S \cup T) = Cardinality(S) + Cardinality(T)
<1>1. Cardinality(S \cup T)
          = Cardinality(S) + Cardinality(T) - Cardinality(S \cap T)
    BY FS_Union
<1>2. Cardinality(S \cap T) = 0
    BY FS_EmptySet
<1>3. Cardinality(S) \in Nat /\ Cardinality(T) \in Nat
    BY FS_CardinalityType
<1> QED
    BY <1>1, <1>2, <1>3

(* No lengths sum to nothing.                                              *)
LEMMA SumEmpty == Sum(<<>>) = 0
<1>1. LengthUnits(<<>>) = {}
    BY DEF LengthUnits
<1> QED
    BY <1>1, FS_EmptySet DEF Sum, LengthUnits

(* A length more is that much more.                                        *)
LEMMA SumAppend ==
    ASSUME NEW s \in Seq(Nat), NEW n \in Nat
    PROVE  Sum(Append(s, n)) = Sum(s) + n
<1> DEFINE t == Append(s, n)
           last == Len(s) + 1
<1>1. /\ DOMAIN s = 1 .. Len(s) /\ DOMAIN t = 1 .. last /\ Len(s) \in Nat
      /\ t[last] = n /\ \A i \in DOMAIN s : t[i] = s[i]
    BY AppendProperties, LenProperties
<1> HIDE DEF t, last
<1>2. DOMAIN t = DOMAIN s \cup {last} /\ last \notin DOMAIN s
    BY <1>1 DEF last
<1>3. LengthUnits(t) = LengthUnits(s) \cup ({last} \X (1 .. n))
    <2>1. ASSUME NEW u
          PROVE  u \in LengthUnits(t) <=> \E i \in DOMAIN t : u \in {i} \X (1 .. t[i])
        BY DEF LengthUnits
    <2>2. ASSUME NEW u
          PROVE  u \in LengthUnits(s) <=> \E i \in DOMAIN s : u \in {i} \X (1 .. s[i])
        BY DEF LengthUnits
    <2>3. ASSUME NEW u
          PROVE  u \in LengthUnits(t) <=> u \in LengthUnits(s) \/ u \in {last} \X (1 .. n)
        <3>1. (\E i \in DOMAIN t : u \in {i} \X (1 .. t[i]))
                  <=> (\E i \in DOMAIN s : u \in {i} \X (1 .. t[i])) \/ u \in {last} \X (1 .. t[last])
            BY <1>2, Zenon
        <3>2. (\E i \in DOMAIN s : u \in {i} \X (1 .. t[i])) <=> (\E i \in DOMAIN s : u \in {i} \X (1 .. s[i]))
            BY <1>1, Zenon
        <3> QED
            BY <1>1, <2>1, <2>2, <3>1, <3>2, Zenon
    <2> QED
        BY <2>3, Zenon
<1>4. LengthUnits(s) \cap ({last} \X (1 .. n)) = {}
    BY <1>2 DEF LengthUnits
<1>5. IsFiniteSet(LengthUnits(s))
    BY UnitsAreFinite
<1>6. IsFiniteSet({last} \X (1 .. n)) /\ Cardinality({last} \X (1 .. n)) = n
    BY UnitsOfLength
<1>7. Cardinality(LengthUnits(t)) = Cardinality(LengthUnits(s)) + n
    BY <1>3, <1>4, <1>5, <1>6, DisjointUnits
<1> QED
    BY <1>7 DEF Sum, LengthUnits, t

(* The first length and the rest make the sum.                             *)
LEMMA SumTail ==
    ASSUME NEW s \in Seq(Nat), s # <<>>
    PROVE  Sum(s) = Head(s) + Sum(Tail(s))
<1> DEFINE t == Tail(s)
           first == {1} \X (1 .. s[1])
           later == UNION {{i} \X (1 .. s[i]) : i \in 2 .. Len(s)}
           shift == [u \in LengthUnits(t) |-> <<u[1] + 1, u[2]>>]
<1>1. /\ Len(s) \in Nat \ {0} /\ DOMAIN s = 1 .. Len(s) /\ Head(s) = s[1]
      /\ t \in Seq(Nat) /\ Len(t) = Len(s) - 1 /\ DOMAIN t = 1 .. Len(t)
      /\ \A i \in 1 .. Len(t) : t[i] = s[i + 1]
    BY HeadTailProperties, LenProperties, EmptySeq
<1> HIDE DEF t
<1>2. s[1] \in Nat
    BY <1>1, ElementOfSeq
<1>3. \A i \in 1 .. Len(t) : t[i] \in Nat
    BY <1>1, ElementOfSeq
<1>4. shift \in Bijection(LengthUnits(t), later)
    <2>1. ASSUME NEW u \in LengthUnits(t)
          PROVE  /\ u[1] \in Nat /\ u = <<u[1], u[2]>>
                 /\ shift[u] \in later
        <3>1. PICK i \in DOMAIN t : u \in {i} \X (1 .. t[i])
            BY DEF LengthUnits
        <3>2. u = <<i, u[2]>> /\ u[1] = i /\ u[2] \in 1 .. t[i]
            BY <3>1
        <3>3. i + 1 \in 2 .. Len(s) /\ t[i] = s[i + 1]
            BY <1>1, SMTT(30)
        <3>4. <<i + 1, u[2]>> \in {i + 1} \X (1 .. s[i + 1])
            BY <3>2, <3>3
        <3> QED
            BY <1>1, <3>2, <3>3, <3>4, SMTT(30)
    <2>2. \A u, v \in LengthUnits(t) : shift[u] = shift[v] => u = v
        <3> SUFFICES ASSUME NEW u \in LengthUnits(t), NEW v \in LengthUnits(t), shift[u] = shift[v]
                     PROVE  u = v
            OBVIOUS
        <3>1. u[1] + 1 = v[1] + 1 /\ u[2] = v[2]
            OBVIOUS
        <3>2. u[1] = v[1]
            <4>1. u[1] \in Nat /\ v[1] \in Nat
                BY <2>1
            <4> QED
                BY <3>1, <4>1
        <3> QED
            BY <2>1, <3>1, <3>2
    <2>3. ASSUME NEW w \in later
          PROVE  \E u \in LengthUnits(t) : shift[u] = w
        <3>1. PICK j \in 2 .. Len(s) : w \in {j} \X (1 .. s[j])
            OBVIOUS
        <3>2. w = <<j, w[2]>> /\ w[2] \in 1 .. s[j]
            BY <3>1
        <3>3. j - 1 \in DOMAIN t /\ t[j - 1] = s[j] /\ (j - 1) + 1 = j
            <4>1. j - 1 \in 1 .. Len(t) /\ (j - 1) + 1 = j
                BY <1>1
            <4>2. t[j - 1] = s[(j - 1) + 1]
                BY <1>1, <4>1
            <4> QED
                BY <1>1, <4>1, <4>2
        <3>4. <<j - 1, w[2]>> \in LengthUnits(t)
            BY <3>2, <3>3 DEF LengthUnits
        <3>5. shift[<<j - 1, w[2]>>] = w
            BY <3>2, <3>3, <3>4
        <3> QED
            BY <3>4, <3>5
    <2>4. shift \in [LengthUnits(t) -> later]
        BY <2>1
    <2>5. IsInjective(shift)
        BY <2>2 DEF IsInjective
    <2> HIDE DEF shift, later
    <2> QED
        BY <2>3, <2>4, <2>5 DEF Bijection, Injection, Surjection
<1>5. IsFiniteSet(LengthUnits(t))
    BY <1>1, UnitsAreFinite
<1>6. IsFiniteSet(later) /\ Cardinality(later) = Cardinality(LengthUnits(t))
    <2> HIDE DEF shift, later
    <2>1. ExistsBijection(LengthUnits(t), later)
        BY <1>4 DEF ExistsBijection
    <2> QED
        BY <1>5, <2>1, FS_Bijection
<1>7. LengthUnits(s) = first \cup later
    <2>1. DOMAIN s = {1} \cup 2 .. Len(s)
        BY <1>1
    <2> QED
        BY <2>1 DEF LengthUnits
<1>8. first \cap later = {}
    OBVIOUS
<1>9. IsFiniteSet(first) /\ Cardinality(first) = s[1]
    BY <1>2, UnitsOfLength
<1>10. Cardinality(LengthUnits(s)) = Cardinality(first) + Cardinality(later)
    <2> HIDE DEF first, later
    <2> QED
        BY <1>6, <1>7, <1>8, <1>9, DisjointUnits
<1> QED
    BY <1>1, <1>6, <1>9, <1>10 DEF Sum, LengthUnits, t

(* A single length is the sum.                                             *)
LEMMA SumOfOne ==
    ASSUME NEW n \in Nat
    PROVE  Sum(<<n>>) = n
<1>1. <<>> \in Seq(Nat) /\ Append(<<>>, n) = <<n>>
    OBVIOUS
<1>2. Sum(<<n>>) = Sum(<<>>) + n
    BY <1>1, SumAppend
<1> QED
    BY <1>2, SumEmpty

Statuses == {0} \cup 200..599
Lengths == Nat \cup {None}
Messages == [type : {"start"}, status : Statuses, length : Lengths, size : {0}]
       \cup [type : {"body"}, status : {0}, length : {None}, size : Nat, more : BOOLEAN]

Sizes(messages) == [i \in DOMAIN messages |-> messages[i].size]

(* Messages have sizes.                                                    *)
LEMMA SizesType ==
    ASSUME NEW messages \in Seq(Messages)
    PROVE  Sizes(messages) \in Seq(Nat)
<1>1. \A m \in Messages : m.size \in Nat
    BY DEF Messages
<1>2. /\ DOMAIN messages = 1 .. Len(messages) /\ Len(messages) \in Nat
      /\ \A i \in 1 .. Len(messages) : messages[i] \in Messages
    BY LenProperties, ElementOfSeq
<1> QED
    BY <1>1, <1>2 DEF Sizes

(* A message more carries its size more.                                   *)
LEMMA BodiesAppend ==
    ASSUME NEW messages \in Seq(Messages), NEW m \in Messages
    PROVE  Bodies(Append(messages, m)) = Bodies(messages) + m.size
<1>1. Sizes(messages) \in Seq(Nat)
    BY SizesType
<1>2. m.size \in Nat
    BY DEF Messages
<1>3. Sizes(Append(messages, m)) = Append(Sizes(messages), m.size)
    <2>1. /\ DOMAIN messages = 1 .. Len(messages) /\ Len(messages) \in Nat
          /\ Append(messages, m) \in Seq(Messages)
          /\ Len(Append(messages, m)) = Len(messages) + 1
          /\ DOMAIN Append(messages, m) = 1 .. Len(messages) + 1
          /\ Append(messages, m)[Len(messages) + 1] = m
          /\ \A i \in 1 .. Len(messages) : Append(messages, m)[i] = messages[i]
        BY LenProperties, AppendProperties
    <2>2. Len(Sizes(messages)) = Len(messages)
        BY <1>1, <2>1, LenProperties DEF Sizes
    <2>3. /\ DOMAIN Append(Sizes(messages), m.size) = 1 .. Len(messages) + 1
          /\ Append(Sizes(messages), m.size)[Len(messages) + 1] = m.size
          /\ \A i \in 1 .. Len(messages) : Append(Sizes(messages), m.size)[i] = messages[i].size
        BY <1>1, <1>2, <2>1, <2>2, AppendProperties DEF Sizes
    <2>4. \A i \in 1 .. Len(messages) + 1 :
              Append(Sizes(messages), m.size)[i] = Append(messages, m)[i].size
        BY <2>1, <2>3
    <2>5. Append(Sizes(messages), m.size)
              = [i \in 1 .. Len(messages) + 1 |-> Append(Sizes(messages), m.size)[i]]
        BY <1>1, <1>2, <2>3, AppendProperties
    <2> QED
        BY <2>1, <2>4, <2>5 DEF Sizes
<1>4. Sum(Append(Sizes(messages), m.size)) = Sum(Sizes(messages)) + m.size
    BY <1>1, <1>2, SumAppend
<1> QED
    BY <1>3, <1>4 DEF Bodies, Sizes

(* No message carries nothing, and what messages carry is a number.        *)
LEMMA BodiesType ==
    /\ Bodies(<<>>) = 0
    /\ \A messages \in Seq(Messages) : Bodies(messages) \in Nat
<1>1. Sizes(<<>>) = <<>>
    BY DEF Sizes
<1>2. ASSUME NEW messages \in Seq(Messages)
      PROVE  Bodies(messages) \in Nat
    BY SizesType, UnitsAreFinite DEF Bodies, Sizes
<1> QED
    BY <1>1, <1>2, SumEmpty DEF Bodies, Sizes

-----------------------------------------------------------------------------
(* The pipeline's steps.                                                   *)

Stages == {"arrive", "request", "handler", "start", "hooks", "body"} \cup Ended
Answers == [status : Statuses, json : BOOLEAN, length : Lengths]
Heads == [status : Statuses, length : Lengths, buffering : BOOLEAN]

(* An answer's body comes in at least one message, and a length that the
   answer has is the length of its body.                                   *)
Answered(response, lengths) ==
    /\ response \in Answers /\ response.status # 0
    /\ lengths \in Seq(Nat) /\ lengths # <<>>
    /\ response.length # None => response.length = Sum(lengths)

(* What the three kinds of handlers do to the pipeline: they answer, or go
   on to another account.                                                  *)
HandlerStep ==
    /\ stage = "handler"
    /\ UNCHANGED <<plugins, method, entered, edits, head, buffer, wire, unwound>>
    /\ \/ UNCHANGED <<app, rest, stage, turn>>
       \/ stage' = "start" /\ turn' = 1 /\ Answered(app', rest')

(* How an answer ends that somebody else broke off: the client leaves, or
   the upstream fails while its body is streamed.                          *)
Broken ==
    /\ stage \in {"start", "hooks", "body"}
    /\ UNCHANGED <<plugins, method, turn, entered, edits, app, rest, head, buffer, unwound>>
    /\ \/ stage' = "gone" /\ wire' = wire
       \/ stage = "body" /\ Fail(500)

(* The answers in JSON of the proxy itself.                                *)
LEMMA ProblemAnswered ==
    ASSUME NEW status \in 200..599
    PROVE  Answered([status |-> status, json |-> TRUE, length |-> 1], <<1>>)
<1>1. Sum(<<1>>) = 1
    BY SumOfOne
<1>2. <<1>> \in Seq(Nat) /\ <<1>> # <<>>
    OBVIOUS
<1> QED
    BY <1>1, <1>2 DEF Answered, Answers, Statuses, Lengths

(* An answer without a length is a legal one.                              *)
LEMMA UnmeasuredAnswered ==
    ASSUME NEW status \in 200..599, NEW json \in BOOLEAN, NEW lengths \in Seq(Nat), lengths # <<>>
    PROVE  Answered([status |-> status, json |-> json, length |-> None], lengths)
BY DEF Answered, Answers, Statuses, Lengths

(* Every step is one of the pipeline, one of a handler, the end of an answer
   that is broken off, or beside them.                                     *)
LEMMA NextSteps ==
    ASSUME [Next]_vars
    PROVE  \/ HookStep
           \/ HandlerStep
           \/ Broken
           \/ UNCHANGED hookVars
<1>1. CASE Hooks
    BY <1>1 DEF Hooks
<1>2. CASE Handler
    <2>1. HandlerAnswers
        BY <1>2 DEF Handler
    <2>2. CASE \E lengths \in {<<1>>, <<1, 2>>, <<2, 2>>} :
                 Answer([status |-> 200, json |-> TRUE, length |-> Sum(lengths)], lengths)
        <3>0. /\ <<1>> \in Seq(Nat) /\ <<1, 2>> \in Seq(Nat) /\ <<2, 2>> \in Seq(Nat)
              /\ <<1>> # <<>> /\ <<1, 2>> # <<>> /\ <<2, 2>> # <<>>
            OBVIOUS
        <3>1. PICK lengths \in {<<1>>, <<1, 2>>, <<2, 2>>} :
                 Answer([status |-> 200, json |-> TRUE, length |-> Sum(lengths)], lengths)
            BY <2>2
        <3>2. lengths \in Seq(Nat) /\ lengths # <<>>
            BY <3>0, <3>1, Zenon
        <3>3. Sum(lengths) \in Nat
            BY <3>2, UnitsAreFinite
        <3>4. Answered([status |-> 200, json |-> TRUE, length |-> Sum(lengths)], lengths)
            BY <3>2, <3>3 DEF Answered, Answers, Statuses, Lengths
        <3> QED
            BY <2>1, <3>1, <3>4 DEF HandlerAnswers, HandlerStep, Answer
    <2>3. CASE \E lengths \in {<<0>>, <<1, 1, 0>>} : Answer([status |-> 200, json |-> FALSE, length |-> None], lengths)
        <3>0. /\ <<0>> \in Seq(Nat) /\ <<1, 1, 0>> \in Seq(Nat)
              /\ <<0>> # <<>> /\ <<1, 1, 0>> # <<>> /\ 200 \in 200..599
            OBVIOUS
        <3>1. PICK lengths \in {<<0>>, <<1, 1, 0>>} :
                 Answer([status |-> 200, json |-> FALSE, length |-> None], lengths)
            BY <2>3
        <3>2. lengths \in Seq(Nat) /\ lengths # <<>>
            BY <3>0, <3>1, Zenon
        <3>3. Answered([status |-> 200, json |-> FALSE, length |-> None], lengths)
            BY <3>0, <3>2, UnmeasuredAnswered
        <3> QED
            BY <2>1, <3>1, <3>3 DEF HandlerAnswers, HandlerStep, Answer
    <2>4. CASE Answer([status |-> 204, json |-> FALSE, length |-> None], <<0>>)
        <3>1. <<0>> \in Seq(Nat) /\ <<0>> # <<>> /\ 204 \in 200..599
            OBVIOUS
        <3>2. Answered([status |-> 204, json |-> FALSE, length |-> None], <<0>>)
            BY <3>1, UnmeasuredAnswered
        <3> QED
            BY <2>1, <2>4, <3>2 DEF HandlerAnswers, HandlerStep, Answer
    <2> QED
        BY <2>1, <2>2, <2>3, <2>4 DEF HandlerAnswers
<1>3. ASSUME NEW status \in {200, 404, 429, 503}, stage = "handler", Relay(status)
      PROVE  stage' = "start" /\ turn' = 1 /\ Answered(app', rest')
    <2>1. PICK lengths \in {<<0>>, <<1, 0>>}, json \in BOOLEAN :
             Answer([status |-> status, json |-> json, length |-> None], lengths)
        BY <1>3 DEF Relay
    <2>2. /\ <<0>> \in Seq(Nat) /\ <<1, 0>> \in Seq(Nat) /\ <<0>> # <<>> /\ <<1, 0>> # <<>>
          /\ status \in 200..599
        OBVIOUS
    <2>3. lengths \in Seq(Nat) /\ lengths # <<>>
        BY <2>1, <2>2, Zenon
    <2>4. Answered([status |-> status, json |-> json, length |-> None], lengths)
        BY <2>2, <2>3, UnmeasuredAnswered, ZenonT(30)
    <2> QED
        BY <2>1, <2>4 DEF Answer
<1>4. CASE UpstreamAnswers
    <2>1. PICK status \in {200, 404, 429, 503} :
             IF RetryableStatus(status) /\ account < Len(Accounts)
             THEN account' = account + 1 /\ upstream' = "closed" /\ UNCHANGED <<app, rest, stage, turn>>
             ELSE Relay(status) /\ UNCHANGED account
        BY <1>4 DEF UpstreamAnswers
    <2>2. UNCHANGED <<app, rest, stage, turn>> \/ Relay(status)
        BY <2>1
    <2> QED
        BY <1>3, <1>4, <2>2 DEF UpstreamAnswers, HandlerStep
<1>5. CASE UpstreamFails
    <2>1. PICK outcome \in {502, 504} :
             IF account < Len(Accounts) THEN account' = account + 1 /\ UNCHANGED <<app, rest, stage, turn>>
             ELSE Answer([status |-> outcome, json |-> TRUE, length |-> 1], <<1>>) /\ UNCHANGED account
        BY <1>5, ZenonT(30) DEF UpstreamFails
    <2>2. Answered([status |-> outcome, json |-> TRUE, length |-> 1], <<1>>)
        <3>1. outcome \in 200..599
            OBVIOUS
        <3> QED
            BY <3>1, ProblemAnswered, ZenonT(30)
    <2>3. \/ UNCHANGED <<app, rest, stage, turn>>
          \/ Answer([status |-> outcome, json |-> TRUE, length |-> 1], <<1>>)
        BY <2>1
    <2>4. CASE Answer([status |-> outcome, json |-> TRUE, length |-> 1], <<1>>)
        <3>1. /\ app' = [status |-> outcome, json |-> TRUE, length |-> 1] /\ rest' = <<1>>
              /\ stage' = "start" /\ turn' = 1
            BY <2>4 DEF Answer
        <3>2. Answered(app', rest')
            BY <2>2, <3>1
        <3> QED
            BY <1>5, <3>1, <3>2 DEF UpstreamFails, HandlerStep
    <2> QED
        BY <1>5, <2>3, <2>4 DEF UpstreamFails, HandlerStep
<1>6. CASE AuthPluginFails
    <2>1. Answered([status |-> 503, json |-> TRUE, length |-> 1], <<1>>)
        <3>1. 503 \in 200..599
            OBVIOUS
        <3> QED
            BY <3>1, ProblemAnswered
    <2>2. stage' = "start" /\ turn' = 1 /\ Answered(app', rest')
        BY <1>6, <2>1 DEF AuthPluginFails, Answer
    <2> QED
        BY <1>6, <2>2 DEF AuthPluginFails, HandlerStep
<1>7. Socket => UNCHANGED hookVars
    BY DEF Socket, HandshakeAccepted, HandshakeRefused, NoAccountConnects, ClientSends, ClientLeaves,
           UpstreamSends, UpstreamLeaves, PumpUp, PumpDown, BridgeEnds
<1>8. UNCHANGED vars => UNCHANGED hookVars
    BY DEF vars
<1>9. ClientLeavesStream \/ UpstreamBreaks => Broken
    BY DEF ClientLeavesStream, UpstreamBreaks, Broken
<1> QED
    BY <1>1, <1>2, <1>4, <1>5, <1>6, <1>7, <1>8, <1>9 DEF Next, Finished

-----------------------------------------------------------------------------
(* The way in.                                                             *)

Ids == {plugin.id : plugin \in ToSet(plugins)}

(* The plugins entered are the first ones of the pipeline, in their order;
   the loop over the request hooks is at the plugin behind them.           *)
EntryInv ==
    /\ plugins \in Seq(ToSet(plugins))
    /\ entered \in Seq(ToSet(plugins)) /\ Len(entered) <= Len(plugins)
    /\ \A i \in 1 .. Len(entered) : entered[i] = plugins[i]
    /\ stage \in Stages
    /\ turn \in Nat /\ 1 <= turn /\ turn <= Len(plugins) + 1
    /\ stage \in {"arrive", "request"} => Len(entered) = turn - 1
    /\ edits \in Seq(Ids)
    /\ \A i \in DOMAIN edits : \E j \in DOMAIN entered : edits[i] = entered[j].id

(* No plugin is entered before the request is there.                       *)
LEMMA EntryInit == HookInit => EntryInv
<1> SUFFICES ASSUME HookInit PROVE EntryInv
    OBVIOUS
<1>1. plugins \in Seq(ToSet(plugins))
    BY PipelineAssumption DEF HookInit
<1>2. Len(plugins) \in Nat
    BY <1>1, LenProperties
<1>3. <<>> \in Seq(ToSet(plugins)) /\ <<>> \in Seq(Ids) /\ Len(<<>>) = 0 /\ DOMAIN <<>> = {}
    OBVIOUS
<1> QED
    BY <1>1, <1>2, <1>3 DEF HookInit, EntryInv, Stages

(* Where a failure leads to.                                               *)
LEMMA FailEnds ==
    ASSUME NEW status, Fail(status)
    PROVE  stage' \in {"aborted", "refused"}
BY DEF Fail

(* A request hook enters the next plugin.                                  *)
LEMMA RequestHookEntry ==
    ASSUME EntryInv, RequestHook
    PROVE  EntryInv'
<1> DEFINE plugin == plugins[turn]
<1>1. /\ plugins \in Seq(ToSet(plugins)) /\ entered \in Seq(ToSet(plugins))
      /\ \A i \in 1 .. Len(entered) : entered[i] = plugins[i]
      /\ Len(entered) = turn - 1 /\ turn \in Nat /\ 1 <= turn
      /\ edits \in Seq(Ids) /\ \A i \in DOMAIN edits : \E j \in DOMAIN entered : edits[i] = entered[j].id
    BY DEF EntryInv, RequestHook
<1>2. turn <= Len(plugins) /\ entered' = Append(entered, plugin) /\ plugins' = plugins
    BY DEF RequestHook
<1>3. Len(plugins) \in Nat /\ Len(entered) \in Nat
    BY <1>1, LenProperties
<1>4. plugin \in ToSet(plugins)
    BY <1>1, <1>2, <1>3, LenProperties DEF ToSet
<1> HIDE DEF plugin
<1>5. /\ entered' \in Seq(ToSet(plugins)) /\ Len(entered') = turn
      /\ DOMAIN entered = 1 .. turn - 1 /\ DOMAIN entered' = 1 .. turn
      /\ \A j \in 1 .. turn - 1 : entered'[j] = entered[j]
      /\ entered'[turn] = plugin
    <2>1. /\ Append(entered, plugin) \in Seq(ToSet(plugins))
          /\ Len(Append(entered, plugin)) = Len(entered) + 1
          /\ \A j \in 1 .. Len(entered) : Append(entered, plugin)[j] = entered[j]
          /\ Append(entered, plugin)[Len(entered) + 1] = plugin
        BY <1>1, <1>4, AppendProperties
    <2>2. Len(entered) + 1 = turn
        BY <1>1, <1>3
    <2>3. DOMAIN entered = 1 .. Len(entered) /\ DOMAIN entered' = 1 .. Len(entered')
        BY <1>1, <1>2, <2>1, LenProperties
    <2> QED
        BY <1>1, <1>2, <2>1, <2>2, <2>3
<1>6. \A i \in 1 .. turn : entered'[i] = plugins[i]
    BY <1>1, <1>5 DEF plugin
<1>7. /\ \/ turn' = turn + 1 /\ stage' = stage
         \/ turn' = 1 /\ stage' = "start"
         \/ turn' = turn /\ stage' \in {"aborted", "refused"}
      /\ stage = "request"
    BY FailEnds DEF RequestHook, Answer
<1>8. edits' \in {edits, Append(edits, plugin.id)}
    BY DEF RequestHook, plugin
<1>9. plugin.id \in Ids
    BY <1>4 DEF Ids
<1>10. edits' \in Seq(Ids)
    <2>1. edits \in Seq(Ids)
        BY <1>1
    <2>2. Append(edits, plugin.id) \in Seq(Ids)
        BY <1>9, <2>1, AppendProperties
    <2> QED
        BY <1>8, <2>1, <2>2
<1>11. ASSUME NEW i \in DOMAIN edits'
       PROVE  \E j \in DOMAIN entered' : edits'[i] = entered'[j].id
    <2>1. DOMAIN edits = 1 .. Len(edits) /\ Len(edits) \in Nat
        BY <1>1, LenProperties
    <2>2. CASE i \in DOMAIN edits
        <3>1. edits'[i] = edits[i]
            BY <1>1, <1>8, <1>9, <2>1, <2>2, AppendProperties
        <3>2. PICK j \in DOMAIN entered : edits[i] = entered[j].id
            BY <1>1, <2>2
        <3>3. j \in DOMAIN entered' /\ entered'[j] = entered[j]
            BY <1>1, <1>5
        <3> QED
            BY <3>1, <3>2, <3>3
    <2>3. CASE i \notin DOMAIN edits
        <3>1. edits' = Append(edits, plugin.id)
            BY <1>8, <2>3
        <3>2. i = Len(edits) + 1
            <4>1. DOMAIN edits' = 1 .. Len(edits) + 1
                BY <1>1, <1>9, <3>1, AppendProperties, LenProperties
            <4> QED
                BY <2>1, <2>3, <4>1
        <3>3. edits'[i] = plugin.id
            BY <1>1, <1>9, <3>1, <3>2, AppendProperties
        <3>4. turn \in DOMAIN entered'
            BY <1>1, <1>5
        <3> QED
            BY <1>5, <3>3, <3>4
    <2> QED
        BY <2>2, <2>3
<1>12. /\ turn' \in Nat /\ 1 <= turn' /\ turn' <= Len(plugins) + 1
       /\ stage' \in Stages
       /\ stage' \in {"arrive", "request"} => Len(entered') = turn' - 1
    BY <1>1, <1>2, <1>3, <1>5, <1>7 DEF Stages, Ended
<1>13. Ids' = Ids
    BY <1>2 DEF Ids
<1> QED
    BY <1>1, <1>2, <1>5, <1>6, <1>10, <1>11, <1>12, <1>13 DEF EntryInv

(* The rest of the pipeline enters no plugin.                              *)
LEMMA EntryStep ==
    ASSUME EntryInv, [Next]_vars
    PROVE  EntryInv'
<1>1. CASE RequestHook
    BY <1>1, RequestHookEntry
<1>2. ASSUME UNCHANGED <<plugins, entered, edits>>, stage' \in Stages,
             stage' \in {"arrive", "request"} => stage \in {"arrive", "request"} /\ turn' = turn,
             turn' \in Nat, 1 <= turn', turn' <= Len(plugins) + 1
      PROVE  EntryInv'
    BY <1>2 DEF EntryInv, Ids
<1>3. ASSUME UNCHANGED <<plugins, entered, edits, turn>>, stage' \in Stages,
             stage' \in {"arrive", "request"} => stage \in {"arrive", "request"}
      PROVE  EntryInv'
    BY <1>2, <1>3 DEF EntryInv
<1>4. ASSUME UNCHANGED <<plugins, entered, edits>>, turn' = 1, stage' \in Stages \ {"arrive", "request"}
      PROVE  EntryInv'
    <2>1. Len(plugins) \in Nat
        BY LenProperties DEF EntryInv
    <2> QED
        BY <1>2, <1>4, <2>1
<1>5. CASE ReadBody
    BY <1>3, <1>5, FailEnds DEF ReadBody, Stages, Ended
<1>6. CASE RequestPassed
    BY <1>3, <1>6 DEF RequestPassed, Stages
<1>7. CASE ResponseStarts
    <2>1. stage' \in {"body", "hooks"}
        BY <1>7 DEF ResponseStarts
    <2> QED
        BY <1>4, <1>7, <2>1 DEF ResponseStarts, Stages
<1>8. CASE ResponseHook
    <2>1. \/ turn' = turn + 1 /\ stage' = stage
          \/ turn' = turn /\ stage' \in {"aborted", "refused"}
        BY <1>8, FailEnds DEF ResponseHook
    <2>2. /\ UNCHANGED <<plugins, entered, edits>> /\ turn <= Len(entered)
          /\ stage = "hooks"
        BY <1>8 DEF ResponseHook
    <2>3. Len(plugins) \in Nat /\ Len(entered) \in Nat /\ turn \in Nat /\ Len(entered) <= Len(plugins)
          /\ 1 <= turn
        BY LenProperties DEF EntryInv
    <2>4. turn' \in Nat /\ 1 <= turn' /\ turn' <= Len(plugins) + 1
        BY <2>1, <2>2, <2>3
    <2> QED
        BY <1>2, <2>1, <2>2, <2>4 DEF Stages, Ended
<1>9. CASE StreamHead
    BY <1>3, <1>9 DEF StreamHead, Stages
<1>10. CASE StreamChunk
    <2>1. stage' \in {"body", "done", "aborted", "refused"}
        BY <1>10, FailEnds DEF StreamChunk, ChunkFails
    <2>2. UNCHANGED <<plugins, entered, edits, turn>>
        BY <1>10 DEF StreamChunk, ChunkFails
    <2> QED
        BY <1>3, <2>1, <2>2 DEF Stages, Ended
<1>11. CASE BufferChunk
    <2>1. \/ turn' = turn /\ stage' \in {"aborted", "refused"}
          \/ turn' = 1 /\ stage' \in {"hooks", "body"}
        BY <1>11, FailEnds DEF BufferChunk
    <2>2. UNCHANGED <<plugins, entered, edits>>
        BY <1>11 DEF BufferChunk
    <2> QED
        BY <1>3, <1>4, <2>1, <2>2 DEF Stages, Ended
<1>12. CASE BufferedSend
    <2>1. stage' \in {"done", "aborted", "refused"}
        BY <1>12, FailEnds DEF BufferedSend, ChunkFails
    <2>2. UNCHANGED <<plugins, entered, edits, turn>>
        BY <1>12 DEF BufferedSend, ChunkFails
    <2> QED
        BY <1>3, <2>1, <2>2 DEF Stages, Ended
<1>13. CASE HandlerStep
    <2>1. UNCHANGED <<plugins, entered, edits>> /\ stage = "handler"
        BY <1>13 DEF HandlerStep
    <2>2. UNCHANGED <<stage, turn>> \/ (stage' = "start" /\ turn' = 1)
        BY <1>13 DEF HandlerStep
    <2> QED
        BY <1>3, <1>4, <2>1, <2>2 DEF Stages
<1>14. CASE UNCHANGED hookVars
    BY <1>14 DEF hookVars, EntryInv, Ids
<1>15. CASE Broken
    <2>1. stage' \in {"gone", "aborted", "refused"} /\ UNCHANGED <<plugins, entered, edits, turn>>
        BY <1>15, FailEnds DEF Broken
    <2> QED
        BY <1>3, <2>1 DEF Stages, Ended
<1> QED
    BY <1>1, <1>5, <1>6, <1>7, <1>8, <1>9, <1>10, <1>11, <1>12, <1>13, <1>14, <1>15, NextSteps DEF HookStep

-----------------------------------------------------------------------------
(* The data of the way out.                                                *)

DataInv ==
    /\ method \in {"GET", "HEAD"}
    /\ app \in Answers /\ rest \in Seq(Nat)
    /\ head \in Heads /\ buffer \in 0 .. Limit
    /\ wire \in Seq(Messages)

(* Nothing is answered yet.                                                *)
LEMMA DataInit == HookInit => DataInv
<1> SUFFICES ASSUME HookInit PROVE DataInv
    OBVIOUS
<1>1. Limit \in Nat
    BY PipelineAssumption
<1>2. <<>> \in Seq(Nat) /\ <<>> \in Seq(Messages)
    OBVIOUS
<1> QED
    BY <1>1, <1>2 DEF HookInit, DataInv, Answers, Heads, Statuses, Lengths, NoHead

(* What starts an answer is a message.                                     *)
LEMMA StartType ==
    ASSUME NEW status \in Statuses, NEW length \in Lengths
    PROVE  Start(status, length) \in Messages
<1>1. Start(status, length) \in [type : {"start"}, status : Statuses, length : Lengths, size : {0}]
    BY DEF Start
<1> QED
    BY <1>1 DEF Messages

(* So is a part of its body.                                               *)
LEMMA BodyType ==
    ASSUME NEW size \in Nat, NEW more \in BOOLEAN
    PROVE  Body(size, more) \in Messages
<1>1. Body(size, more) \in [type : {"body"}, status : {0}, length : {None}, size : Nat, more : BOOLEAN]
    BY DEF Body
<1> QED
    BY <1>1 DEF Messages

(* Two messages are a sequence of them.                                    *)
LEMMA PairType ==
    ASSUME NEW S, NEW a \in S, NEW b \in S
    PROVE  <<a, b>> \in Seq(S)
OBVIOUS

(* A failure leaves messages on the wire.                                  *)
LEMMA FailWire ==
    ASSUME NEW status \in {413, 500, 502}, Fail(status), wire \in Seq(Messages)
    PROVE  wire' \in Seq(Messages)
<1>1. status \in Statuses /\ 1 \in Lengths
    BY DEF Statuses, Lengths
<1>2. Start(status, 1) \in Messages
    BY <1>1, StartType
<1>3. Body(1, FALSE) \in Messages
    <2>1. Body(1, FALSE) \in [type : {"body"}, status : {0}, length : {None}, size : Nat, more : BOOLEAN]
        BY DEF Body
    <2> QED
        BY <2>1 DEF Messages
<1>4. <<Start(status, 1), Body(1, FALSE)>> \in Seq(Messages)
    BY <1>2, <1>3, PairType
<1> QED
    BY <1>4 DEF Fail

(* The chunk hooks make a size of a size.                                  *)
LEMMA EditedType ==
    ASSUME NEW size \in Nat, NEW edited \in Edited(size)
    PROVE  edited \in Nat
BY DEF Edited

(* Every step keeps the types of the way out.                              *)
LEMMA DataStep ==
    ASSUME DataInv, [Next]_vars
    PROVE  DataInv'
<1>0. Limit \in Nat
    BY PipelineAssumption
<1>1. /\ method \in {"GET", "HEAD"} /\ app \in Answers /\ rest \in Seq(Nat)
      /\ head \in Heads /\ buffer \in 0 .. Limit /\ wire \in Seq(Messages)
    BY DEF DataInv
<1>2. ASSUME UNCHANGED <<method, app, rest, head, buffer>>, wire' \in Seq(Messages)
      PROVE  DataInv'
    BY <1>2 DEF DataInv
<1>3. CASE ReadBody
    <2>1. wire' = wire \/ Fail(413)
        BY <1>3 DEF ReadBody
    <2>2. wire' \in Seq(Messages)
        BY <1>1, <2>1, FailWire
    <2> QED
        BY <1>2, <1>3, <2>2 DEF ReadBody
<1>4. CASE RequestHook
    <2>1. UNCHANGED <<method, head, buffer>>
        BY <1>4 DEF RequestHook
    <2>2. \/ UNCHANGED <<app, rest, wire>>
          \/ UNCHANGED <<app, rest>> /\ Fail(500)
          \/ /\ UNCHANGED wire
             /\ \E status \in {204, 403}, size \in 0..1 :
                  app' = [status |-> status, json |-> TRUE, length |-> None] /\ rest' = <<size>>
        BY <1>4 DEF RequestHook, Answer
    <2>3. wire' \in Seq(Messages)
        <3>1. wire' = wire \/ Fail(500)
            BY <2>2
        <3> QED
            BY <1>1, <3>1, FailWire
    <2>4. app' \in Answers
        <3>1. app' = app \/ \E status \in {204, 403} : app' = [status |-> status, json |-> TRUE, length |-> None]
            BY <2>2
        <3>2. CASE app' = app
            BY <1>1, <3>2
        <3>3. ASSUME NEW status \in {204, 403}, app' = [status |-> status, json |-> TRUE, length |-> None]
              PROVE  app' \in Answers
            BY <3>3 DEF Answers, Statuses, Lengths
        <3> QED
            BY <3>1, <3>2, <3>3
    <2>5. rest' \in Seq(Nat)
        <3>1. rest' = rest \/ \E size \in 0..1 : rest' = <<size>>
            BY <2>2
        <3>2. ASSUME NEW size \in 0..1
              PROVE  <<size>> \in Seq(Nat)
            OBVIOUS
        <3> QED
            BY <1>1, <3>1, <3>2, Zenon
    <2> QED
        BY <1>1, <2>1, <2>3, <2>4, <2>5 DEF DataInv
<1>5. CASE RequestPassed
    BY <1>1, <1>2, <1>5 DEF RequestPassed
<1>6. CASE ResponseStarts
    <2>1. UNCHANGED <<method, app, rest, wire>> /\ buffer' = 0
        BY <1>6 DEF ResponseStarts
    <2>2. head' \in Heads
        BY <1>1, <1>6 DEF ResponseStarts, Heads, Answers
    <2> QED
        BY <1>0, <1>1, <2>1, <2>2 DEF DataInv
<1>7. CASE ResponseHook
    <2>1. UNCHANGED <<method, app, rest>>
        BY <1>7 DEF ResponseHook
    <2>2. wire' = wire \/ Fail(500)
        BY <1>7 DEF ResponseHook
    <2>3. wire' \in Seq(Messages)
        BY <1>1, <2>2, FailWire
    <2>4. head' = head \/ \E status \in {head.status, 204} : head' = [head EXCEPT !.status = status]
        BY <1>7 DEF ResponseHook
    <2>5. head' \in Heads
        BY <1>1, <2>4, SMTT(30) DEF Heads, Statuses
    <2>6. \/ buffer' = buffer
          \/ buffer' \in {buffer} \cup (IF head.buffering /\ buffer < Limit THEN {buffer + 1} ELSE {})
        BY <1>7 DEF ResponseHook
    <2>7. buffer' \in 0 .. Limit
        BY <1>0, <1>1, <2>6
    <2> QED
        BY <1>1, <2>1, <2>3, <2>5, <2>7 DEF DataInv
<1>8. CASE StreamHead
    <2>1. PICK declared \in {None, head.length} : wire' = Append(wire, Start(head.status, declared))
        BY <1>8 DEF StreamHead
    <2>2. head.status \in Statuses /\ declared \in Lengths
        BY <1>1 DEF Heads, Lengths
    <2>3. Start(head.status, declared) \in Messages
        BY <2>2, StartType
    <2>4. wire' \in Seq(Messages)
        BY <1>1, <2>1, <2>3, AppendProperties
    <2> QED
        BY <1>2, <1>8, <2>4 DEF StreamHead
<1>9. CASE StreamChunk
    <2>1. rest # <<>> /\ UNCHANGED <<method, app, head, buffer>>
        BY <1>9 DEF StreamChunk
    <2>2. Head(rest) \in Nat /\ Tail(rest) \in Seq(Nat) /\ Len(rest) \in Nat
        BY <1>1, <2>1, HeadTailProperties, LenProperties
    <2>3. \/ \E size \in Edited(Head(rest)) : wire' = Append(wire, Body(size, Len(rest) > 1))
          \/ Fail(500)
        BY <1>9 DEF StreamChunk, ChunkFails
    <2>4. rest' \in {rest, Tail(rest)}
        BY <1>9 DEF StreamChunk, ChunkFails
    <2>5. ASSUME NEW size \in Edited(Head(rest)), wire' = Append(wire, Body(size, Len(rest) > 1))
          PROVE  wire' \in Seq(Messages)
        <3>1. size \in Nat
            BY <2>2, EditedType
        <3>2. (Len(rest) > 1) \in BOOLEAN
            BY <2>2
        <3>3. Body(size, Len(rest) > 1) \in Messages
            BY <3>1, <3>2, BodyType
        <3> QED
            BY <1>1, <2>5, <3>3, AppendProperties
    <2>6. wire' \in Seq(Messages)
        BY <1>1, <2>3, <2>5, FailWire
    <2>7. rest' \in Seq(Nat)
        BY <1>1, <2>2, <2>4
    <2> QED
        BY <1>1, <2>1, <2>6, <2>7 DEF DataInv
<1>10. CASE BufferChunk
    <2>1. rest # <<>> /\ UNCHANGED <<method, app, head>>
        BY <1>10 DEF BufferChunk
    <2>2. Head(rest) \in Nat /\ Tail(rest) \in Seq(Nat)
        BY <1>1, <2>1, HeadTailProperties
    <2>3. \/ Fail(502) /\ UNCHANGED <<rest, buffer>>
          \/ ~ (buffer + Head(rest) > Limit) /\ buffer' = buffer + Head(rest) /\ rest' = Tail(rest) /\ wire' = wire
        BY <1>10 DEF BufferChunk
    <2>4. wire' \in Seq(Messages)
        BY <1>1, <2>3, FailWire
    <2>5. rest' \in Seq(Nat)
        BY <1>1, <2>2, <2>3
    <2>6. buffer' \in 0 .. Limit
        BY <1>0, <1>1, <2>2, <2>3
    <2> QED
        BY <1>1, <2>1, <2>4, <2>5, <2>6 DEF DataInv
<1>11. CASE BufferedSend
    <2>1. UNCHANGED <<method, app, head, buffer, rest>>
        BY <1>11 DEF BufferedSend, ChunkFails
    <2>2. \/ \E size \in Edited(buffer), length \in {None} \cup Edited(buffer) :
               wire' = <<Start(head.status, length), Body(size, FALSE)>>
          \/ Fail(500)
        BY <1>11 DEF BufferedSend, ChunkFails
    <2>3. ASSUME NEW size \in Edited(buffer), NEW length \in {None} \cup Edited(buffer),
                 wire' = <<Start(head.status, length), Body(size, FALSE)>>
          PROVE  wire' \in Seq(Messages)
        <3>1. buffer \in Nat
            BY <1>0, <1>1
        <3>2. size \in Nat /\ length \in Lengths
            BY <3>1, EditedType DEF Lengths
        <3>3. head.status \in Statuses /\ FALSE \in BOOLEAN
            BY <1>1 DEF Heads
        <3>4. Start(head.status, length) \in Messages
            BY <3>2, <3>3, StartType
        <3>5. Body(size, FALSE) \in Messages
            BY <3>2, <3>3, BodyType
        <3>6. <<Start(head.status, length), Body(size, FALSE)>> \in Seq(Messages)
            BY <3>4, <3>5, PairType
        <3> QED
            BY <2>3, <3>6
    <2>4. wire' \in Seq(Messages)
        BY <1>1, <2>2, <2>3, FailWire, ZenonT(30)
    <2> QED
        BY <1>2, <2>1, <2>4
<1>12. CASE HandlerStep
    <2>1. UNCHANGED <<method, head, buffer, wire>>
        BY <1>12 DEF HandlerStep
    <2>2. UNCHANGED <<app, rest>> \/ Answered(app', rest')
        BY <1>12 DEF HandlerStep
    <2> QED
        BY <1>1, <2>1, <2>2 DEF DataInv, Answered
<1>13. CASE UNCHANGED hookVars
    BY <1>13 DEF hookVars, DataInv
<1>14. CASE Broken
    <2>1. UNCHANGED <<method, app, rest, head, buffer>> /\ (wire' = wire \/ Fail(500))
        BY <1>14 DEF Broken
    <2>2. wire' \in Seq(Messages)
        BY <1>1, <2>1, FailWire
    <2> QED
        BY <1>1, <2>1, <2>2 DEF DataInv
<1> QED
    BY <1>3, <1>4, <1>5, <1>6, <1>7, <1>8, <1>9, <1>10, <1>11, <1>12, <1>13, <1>14, NextSteps DEF HookStep

-----------------------------------------------------------------------------
(* The wire.                                                               *)

Silent == stage \in {"arrive", "request", "handler", "start", "hooks"} \/ (stage = "body" /\ head.buffering)
Streaming == stage = "body" /\ ~head.buffering

(* Nothing is sent before the response hooks are through or, for a body
   held back, before all of it is there; then a body is streamed of which
   the last message is still to come.                                      *)
WireInv ==
    /\ Silent => wire = <<>>
    /\ Streaming => wire # <<>> /\ \A i \in DOMAIN wire : i > 1 => wire[i].more = TRUE
    /\ stage \in {"start", "body"} \/ (stage = "hooks" /\ ~head.buffering) => rest # <<>>
    /\ WireWellFormed

(* Nothing is sent yet.                                                    *)
LEMMA WireInit == HookInit => WireInv
<1> SUFFICES ASSUME HookInit PROVE WireInv
    OBVIOUS
<1>1. wire = <<>> /\ stage = "arrive" /\ DOMAIN wire = {}
    BY DEF HookInit
<1> QED
    BY <1>1 DEF WireInv, Silent, Streaming, WireWellFormed

(* A failure before anything was sent is a refusal of two messages.        *)
LEMMA FailRefuses ==
    ASSUME NEW status \in {413, 500, 502}, Fail(status), wire = <<>>
    PROVE  stage' = "refused" /\ wire' = <<Start(status, 1), Body(1, FALSE)>> /\ WireInv'
<1>1. ~Started
    BY DEF Started
<1>2. stage' = "refused" /\ wire' = <<Start(status, 1), Body(1, FALSE)>>
    BY <1>1 DEF Fail
<1>3. /\ Len(wire') = 2 /\ DOMAIN wire' = {1, 2}
      /\ wire'[1] = Start(status, 1) /\ wire'[2] = Body(1, FALSE)
    BY <1>2
<1>4. /\ wire'[1].type = "start" /\ wire'[1].status = status
      /\ wire'[2].type = "body" /\ wire'[2].more = FALSE
    BY <1>3 DEF Start, Body
<1>5. WireWellFormed'
    <2>1. \A i \in {1, 2} : (wire'[i].type = "start") = (i = 1)
        BY <1>4
    <2>2. \A i \in {1, 2} : i > 1 => wire'[i].more = (i < 2 \/ stage' \notin {"done", "refused"})
        <3>1. ~ (2 < 2 \/ stage' \notin {"done", "refused"})
            BY <1>2
        <3>2. wire'[2].more = (2 < 2 \/ stage' \notin {"done", "refused"})
            BY <1>4, <3>1, Zenon
        <3>3. ~ (1 > 1)
            OBVIOUS
        <3> QED
            BY <3>2, <3>3
    <2> QED
        BY <1>3, <1>4, <2>1, <2>2 DEF WireWellFormed
<1> QED
    BY <1>2, <1>5 DEF WireInv, Silent, Streaming

(* A failure after something was sent adds nothing.                        *)
LEMMA FailAborts ==
    ASSUME NEW status, Fail(status), WireInv, Streaming, wire \in Seq(Messages)
    PROVE  stage' = "aborted" /\ wire' = wire /\ WireInv'
<1>1. wire # <<>>
    BY DEF WireInv
<1>2. 1 \in DOMAIN wire
    BY <1>1, LenProperties, EmptySeq
<1>3. wire[1].type = "start"
    BY <1>2 DEF WireInv, WireWellFormed
<1>4. Started
    BY <1>2, <1>3 DEF Started
<1>5. stage' = "aborted" /\ wire' = wire
    BY <1>4 DEF Fail
<1>6. WireWellFormed'
    <2>1. \A i \in DOMAIN wire : (wire[i].type = "start") = (i = 1)
        BY DEF WireInv, WireWellFormed
    <2>2. \A i \in DOMAIN wire : i > 1 => wire[i].more = (i < Len(wire) \/ stage' \notin {"done", "refused"})
        BY <1>5 DEF WireInv
    <2> QED
        BY <1>5, <2>1, <2>2 DEF WireWellFormed
<1> QED
    BY <1>5, <1>6 DEF WireInv, Silent, Streaming

(* A step that sends nothing and does not end.                             *)
LEMMA SilentStep ==
    ASSUME WireInv, wire' = wire, Silent, Silent' \/ stage' = stage,
           stage' \in {"start", "body"} \/ (stage' = "hooks" /\ ~head'.buffering) => rest' # <<>>,
           head'.buffering = head.buffering \/ Silent'
    PROVE  WireInv'
<1>1. wire' = <<>> /\ DOMAIN wire' = {}
    BY DEF WireInv
<1>2. ~Streaming'
    BY DEF Silent, Streaming
<1>3. stage' # "refused"
    BY DEF Silent
<1>4. WireWellFormed'
    BY <1>1, <1>3 DEF WireWellFormed
<1> QED
    BY <1>1, <1>2, <1>4 DEF WireInv

(* The first part of a streamed body is on its way when its head is.       *)
LEMMA StreamHeadWire ==
    ASSUME WireInv, DataInv, StreamHead
    PROVE  WireInv' /\ wire = <<>>
<1>1. wire = <<>> /\ rest # <<>>
    BY DEF StreamHead, WireInv, Silent
<1>2. PICK declared : wire' = Append(wire, Start(head.status, declared))
    BY DEF StreamHead
<1>3. wire' = <<Start(head.status, declared)>>
    BY <1>1, <1>2
<1>4. wire' # <<>> /\ Len(wire') = 1 /\ DOMAIN wire' = {1} /\ wire'[1].type = "start"
    BY <1>3 DEF Start
<1>5. stage' = "body" /\ head' = head /\ ~head.buffering /\ rest' = rest
    BY DEF StreamHead
<1>6. WireWellFormed'
    BY <1>4, <1>5 DEF WireWellFormed
<1> QED
    BY <1>1, <1>4, <1>5, <1>6 DEF WireInv, Silent, Streaming

(* A message more of the body is the last if and only if the answer is done. *)
LEMMA StreamChunkWire ==
    ASSUME WireInv, DataInv, StreamChunk
    PROVE  WireInv'
<1>1. Streaming /\ rest # <<>> /\ UNCHANGED <<head, method, entered>>
    BY DEF StreamChunk, Streaming
<1>2. wire \in Seq(Messages) /\ rest \in Seq(Nat)
    BY DEF DataInv
<1>3. CASE Fail(500)
    BY <1>1, <1>2, <1>3, FailAborts
<1>4. CASE ~Fail(500)
    <2>1. PICK size : wire' = Append(wire, Body(size, Len(rest) > 1))
        BY <1>4 DEF StreamChunk, ChunkFails
    <2>2. rest' = Tail(rest) /\ stage' = IF Len(rest) = 1 THEN "done" ELSE "body"
        BY <1>4 DEF StreamChunk, ChunkFails
    <2>4. DOMAIN wire = 1 .. Len(wire) /\ Len(wire) \in Nat /\ Len(wire) >= 1
        BY <1>1, <1>2, LenProperties, EmptySeq DEF WireInv
    <2> DEFINE m == Body(size, Len(rest) > 1)
               last == Len(wire) + 1
    <2>5. m.type = "body" /\ m.more = (Len(rest) > 1)
        BY DEF Body
    <2> HIDE DEF m
    <2>6. /\ Len(wire') = last /\ DOMAIN wire' = 1 .. last
          /\ wire'[last] = m /\ \A i \in 1 .. Len(wire) : wire'[i] = wire[i]
        BY <1>2, <2>1, <2>4 DEF m
    <2>8. Len(rest) \in Nat /\ Len(rest) # 0
        BY <1>1, <1>2, LenProperties, EmptySeq
    <2>3. \/ Len(rest) = 1 /\ stage' = "done" /\ ~ (Len(rest) > 1)
          \/ Len(rest) # 1 /\ stage' = "body" /\ Len(rest) > 1
        <3>1. CASE Len(rest) = 1
            BY <2>2, <3>1
        <3>2. CASE Len(rest) # 1
            <4>1. \A n \in Nat : n # 0 /\ n # 1 => n > 1
                OBVIOUS
            <4>2. Len(rest) > 1
                BY <2>8, <3>2, <4>1, Zenon
            <4> QED
                BY <2>2, <3>2, <4>2
        <3> QED
            BY <3>1, <3>2
    <2>7. \A i \in 1 .. last : (wire'[i].type = "start") = (i = 1)
        <3> SUFFICES ASSUME NEW i \in 1 .. last
                     PROVE  (wire'[i].type = "start") = (i = 1)
            OBVIOUS
        <3>1. CASE i = last
            BY <2>4, <2>5, <2>6, <3>1
        <3>2. CASE i # last
            <4>1. i \in 1 .. Len(wire)
                BY <2>4, <3>2
            <4> QED
                BY <2>4, <2>6, <4>1 DEF WireInv, WireWellFormed
        <3> QED
            BY <3>1, <3>2
    <2>9. \A i \in 1 .. Len(wire) : i > 1 => wire'[i].more = TRUE
        BY <1>1, <2>4, <2>6 DEF WireInv
    <2>10. \A i \in 1 .. last : i > 1 => wire'[i].more = (i < last \/ stage' \notin {"done", "refused"})
        <3> SUFFICES ASSUME NEW i \in 1 .. last, i > 1
                     PROVE  wire'[i].more = (i < last \/ stage' \notin {"done", "refused"})
            OBVIOUS
        <3>1. CASE i = last
            <4>1. ~ (i < last)
                BY <2>4, <3>1
            <4>2. (Len(rest) > 1) <=> stage' \notin {"done", "refused"}
                BY <2>3
            <4> QED
                BY <2>5, <2>6, <3>1, <4>1, <4>2
        <3>2. CASE i # last
            <4>1. i \in 1 .. Len(wire) /\ i < last
                BY <2>4, <3>2
            <4> QED
                BY <2>9, <4>1
        <3> QED
            BY <3>1, <3>2
    <2>11. WireWellFormed'
        BY <2>2, <2>6, <2>7, <2>10 DEF WireWellFormed
    <2>12. stage' = "body" => rest' # <<>>
        <3>1. Len(Tail(rest)) = Len(rest) - 1
            BY <1>1, <1>2, HeadTailProperties
        <3>2. \A n \in Nat : n # 1 => n - 1 # 0
            OBVIOUS
        <3>3. Len(rest) # 1 => Len(Tail(rest)) # 0
            BY <2>8, <3>1, <3>2, Zenon
        <3>4. Len(<<>>) = 0
            BY EmptySeq
        <3>5. stage' = "body" => Len(rest) # 1
            BY <2>3, Zenon
        <3> QED
            BY <2>2, <3>3, <3>4, <3>5, Zenon
    <2>13. stage' = "body" => wire' # <<>> /\ \A i \in DOMAIN wire' : i > 1 => wire'[i].more = TRUE
        <3> SUFFICES ASSUME stage' = "body"
                     PROVE  wire' # <<>> /\ \A i \in DOMAIN wire' : i > 1 => wire'[i].more = TRUE
            OBVIOUS
        <3>1. wire' # <<>>
            BY <2>4, <2>6
        <3>2. (Len(rest) > 1) = TRUE
            BY <2>3, Zenon
        <3>3. \A i \in 1 .. last : i \in 1 .. Len(wire) \/ i = last
            BY <2>4
        <3> QED
            BY <2>5, <2>6, <2>9, <3>1, <3>2, <3>3
    <2>14. stage' \in {"done", "body"} /\ ~head'.buffering
        BY <1>1, <2>2 DEF Streaming
    <2> QED
        BY <2>11, <2>12, <2>13, <2>14 DEF WireInv, Silent, Streaming
<1> QED
    BY <1>3, <1>4

(* A body that was held back is sent behind its head, whole.               *)
LEMMA BufferedSendWire ==
    ASSUME WireInv, DataInv, BufferedSend
    PROVE  WireInv'
<1>1. wire = <<>>
    BY DEF BufferedSend, WireInv, Silent
<1>2. CASE Fail(500)
    BY <1>1, <1>2, FailRefuses
<1>3. CASE ~Fail(500)
    <2>1. PICK length, size : wire' = <<Start(head.status, length), Body(size, FALSE)>>
        BY <1>3 DEF BufferedSend, ChunkFails
    <2>2. stage' = "done"
        BY <1>3 DEF BufferedSend, ChunkFails
    <2>3. /\ Len(wire') = 2 /\ DOMAIN wire' = {1, 2}
          /\ wire'[1].type = "start" /\ wire'[2].type = "body" /\ wire'[2].more = FALSE
        BY <2>1 DEF Start, Body
    <2>4. ~ (2 < 2 \/ stage' \notin {"done", "refused"})
        BY <2>2
    <2>5. wire'[2].more = (2 < 2 \/ stage' \notin {"done", "refused"})
        BY <2>3, <2>4, Zenon
    <2>6. ~ (1 > 1)
        OBVIOUS
    <2>7. WireWellFormed'
        BY <2>2, <2>3, <2>5, <2>6 DEF WireWellFormed
    <2> QED
        BY <2>2, <2>7 DEF WireInv, Silent, Streaming
<1> QED
    BY <1>2, <1>3

(* A client that leaves adds nothing.                                      *)
LEMMA LeftWire ==
    ASSUME WireInv, stage' = "gone", wire' = wire, Silent \/ Streaming
    PROVE  WireInv'
<1>1. \A i \in DOMAIN wire : (wire[i].type = "start") = (i = 1)
    BY DEF WireInv, WireWellFormed
<1>2. \A i \in DOMAIN wire : i > 1 => wire[i].more = TRUE
    <2>1. CASE Silent
        <3>1. DOMAIN wire = {}
            BY <2>1 DEF WireInv
        <3> QED
            BY <3>1
    <2>2. CASE Streaming
        BY <2>2 DEF WireInv
    <2> QED
        BY <2>1, <2>2
<1>3. WireWellFormed'
    BY <1>1, <1>2 DEF WireWellFormed
<1> QED
    BY <1>3 DEF WireInv, Silent, Streaming

(* Every step keeps the wire well formed.                                  *)
LEMMA WireStep ==
    ASSUME WireInv, DataInv, [Next]_vars
    PROVE  WireInv'
<1>1. head \in Heads /\ wire \in Seq(Messages) /\ rest \in Seq(Nat) /\ wire' \in Seq(Messages)
    BY DataStep DEF DataInv
<1>2. CASE ReadBody
    <2>1. stage = "arrive" /\ Silent /\ UNCHANGED <<head, rest>> /\ wire = <<>>
        BY <1>2 DEF ReadBody, Silent, WireInv
    <2>2. CASE Fail(413)
        BY <2>1, <2>2, FailRefuses
    <2>3. CASE ~Fail(413)
        <3>1. stage' \in {"request", "gone"} /\ wire' = wire
            BY <1>2, <2>3 DEF ReadBody
        <3>2. CASE stage' = "request"
            BY <2>1, <3>1, <3>2, SilentStep DEF Silent
        <3>3. CASE stage' = "gone"
            BY <2>1, <3>1, <3>3, LeftWire
        <3> QED
            BY <3>1, <3>2, <3>3
    <2> QED
        BY <2>2, <2>3
<1>3. CASE RequestHook
    <2>1. stage = "request" /\ Silent /\ head' = head /\ wire = <<>>
        BY <1>3 DEF RequestHook, Silent, WireInv
    <2>2. CASE Fail(500)
        BY <2>1, <2>2, FailRefuses
    <2>3. CASE ~Fail(500)
        <3>1. \/ stage' = stage
              \/ stage' = "start" /\ \E size \in 0..1 : rest' = <<size>>
            BY <1>3, <2>3 DEF RequestHook, Answer
        <3>2. wire' = wire
            BY <1>3, <2>3 DEF RequestHook
        <3>3. \A size \in 0..1 : <<size>> # <<>>
            OBVIOUS
        <3>4. stage' = "start" => rest' # <<>>
            BY <2>1, <3>1, <3>3
        <3>5. Silent' /\ stage' \in {"request", "start"}
            BY <2>1, <3>1 DEF Silent
        <3> QED
            BY <2>1, <3>2, <3>4, <3>5, SilentStep
    <2> QED
        BY <2>2, <2>3
<1>4. CASE RequestPassed
    <2>1. Silent /\ Silent' /\ stage' = "handler" /\ UNCHANGED <<head, rest, wire>>
        BY <1>4 DEF RequestPassed, Silent
    <2> QED
        BY <2>1, SilentStep
<1>5. CASE ResponseStarts
    <2>1. Silent /\ UNCHANGED <<rest, wire>> /\ rest # <<>>
        BY <1>5 DEF ResponseStarts, Silent, WireInv
    <2>2. stage' = IF head'.buffering THEN "body" ELSE "hooks"
        BY <1>5 DEF ResponseStarts
    <2>3. Silent'
        BY <2>2 DEF Silent
    <2> QED
        BY <2>1, <2>3, SilentStep
<1>6. CASE ResponseHook
    <2>1. stage = "hooks" /\ Silent /\ rest' = rest /\ wire = <<>>
        BY <1>6 DEF ResponseHook, Silent, WireInv
    <2>2. CASE Fail(500)
        BY <2>1, <2>2, FailRefuses
    <2>3. CASE ~Fail(500)
        <3>1. stage' = stage /\ wire' = wire
            BY <1>6, <2>3 DEF ResponseHook
        <3>2. head' = head \/ \E status \in {head.status, 204} : head' = [head EXCEPT !.status = status]
            BY <1>6 DEF ResponseHook
        <3>3. head'.buffering = head.buffering
            BY <1>1, <3>2 DEF Heads
        <3>4. Silent' /\ stage' = "hooks"
            BY <2>1, <3>1 DEF Silent
        <3>5. ~head.buffering => rest # <<>>
            BY <2>1 DEF WireInv
        <3> QED
            BY <2>1, <3>1, <3>3, <3>4, <3>5, SilentStep
    <2> QED
        BY <2>2, <2>3
<1>7. CASE StreamHead
    BY <1>7, StreamHeadWire
<1>8. CASE StreamChunk
    BY <1>8, StreamChunkWire
<1>9. CASE BufferChunk
    <2>1. stage = "body" /\ head.buffering /\ Silent /\ head' = head /\ wire = <<>> /\ rest # <<>>
        BY <1>9 DEF BufferChunk, Silent, WireInv
    <2>2. CASE Fail(502)
        BY <2>1, <2>2, FailRefuses
    <2>3. CASE ~Fail(502)
        <3>1. rest' = Tail(rest) /\ stage' = (IF Len(rest) = 1 THEN "hooks" ELSE "body") /\ wire' = wire
            BY <1>9, <2>3 DEF BufferChunk
        <3>2. Silent'
            BY <2>1, <3>1 DEF Silent
        <3>3. stage' = "body" => rest' # <<>>
            <4>1. Len(Tail(rest)) = Len(rest) - 1 /\ Len(rest) \in Nat
                BY <1>1, <2>1, HeadTailProperties, LenProperties
            <4>2. \A n \in Nat : n # 1 => n - 1 # 0
                OBVIOUS
            <4>3. Len(rest) # 1 => Len(Tail(rest)) # 0
                BY <4>1, <4>2, Zenon
            <4>4. Len(<<>>) = 0
                BY EmptySeq
            <4>5. stage' = "body" => Len(rest) # 1
                BY <3>1
            <4> QED
                BY <3>1, <4>3, <4>4, <4>5, Zenon
        <3>4. stage' \in {"hooks", "body"} /\ (stage' = "hooks" => head'.buffering)
            BY <2>1, <3>1
        <3> QED
            BY <2>1, <3>1, <3>2, <3>3, <3>4, SilentStep
    <2> QED
        BY <2>2, <2>3
<1>10. CASE BufferedSend
    BY <1>10, BufferedSendWire
<1>11. CASE HandlerStep
    <2>1. Silent /\ UNCHANGED <<head, wire>> /\ stage = "handler"
        BY <1>11 DEF HandlerStep, Silent
    <2>2. UNCHANGED <<rest, stage>> \/ (stage' = "start" /\ rest' # <<>>)
        BY <1>11 DEF HandlerStep, Answered
    <2>3. Silent' /\ stage' \in {"handler", "start"} /\ (stage' = "start" => rest' # <<>>)
        BY <2>1, <2>2 DEF Silent
    <2> QED
        BY <2>1, <2>3, SilentStep
<1>12. CASE UNCHANGED hookVars
    BY <1>12 DEF hookVars, WireInv, Silent, Streaming, WireWellFormed
<1>13. CASE Broken
    <2>1. Silent \/ Streaming
        BY <1>13 DEF Broken, Silent, Streaming
    <2>2. (stage' = "gone" /\ wire' = wire) \/ Fail(500)
        BY <1>13 DEF Broken
    <2>3. CASE stage' = "gone" /\ wire' = wire
        BY <2>1, <2>3, LeftWire
    <2>4. CASE Fail(500) /\ Silent
        <3>1. wire = <<>>
            BY <2>4 DEF WireInv
        <3> QED
            BY <2>4, <3>1, FailRefuses
    <2>5. CASE Fail(500) /\ Streaming
        BY <1>1, <2>5, FailAborts
    <2> QED
        BY <2>1, <2>2, <2>3, <2>4, <2>5
<1> QED
    BY <1>2, <1>3, <1>4, <1>5, <1>6, <1>7, <1>8, <1>9, <1>10, <1>11, <1>12, <1>13, NextSteps DEF HookStep

-----------------------------------------------------------------------------
(* The upstream response.                                                  *)

Early == stage \in {"arrive", "request", "handler"}

(* It is open from the answer on, and never when a body that was held back
   is whole: nothing would close it any more.                              *)
StreamInv ==
    /\ Early \/ stage = "start" => ~head.buffering
    /\ kind = "proxy" /\ upstream = "open" =>
         /\ ~Early
         /\ ~(stage = "hooks" /\ head.buffering)
         /\ stage \in Ended => NeverRead

(* Whether a body is held back is settled with its head.                   *)
LEMMA Unsettled ==
    ASSUME StreamInv, [Next]_vars, Early' \/ stage' = "start"
    PROVE  ~head'.buffering
<1>1. CASE HandlerStep \/ UNCHANGED hookVars
    BY <1>1 DEF HandlerStep, hookVars, StreamInv, Early
<1>2. CASE ReadBody \/ RequestHook \/ RequestPassed
    BY <1>2 DEF ReadBody, RequestHook, RequestPassed, StreamInv, Early
<1>3. ~ResponseStarts
    BY DEF ResponseStarts, Early
<1>4. ~ResponseHook
    BY FailEnds DEF ResponseHook, Early
<1>5. ~(StreamHead \/ StreamChunk \/ BufferChunk \/ BufferedSend)
    <2>1. ASSUME StreamHead \/ StreamChunk \/ BufferChunk \/ BufferedSend
          PROVE  stage' \in {"body", "done", "hooks", "aborted", "refused"}
        BY <2>1, FailEnds DEF StreamHead, StreamChunk, BufferChunk, BufferedSend, ChunkFails
    <2> QED
        BY <2>1 DEF Early
<1>6. ~Broken
    BY FailEnds DEF Broken, Early
<1> QED
    BY <1>1, <1>2, <1>3, <1>4, <1>5, <1>6, NextSteps DEF HookStep

(* A response hook that ends the answer is the one of an entered, closed
   plugin.                                                                 *)
LEMMA ResponseHookFails ==
    ASSUME EntryInv, ResponseHook, stage' # stage
    PROVE  /\ Fail(500)
           /\ \E i \in DOMAIN entered : entered[i].closed /\ "response" \in entered[i].hooks
<1> DEFINE i == (Len(entered) - turn) + 1
<1>1. turn \in Nat /\ 1 <= turn /\ turn <= Len(entered) /\ Len(entered) \in Nat
    BY LenProperties DEF ResponseHook, EntryInv
<1>2. turn \in 1 .. Len(entered) /\ i \in 1 .. Len(entered)
    BY <1>1
<1>3. InnermostFirst[turn] = entered[i]
    BY <1>2 DEF InnermostFirst, Reverse
<1>4. i \in DOMAIN entered
    BY <1>2, LenProperties DEF EntryInv
<1> HIDE DEF i
<1>5. "response" \in entered[i].hooks /\ ~Tolerated(entered[i]) /\ Fail(500)
    BY <1>3 DEF ResponseHook
<1> QED
    BY <1>4, <1>5 DEF Tolerated

(* A step of the pipeline opens no upstream response, and closes it where
   nothing would later.                                                    *)
LEMMA HookStream ==
    ASSUME StreamInv, EntryInv, WireInv, DataInv, HookStep, StreamClosed, kind = "proxy", upstream' = "open"
    PROVE  /\ ~Early'
           /\ ~(stage' = "hooks" /\ head'.buffering)
           /\ stage' \in Ended => NeverRead'
           /\ entered' = entered /\ app' = app
<1>1. upstream = "open"
    BY DEF StreamClosed
<1>2. ~Early /\ ~(stage = "hooks" /\ head.buffering)
    BY <1>1 DEF StreamInv
<1>3. ~(stage = "body" /\ stage' # "body" /\ ~head.buffering)
    BY <1>1 DEF StreamClosed
<1>4. head.buffering => rest' # <<>> /\ stage' # "refused"
    BY <1>1 DEF StreamClosed
<1>5. CASE ResponseStarts
    BY <1>5 DEF ResponseStarts, Early, Ended
<1>6. CASE ResponseHook
    <2>1. stage = "hooks" /\ ~head.buffering /\ UNCHANGED <<entered, app>>
        BY <1>2, <1>6 DEF ResponseHook
    <2>2. CASE stage' = stage
        <3>1. head' = head \/ \E status \in {head.status, 204} : head' = [head EXCEPT !.status = status]
            BY <1>6 DEF ResponseHook
        <3>2. head'.buffering = head.buffering
            BY <3>1 DEF DataInv, Heads
        <3> QED
            BY <2>1, <2>2, <3>2 DEF Early, Ended
    <2>3. CASE stage' # stage
        <3>1. /\ Fail(500)
              /\ \E i \in DOMAIN entered : entered[i].closed /\ "response" \in entered[i].hooks
            BY <1>6, <2>3, ResponseHookFails
        <3>2. wire = <<>>
            BY <2>1 DEF WireInv, Silent
        <3>3. stage' = "refused"
            BY <3>1, <3>2, FailRefuses
        <3>4. NeverRead'
            BY <2>1, <3>1, <3>3 DEF NeverRead
        <3> QED
            BY <2>1, <3>3, <3>4 DEF Early
    <2> QED
        BY <2>2, <2>3
<1>7. CASE StreamHead
    BY <1>7 DEF StreamHead, Early, Ended
<1>8. CASE StreamChunk
    <2>1. stage' = "body" /\ UNCHANGED <<entered, app>>
        BY <1>3, <1>8 DEF StreamChunk
    <2> QED
        BY <2>1 DEF Early, Ended
<1>9. CASE BufferChunk
    <2>1. stage = "body" /\ head.buffering /\ UNCHANGED <<entered, app>> /\ rest # <<>> /\ wire = <<>>
        BY <1>9 DEF BufferChunk, WireInv, Silent
    <2>2. ~Fail(502)
        BY <1>4, <2>1, FailRefuses, ZenonT(30)
    <2>3. rest' = Tail(rest) /\ stage' = (IF Len(rest) = 1 THEN "hooks" ELSE "body")
        BY <1>9, <2>2 DEF BufferChunk
    <2>4. Len(rest) = 1 => rest' = <<>>
        <3>1. rest \in Seq(Nat)
            BY DEF DataInv
        <3>2. Tail(rest) \in Seq(Nat) /\ Len(Tail(rest)) = Len(rest) - 1
            BY <2>1, <3>1, HeadTailProperties
        <3>3. Len(rest) = 1 => Len(Tail(rest)) = 0
            BY <3>2
        <3> QED
            BY <2>3, <3>2, <3>3, EmptySeq
    <2>5. stage' = "body"
        BY <1>4, <2>1, <2>3, <2>4
    <2> QED
        BY <2>1, <2>5 DEF Early, Ended
<1> QED
    BY <1>2, <1>5, <1>6, <1>7, <1>8, <1>9
    DEF HookStep, ReadBody, RequestHook, RequestPassed, BufferedSend, Early

(* Every step keeps it.                                                    *)
LEMMA StreamStep ==
    ASSUME StreamInv, EntryInv, WireInv, DataInv, [Next]_vars
    PROVE  StreamInv'
<1>0. Early' \/ stage' = "start" => ~head'.buffering
    BY Unsettled
<1> SUFFICES ASSUME kind' = "proxy", upstream' = "open"
             PROVE  /\ ~Early'
                    /\ ~(stage' = "hooks" /\ head'.buffering)
                    /\ stage' \in Ended => NeverRead'
    BY <1>0 DEF StreamInv
<1>1. CASE Hooks
    <2>1. HookStep /\ StreamClosed /\ kind = "proxy"
        BY <1>1 DEF Hooks
    <2> QED
        BY <2>1, HookStream
<1>2. CASE UpstreamAnswers
    <2>1. stage = "handler" /\ kind = "proxy"
        BY <1>2 DEF UpstreamAnswers
    <2>2. stage' = "start"
        BY <1>2 DEF UpstreamAnswers, Relay, Answer
    <2> QED
        BY <2>2 DEF Early, Ended
<1>3. CASE UpstreamFails \/ AuthPluginFails
    <2>1. stage = "handler" /\ kind = "proxy" /\ upstream = "open"
        BY <1>3 DEF UpstreamFails, AuthPluginFails
    <2> QED
        BY <2>1 DEF StreamInv, Early
<1>4. CASE UNCHANGED vars
    BY <1>4 DEF vars, hookVars, StreamInv, Early, NeverRead
<1>5. ~Handler
    BY DEF Handler
<1>7. CASE ClientLeavesStream
    <2>1. /\ stage \in {"start", "hooks", "body"} /\ stage' = "gone" /\ UNCHANGED <<head, wire>>
          /\ kind = "proxy" /\ upstream = "open"
          /\ stage = "body" => ~head.buffering /\ Len(wire) = 1
        BY <1>7 DEF ClientLeavesStream
    <2>2. ~head.buffering
        BY <2>1 DEF StreamInv
    <2>3. Len(wire) <= 1
        <3>1. CASE stage = "body"
            <4>1. Len(wire) = 1
                BY <2>1, <3>1
            <4>2. \A n \in Nat : n = 1 => n <= 1
                OBVIOUS
            <4> QED
                BY <4>1, <4>2, LenProperties DEF DataInv
        <3>2. CASE stage # "body"
            <4>1. wire = <<>>
                BY <2>1, <3>2 DEF WireInv, Silent
            <4> QED
                BY <4>1
        <3> QED
            BY <3>1, <3>2
    <2>4. NeverRead'
        BY <2>1, <2>2, <2>3 DEF NeverRead
    <2> QED
        BY <2>1, <2>4 DEF Early
<1>8. ~UpstreamBreaks
    BY DEF UpstreamBreaks
<1>6. ~Socket
    BY DEF Socket, HandshakeAccepted, HandshakeRefused, NoAccountConnects, Connecting, ClientSends, ClientLeaves,
           UpstreamSends, UpstreamLeaves, PumpUp, PumpDown, BridgeEnds, Bridged
<1> QED
    BY <1>1, <1>2, <1>3, <1>4, <1>5, <1>6, <1>7, <1>8 DEF Next, Finished

-----------------------------------------------------------------------------
(* The accounts.                                                           *)

Attempts == [account : ToSet(Accounts), outcome : Nat]

(* Until one is answered the attempts are one for each account before the
   next, and every one of them was worth another; what is relayed is what
   the last one came to.                                                   *)
FailoverInv ==
    kind = "proxy" =>
        /\ attempts \in Seq(Attempts)
        /\ account \in Nat /\ 1 <= account /\ account <= Len(Accounts)
        /\ \A i \in 1 .. Len(attempts) : i <= Len(Accounts) /\ attempts[i].account = Accounts[i]
        /\ \A i \in 1 .. Len(attempts) : i < Len(attempts) => RetryableStatus(attempts[i].outcome)
        /\ Early => /\ Len(attempts) = account - 1 /\ app.status = 0
                    /\ \A i \in 1 .. Len(attempts) : RetryableStatus(attempts[i].outcome)
        /\ app.status # 0 /\ upstream = "open" => app.status = attempts[Len(attempts)].outcome

(* No account is tried yet.                                                *)
LEMMA FailoverInit == Init => FailoverInv
<1> SUFFICES ASSUME Init PROVE FailoverInv
    OBVIOUS
<1>1. Accounts \in Seq(ToSet(Accounts)) /\ Accounts # <<>>
    BY ProxyAssumption
<1>2. Len(Accounts) \in Nat /\ Len(Accounts) # 0
    BY <1>1, LenProperties, EmptySeq
<1>3. 1 <= Len(Accounts)
    BY <1>2
<1>4. <<>> \in Seq(Attempts) /\ Len(<<>>) = 0
    OBVIOUS
<1>5. 1 .. 0 = {} /\ 0 = 1 - 1 /\ 1 \in Nat /\ 1 <= 1
    OBVIOUS
<1> QED
    BY <1>3, <1>4, <1>5 DEF Init, HookInit, FailoverInv, Early

(* What one more attempt makes of them.                                    *)
LEMMA TriedOnce ==
    ASSUME FailoverInv, kind = "proxy", Early, NEW outcome \in Nat, Tried(outcome)
    PROVE  /\ attempts' \in Seq(Attempts) /\ Len(attempts') = account
           /\ \A i \in 1 .. Len(attempts') : i <= Len(Accounts) /\ attempts'[i].account = Accounts[i]
           /\ \A i \in 1 .. Len(attempts') : i < Len(attempts') => RetryableStatus(attempts'[i].outcome)
           /\ attempts'[account].outcome = outcome
<1> DEFINE attempt == [account |-> Accounts[account], outcome |-> outcome]
<1>1. /\ attempts \in Seq(Attempts) /\ account \in Nat /\ 1 <= account /\ account <= Len(Accounts)
      /\ \A i \in 1 .. Len(attempts) : i <= Len(Accounts) /\ attempts[i].account = Accounts[i]
      /\ Len(attempts) = account - 1
      /\ \A i \in 1 .. Len(attempts) : RetryableStatus(attempts[i].outcome)
    BY DEF FailoverInv
<1>2. Accounts[account] \in ToSet(Accounts)
    BY <1>1, ProxyAssumption, LenProperties DEF ToSet
<1>3. attempt \in Attempts
    BY <1>2 DEF Attempts
<1>4. attempts' = Append(attempts, attempt)
    BY DEF Tried
<1>5. attempt.account = Accounts[account] /\ attempt.outcome = outcome
    OBVIOUS
<1> HIDE DEF attempt
<1>6. /\ attempts' \in Seq(Attempts) /\ Len(attempts') = Len(attempts) + 1
      /\ \A i \in 1 .. Len(attempts) : attempts'[i] = attempts[i]
      /\ attempts'[Len(attempts) + 1] = attempt
    BY <1>1, <1>3, <1>4, AppendProperties
<1>7. Len(attempts') = account /\ Len(attempts) + 1 = account
    BY <1>1, <1>6
<1>8. \A i \in 1 .. account : i \in 1 .. Len(attempts) \/ i = account
    BY <1>1
<1>9. \A i \in 1 .. Len(attempts') : i <= Len(Accounts) /\ attempts'[i].account = Accounts[i]
    BY <1>1, <1>5, <1>6, <1>7, <1>8
<1>10. \A i \in 1 .. Len(attempts') : i < Len(attempts') => RetryableStatus(attempts'[i].outcome)
    <2> SUFFICES ASSUME NEW i \in 1 .. account, i < account
                 PROVE  RetryableStatus(attempts'[i].outcome)
        BY <1>7
    <2>1. i \in 1 .. Len(attempts)
        BY <1>1
    <2> QED
        BY <1>1, <1>6, <2>1
<1> QED
    BY <1>5, <1>6, <1>7, <1>9, <1>10

(* An account that is given up leaves the next one to be tried.            *)
LEMMA NextAccount ==
    ASSUME FailoverInv, StreamInv, kind = "proxy", Early, NEW outcome \in Nat, Tried(outcome),
           RetryableStatus(outcome), account < Len(Accounts), account' = account + 1,
           UNCHANGED <<kind, stage, app>>, upstream' # "open"
    PROVE  FailoverInv'
<1>1. /\ attempts' \in Seq(Attempts) /\ Len(attempts') = account
      /\ \A i \in 1 .. Len(attempts') : i <= Len(Accounts) /\ attempts'[i].account = Accounts[i]
      /\ \A i \in 1 .. Len(attempts') : i < Len(attempts') => RetryableStatus(attempts'[i].outcome)
      /\ attempts'[account].outcome = outcome
    BY TriedOnce
<1>2. account \in Nat /\ 1 <= account /\ app.status = 0
    BY DEF FailoverInv
<1>3. Len(Accounts) \in Nat
    BY ProxyAssumption, LenProperties
<1>4. account' \in Nat /\ 1 <= account' /\ account' <= Len(Accounts) /\ Len(attempts') = account' - 1
    BY <1>1, <1>2, <1>3
<1>5. \A i \in 1 .. Len(attempts') : RetryableStatus(attempts'[i].outcome)
    <2> SUFFICES ASSUME NEW i \in 1 .. Len(attempts')
                 PROVE  RetryableStatus(attempts'[i].outcome)
        OBVIOUS
    <2>1. CASE i = account
        BY <1>1, <2>1
    <2>2. CASE i # account
        <3>1. i < Len(attempts')
            BY <1>1, <1>2, <2>2
        <3> QED
            BY <1>1, <3>1
    <2> QED
        BY <2>1, <2>2
<1>6. Early'
    BY DEF Early
<1> QED
    BY <1>1, <1>2, <1>4, <1>5, <1>6 DEF FailoverInv

(* The attempt that answers is the last one.                               *)
LEMMA LastAccount ==
    ASSUME FailoverInv, kind = "proxy", Early, NEW outcome \in Nat, Tried(outcome),
           UNCHANGED <<kind, account>>, stage' = "start",
           upstream' = "open" => app'.status = outcome
    PROVE  FailoverInv'
<1>1. /\ attempts' \in Seq(Attempts) /\ Len(attempts') = account
      /\ \A i \in 1 .. Len(attempts') : i <= Len(Accounts) /\ attempts'[i].account = Accounts[i]
      /\ \A i \in 1 .. Len(attempts') : i < Len(attempts') => RetryableStatus(attempts'[i].outcome)
      /\ attempts'[account].outcome = outcome
    BY TriedOnce
<1>2. account \in Nat /\ 1 <= account /\ account <= Len(Accounts)
    BY DEF FailoverInv
<1>3. ~Early'
    BY DEF Early
<1> QED
    BY <1>1, <1>2, <1>3 DEF FailoverInv

(* Every step keeps the accounts in order.                                 *)
LEMMA FailoverStep ==
    ASSUME FailoverInv, StreamInv, StreamInv', EntryInv, WireInv, DataInv, [Next]_vars
    PROVE  FailoverInv'
<1> SUFFICES ASSUME kind' = "proxy" PROVE FailoverInv'
    BY DEF FailoverInv
<1>1. CASE Hooks
    <2>1. HookStep /\ StreamClosed /\ kind = "proxy" /\ UNCHANGED <<kind, account, attempts>>
        BY <1>1 DEF Hooks
    <2>2. upstream' = "open" => app' = app /\ upstream = "open"
        BY <2>1, HookStream DEF StreamClosed
    <2>3. Early' => Early /\ app' = app
        <3>1. CASE RequestHook
            BY <3>1 DEF RequestHook, Answer, Early
        <3>2. CASE ReadBody \/ RequestPassed
            BY <3>2 DEF ReadBody, RequestPassed, Early
        <3>3. CASE ResponseStarts
            BY <3>3 DEF ResponseStarts, Early
        <3>4. CASE ResponseHook
            BY <3>4, FailEnds DEF ResponseHook, Early
        <3>5. CASE StreamHead \/ StreamChunk \/ BufferChunk \/ BufferedSend
            <4>1. stage' \in {"body", "done", "hooks", "aborted", "refused"}
                BY <3>5, FailEnds DEF StreamHead, StreamChunk, BufferChunk, BufferedSend, ChunkFails
            <4> QED
                BY <4>1 DEF Early
        <3> QED
            BY <2>1, <3>1, <3>2, <3>3, <3>4, <3>5 DEF HookStep
    <2> QED
        BY <2>1, <2>2, <2>3 DEF FailoverInv
<1>2. CASE UpstreamAnswers
    <2>1. kind = "proxy" /\ Early /\ kind' = kind
        BY <1>2 DEF UpstreamAnswers, Early
    <2>2. PICK status \in {200, 404, 429, 503} :
             /\ Tried(status)
             /\ IF RetryableStatus(status) /\ account < Len(Accounts)
                THEN account' = account + 1 /\ upstream' = "closed" /\ UNCHANGED <<app, rest, stage, turn>>
                ELSE Relay(status) /\ UNCHANGED account
        BY <1>2 DEF UpstreamAnswers
    <2>3. status \in Nat
        OBVIOUS
    <2>4. CASE RetryableStatus(status) /\ account < Len(Accounts)
        BY <2>1, <2>2, <2>3, <2>4, NextAccount
    <2>5. CASE ~(RetryableStatus(status) /\ account < Len(Accounts))
        <3>1. Relay(status) /\ account' = account
            BY <2>2, <2>5
        <3>2. stage' = "start" /\ app'.status = status
            BY <3>1 DEF Relay, Answer
        <3> QED
            BY <2>1, <2>2, <2>3, <3>1, <3>2, LastAccount
    <2> QED
        BY <2>4, <2>5
<1>3. CASE UpstreamFails
    <2>1. kind = "proxy" /\ Early /\ kind' = kind /\ upstream' = upstream
        BY <1>3 DEF UpstreamFails, Early
    <2>2. upstream' # "open"
        BY <2>1 DEF StreamInv
    <2>3. PICK outcome \in {502, 504} :
             /\ Tried(outcome)
             /\ IF account < Len(Accounts) THEN account' = account + 1 /\ UNCHANGED <<app, rest, stage, turn>>
                ELSE Answer([status |-> outcome, json |-> TRUE, length |-> 1], <<1>>) /\ UNCHANGED account
        BY <1>3 DEF UpstreamFails
    <2>4. outcome \in Nat /\ RetryableStatus(outcome)
        BY DEF RetryableStatus
    <2>5. CASE account < Len(Accounts)
        BY <2>1, <2>2, <2>3, <2>4, <2>5, NextAccount
    <2>6. CASE ~(account < Len(Accounts))
        <3>1. account' = account /\ stage' = "start"
            BY <2>3, <2>6 DEF Answer
        <3> QED
            BY <2>1, <2>2, <2>3, <2>4, <3>1, LastAccount
    <2> QED
        BY <2>5, <2>6
<1>4. CASE AuthPluginFails
    <2>1. kind = "proxy" /\ Early /\ UNCHANGED <<kind, account, upstream>> /\ Tried(503) /\ stage' = "start"
        BY <1>4 DEF AuthPluginFails, Early, Answer
    <2>2. upstream' # "open"
        BY <2>1 DEF StreamInv
    <2>3. 503 \in Nat
        OBVIOUS
    <2> QED
        BY <2>1, <2>2, <2>3, LastAccount
<1>5. CASE UNCHANGED vars
    BY <1>5 DEF vars, hookVars, FailoverInv, Early
<1>6. ~Handler
    BY DEF Handler
<1>7. ~Socket
    BY DEF Socket, HandshakeAccepted, HandshakeRefused, NoAccountConnects, Connecting, ClientSends, ClientLeaves,
           UpstreamSends, UpstreamLeaves, PumpUp, PumpDown, BridgeEnds, Bridged
<1>8. CASE ClientLeavesStream \/ UpstreamBreaks
    <2>1. UNCHANGED <<app, attempts, account, kind>> /\ upstream = "open"
        BY <1>8 DEF ClientLeavesStream, UpstreamBreaks
    <2>2. ~Early'
        BY <1>8, FailEnds DEF ClientLeavesStream, UpstreamBreaks, Early
    <2> QED
        BY <2>1, <2>2 DEF FailoverInv
<1> QED
    BY <1>1, <1>2, <1>3, <1>4, <1>5, <1>6, <1>7, <1>8 DEF Next, Finished

-----------------------------------------------------------------------------
(* The lengths.                                                            *)

(* A length that is known is the one of the messages to come; once it is
   declared, of those sent and those to come.                              *)
LengthInv ==
    /\ stage = "start" /\ app.length # None => app.length = Sum(rest)
    /\ stage = "hooks" /\ ~head.buffering /\ head.length # None => head.length = Sum(rest)
    /\ Streaming =>
         /\ wire[1].status = head.status
         /\ wire[1].length # None => Chunked = {}
         /\ method # "HEAD" /\ wire[1].length # None => wire[1].length = Bodies(Tail(wire)) + Sum(rest)
         /\ head.status \in Bodyless => wire[1].length = None
         /\ ~BodyAllowed => Bodies(Tail(wire)) = 0
    /\ LengthsMatch

(* Nothing is declared yet.                                                *)
LEMMA LengthInit == HookInit => LengthInv
BY DEF HookInit, LengthInv, Streaming, LengthsMatch

(* A message behind others is behind their rest.                           *)
LEMMA TailAppend ==
    ASSUME NEW S, NEW s \in Seq(S), s # <<>>, NEW m \in S
    PROVE  /\ Tail(Append(s, m)) = Append(Tail(s), m) /\ Tail(s) \in Seq(S)
           /\ Append(s, m)[1] = s[1]
<1>1. Len(s) \in Nat /\ Len(s) # 0 /\ DOMAIN s = 1 .. Len(s)
    BY LenProperties, EmptySeq
<1>2. Len(s) >= 1
    BY <1>1
<1>3. /\ Tail(s) \in Seq(S) /\ Len(Tail(s)) = Len(s) - 1
      /\ \A i \in 1 .. Len(Tail(s)) : Tail(s)[i] = s[i + 1]
    BY <1>1, HeadTailProperties
<1>4. /\ Append(s, m) \in Seq(S) /\ Len(Append(s, m)) = Len(s) + 1 /\ Append(s, m) # <<>>
      /\ \A i \in 1 .. Len(s) : Append(s, m)[i] = s[i]
      /\ Append(s, m)[Len(s) + 1] = m
    BY AppendProperties
<1>5. Append(s, m)[1] = s[1]
    BY <1>1, <1>2, <1>4
<1>6. /\ Tail(Append(s, m)) \in Seq(S) /\ Len(Tail(Append(s, m))) = Len(s)
      /\ \A i \in 1 .. Len(s) : Tail(Append(s, m))[i] = Append(s, m)[i + 1]
    BY <1>1, <1>4, HeadTailProperties
<1>7. /\ Append(Tail(s), m) \in Seq(S) /\ Len(Append(Tail(s), m)) = Len(s)
      /\ \A i \in 1 .. Len(s) - 1 : Append(Tail(s), m)[i] = s[i + 1]
      /\ Append(Tail(s), m)[Len(s)] = m
    <2>1. /\ Append(Tail(s), m) \in Seq(S) /\ Len(Append(Tail(s), m)) = Len(Tail(s)) + 1
          /\ \A i \in 1 .. Len(Tail(s)) : Append(Tail(s), m)[i] = Tail(s)[i]
          /\ Append(Tail(s), m)[Len(Tail(s)) + 1] = m
        BY <1>3, AppendProperties
    <2> QED
        BY <1>1, <1>3, <2>1
<1>8. \A i \in 1 .. Len(s) : Tail(Append(s, m))[i] = Append(Tail(s), m)[i]
    <2> SUFFICES ASSUME NEW i \in 1 .. Len(s)
                 PROVE  Tail(Append(s, m))[i] = Append(Tail(s), m)[i]
        OBVIOUS
    <2>1. CASE i = Len(s)
        BY <1>1, <1>4, <1>6, <1>7, <2>1
    <2>2. CASE i # Len(s)
        <3>1. \A n \in Nat : \A j \in 1 .. n : j # n => j \in 1 .. n - 1 /\ j + 1 \in 1 .. n
            OBVIOUS
        <3>2. i \in 1 .. Len(s) - 1 /\ i + 1 \in 1 .. Len(s)
            BY <1>1, <2>2, <3>1, Zenon
        <3> QED
            BY <1>4, <1>6, <1>7, <3>2
    <2> QED
        BY <2>1, <2>2
<1>9. Tail(Append(s, m)) = Append(Tail(s), m)
    BY <1>6, <1>7, <1>8, SeqEqual
<1> QED
    BY <1>3, <1>5, <1>9

(* Before and beside the sending there is nothing to compare.              *)
LEMMA NothingDeclared ==
    ASSUME stage' \notin {"start", "hooks", "done"}, ~Streaming'
    PROVE  LengthInv'
BY DEF LengthInv, LengthsMatch

(* The head declares what is to come, or nothing.                          *)
LEMMA StreamHeadLength ==
    ASSUME LengthInv, WireInv, DataInv, StreamHead
    PROVE  LengthInv'
<1> DEFINE declared == IF Chunked # {} \/ head.status \in Bodyless THEN None ELSE head.length
<1>1. /\ stage = "hooks" /\ ~head.buffering /\ stage' = "body"
      /\ UNCHANGED <<rest, head, method, entered>>
      /\ wire' = Append(wire, Start(head.status, declared)) /\ wire = <<>>
    BY StreamHeadWire DEF StreamHead
<1>2. wire' = <<Start(head.status, declared)>>
    BY <1>1
<1>3. wire'[1].status = head.status /\ wire'[1].length = declared /\ Tail(wire') = <<>>
    BY <1>2 DEF Start
<1>4. rest \in Seq(Nat)
    BY DEF DataInv
<1>5. Sum(rest) \in Nat
    BY <1>4, UnitsAreFinite
<1>6. Bodies(Tail(wire')) = 0
    BY <1>3, BodiesType
<1>7. declared # None => Chunked = {} /\ head.status \notin Bodyless /\ declared = Sum(rest)
    BY <1>1 DEF LengthInv
<1>8. declared # None => declared = 0 + Sum(rest)
    BY <1>5, <1>7
<1>9. Chunked' = Chunked
    BY <1>1 DEF Chunked
<1> HIDE DEF declared
<1> QED
    BY <1>1, <1>3, <1>6, <1>7, <1>8, <1>9 DEF LengthInv, LengthsMatch

(* Each part of the body moves from what is to come to what was sent.      *)
LEMMA StreamChunkLength ==
    ASSUME LengthInv, WireInv, DataInv, StreamChunk
    PROVE  LengthInv'
<1>1. Streaming /\ rest # <<>> /\ UNCHANGED <<head, method, entered, app>>
    BY DEF StreamChunk, Streaming
<1>2. wire \in Seq(Messages) /\ rest \in Seq(Nat) /\ wire # <<>>
    BY <1>1 DEF DataInv, WireInv
<1>3. CASE Fail(500)
    <2>1. stage' = "aborted"
        BY <1>1, <1>2, <1>3, FailAborts
    <2> QED
        BY <2>1, NothingDeclared DEF Streaming
<1>4. CASE ~Fail(500)
    <2>1. PICK size \in Edited(Head(rest)) : wire' = Append(wire, Body(size, Len(rest) > 1))
        BY <1>4 DEF StreamChunk, ChunkFails
    <2>2. rest' = Tail(rest) /\ stage' = IF Len(rest) = 1 THEN "done" ELSE "body"
        BY <1>4 DEF StreamChunk, ChunkFails
    <2>3. Head(rest) \in Nat /\ Tail(rest) \in Seq(Nat) /\ Len(rest) \in Nat /\ Len(Tail(rest)) = Len(rest) - 1
        BY <1>1, <1>2, HeadTailProperties, LenProperties
    <2>4. size \in Nat
        BY <2>3, EditedType
    <2> DEFINE m == Body(size, Len(rest) > 1)
    <2>5. m \in Messages /\ m.size = size
        <3>1. (Len(rest) > 1) \in BOOLEAN
            BY <2>3
        <3>2. m \in Messages
            BY <2>4, <3>1, BodyType
        <3> QED
            BY <3>2 DEF Body
    <2> HIDE DEF m
    <2>6. wire' = Append(wire, m)
        BY <2>1 DEF m
    <2>7. Tail(wire') = Append(Tail(wire), m) /\ Tail(wire) \in Seq(Messages) /\ wire'[1] = wire[1]
        BY <1>2, <2>5, <2>6, TailAppend
    <2>8. Bodies(Tail(wire')) = Bodies(Tail(wire)) + size
        BY <2>5, <2>7, BodiesAppend
    <2>9. Sum(rest) = Head(rest) + Sum(Tail(rest))
        BY <1>1, <1>2, SumTail
    <2>10. Bodies(Tail(wire)) \in Nat /\ Sum(Tail(rest)) \in Nat
        BY <2>3, <2>7, BodiesType, UnitsAreFinite
    <2>11. Chunked' = Chunked /\ BodyAllowed' = BodyAllowed
        BY <1>1 DEF Chunked, BodyAllowed
    <2>12. /\ wire[1].status = head.status
           /\ wire[1].length # None => Chunked = {}
           /\ method # "HEAD" /\ wire[1].length # None => wire[1].length = Bodies(Tail(wire)) + Sum(rest)
           /\ head.status \in Bodyless => wire[1].length = None
           /\ ~BodyAllowed => Bodies(Tail(wire)) = 0
        BY <1>1 DEF LengthInv
    <2>13. ~BodyAllowed => Bodies(Tail(wire')) = 0
        <3>1. ~BodyAllowed => size = 0
            BY <2>1 DEF Edited
        <3> QED
            BY <2>8, <2>12, <3>1
    <2>14. method # "HEAD" /\ wire[1].length # None => wire[1].length = Bodies(Tail(wire')) + Sum(rest')
        <3> SUFFICES ASSUME method # "HEAD", wire[1].length # None
                     PROVE  wire[1].length = Bodies(Tail(wire')) + Sum(rest')
            OBVIOUS
        <3>1. Chunked = {} /\ head.status \notin Bodyless
            BY <2>12
        <3>2. size = Head(rest)
            BY <2>1, <3>1 DEF Edited, BodyAllowed
        <3>3. wire[1].length = Bodies(Tail(wire)) + (Head(rest) + Sum(Tail(rest)))
            BY <2>9, <2>12
        <3> QED
            BY <2>2, <2>3, <2>8, <2>10, <3>2, <3>3
    <2>15. CASE Len(rest) = 1
        <3>1. stage' = "done"
            BY <2>2, <2>15
        <3>2. rest' = <<>>
            BY <2>2, <2>3, <2>15, EmptySeq
        <3>3. Sum(rest') = 0
            BY <3>2, SumEmpty
        <3>4. Bodies(Tail(wire')) \in Nat
            BY <2>4, <2>8, <2>10
        <3>5. method' # "HEAD" /\ wire'[1].length # None => wire'[1].length = Bodies(Tail(wire'))
            BY <1>1, <2>7, <2>14, <3>3, <3>4
        <3>6. method' = "HEAD" => Bodies(Tail(wire')) = 0
            BY <1>1, <2>13 DEF BodyAllowed
        <3>7. wire'[1].status \in Bodyless => Bodies(Tail(wire')) = 0 /\ wire'[1].length = None
            BY <2>7, <2>12, <2>13 DEF BodyAllowed
        <3>8. LengthsMatch'
            BY <3>5, <3>6, <3>7 DEF LengthsMatch
        <3> QED
            BY <3>1, <3>8 DEF LengthInv, Streaming
    <2>16. CASE Len(rest) # 1
        <3>1. stage' = "body"
            BY <2>2, <2>16
        <3>2. LengthsMatch'
            BY <3>1 DEF LengthsMatch
        <3>3. /\ wire'[1].status = head'.status
              /\ wire'[1].length # None => Chunked' = {}
              /\ method' # "HEAD" /\ wire'[1].length # None => wire'[1].length = Bodies(Tail(wire')) + Sum(rest')
              /\ head'.status \in Bodyless => wire'[1].length = None
              /\ ~BodyAllowed' => Bodies(Tail(wire')) = 0
            BY <1>1, <2>7, <2>11, <2>12, <2>13, <2>14
        <3> QED
            BY <3>1, <3>2, <3>3 DEF LengthInv
    <2> QED
        BY <2>15, <2>16
<1> QED
    BY <1>3, <1>4

(* A body held back is declared as long as it is.                          *)
LEMMA BufferedSendLength ==
    ASSUME LengthInv, WireInv, DataInv, BufferedSend
    PROVE  LengthInv'
<1>1. UNCHANGED <<head, method, entered>> /\ wire = <<>>
    BY DEF BufferedSend, WireInv, Silent
<1>2. CASE Fail(500)
    <2>1. stage' = "refused"
        BY <1>1, <1>2, FailRefuses
    <2> QED
        BY <2>1, NothingDeclared DEF Streaming
<1>3. CASE ~Fail(500)
    <2>1. PICK size \in Edited(buffer) :
             wire' = <<Start(head.status, IF head.status \in Bodyless THEN None ELSE size), Body(size, FALSE)>>
        BY <1>3 DEF BufferedSend, ChunkFails
    <2> DEFINE declared == IF head.status \in Bodyless THEN None ELSE size
               m == Body(size, FALSE)
    <2>2. stage' = "done"
        BY <1>3 DEF BufferedSend, ChunkFails
    <2>3. size \in Nat
        <3>1. buffer \in Nat
            BY PipelineAssumption DEF DataInv
        <3> QED
            BY <3>1, EditedType
    <2>4. m \in Messages /\ m.size = size
        <3>1. m \in [type : {"body"}, status : {0}, length : {None}, size : Nat, more : BOOLEAN]
            BY <2>3 DEF Body
        <3> QED
            BY <3>1 DEF Messages, Body
    <2>5. wire'[1].status = head.status /\ wire'[1].length = declared /\ Tail(wire') = <<m>>
        <3> DEFINE start == Start(head.status, declared)
        <3>1. start.status = head.status /\ start.length = declared
            BY DEF Start
        <3>2. wire' = <<start, m>>
            BY <2>1
        <3> HIDE DEF start, declared, m
        <3> QED
            BY <3>1, <3>2
    <2> HIDE DEF m
    <2>6. Bodies(Tail(wire')) = size
        <3>1. <<>> \in Seq(Messages) /\ Append(<<>>, m) = <<m>>
            OBVIOUS
        <3>2. Bodies(Append(<<>>, m)) = Bodies(<<>>) + m.size
            BY <2>4, <3>1, BodiesAppend
        <3>3. Bodies(<<>>) = 0
            BY BodiesType
        <3>4. Bodies(<<m>>) = 0 + size
            BY <2>4, <3>1, <3>2, <3>3
        <3>5. 0 + size = size /\ Tail(wire') = <<m>>
            BY <2>3, <2>5
        <3> QED
            BY <3>4, <3>5, Zenon
    <2>7. ~BodyAllowed => size = 0
        BY <2>1 DEF Edited
    <2>8. LengthsMatch'
        BY <1>1, <2>5, <2>6, <2>7 DEF LengthsMatch, BodyAllowed
    <2> QED
        BY <2>2, <2>8 DEF LengthInv, Streaming
<1> QED
    BY <1>2, <1>3

(* Every step keeps the lengths.                                           *)
LEMMA LengthStep ==
    ASSUME LengthInv, WireInv, DataInv, [Next]_vars
    PROVE  LengthInv'
<1>1. CASE ReadBody
    <2>1. stage' \in {"request", "gone", "aborted", "refused"}
        BY <1>1, FailEnds DEF ReadBody
    <2> QED
        BY <2>1, NothingDeclared DEF Streaming
<1>2. CASE RequestHook
    <2>1. \/ stage' \in {"request", "aborted", "refused"}
          \/ stage' = "start" /\ app'.length = None
        BY <1>2, FailEnds DEF RequestHook, Answer
    <2>2. CASE stage' = "start" /\ app'.length = None
        BY <2>2 DEF LengthInv, LengthsMatch, Streaming
    <2> QED
        BY <2>1, <2>2, NothingDeclared DEF Streaming
<1>3. CASE RequestPassed
    <2>1. stage' = "handler"
        BY <1>3 DEF RequestPassed
    <2> QED
        BY <2>1, NothingDeclared DEF Streaming
<1>4. CASE ResponseStarts
    <2>1. /\ stage = "start" /\ UNCHANGED <<app, rest>>
          /\ head'.length = app.length
          /\ stage' = IF head'.buffering THEN "body" ELSE "hooks"
        BY <1>4 DEF ResponseStarts
    <2>2. CASE head'.buffering
        BY <2>1, <2>2, NothingDeclared DEF Streaming
    <2>3. CASE ~head'.buffering
        BY <2>1, <2>3 DEF LengthInv, LengthsMatch, Streaming
    <2> QED
        BY <2>2, <2>3
<1>5. CASE ResponseHook
    <2>1. stage = "hooks" /\ rest' = rest
        BY <1>5 DEF ResponseHook
    <2>2. stage' = "hooks" \/ stage' \in {"aborted", "refused"}
        BY <1>5, FailEnds DEF ResponseHook
    <2>3. head' = head \/ \E status \in {head.status, 204} : head' = [head EXCEPT !.status = status]
        BY <1>5 DEF ResponseHook
    <2>4. head'.length = head.length /\ head'.buffering = head.buffering
        BY <2>3 DEF DataInv, Heads
    <2>5. CASE stage' = "hooks"
        BY <2>1, <2>4, <2>5 DEF LengthInv, LengthsMatch, Streaming
    <2> QED
        BY <2>2, <2>5, NothingDeclared DEF Streaming
<1>6. CASE StreamHead
    BY <1>6, StreamHeadLength
<1>7. CASE StreamChunk
    BY <1>7, StreamChunkLength
<1>8. CASE BufferChunk
    <2>1. head.buffering /\ head' = head
        BY <1>8 DEF BufferChunk
    <2>2. stage' \in {"hooks", "body", "aborted", "refused"}
        BY <1>8, FailEnds DEF BufferChunk
    <2> QED
        BY <2>1, <2>2 DEF LengthInv, LengthsMatch, Streaming
<1>9. CASE BufferedSend
    BY <1>9, BufferedSendLength
<1>10. CASE HandlerStep
    <2>1. stage = "handler" /\ (UNCHANGED <<app, rest, stage>> \/ (stage' = "start" /\ Answered(app', rest')))
        BY <1>10 DEF HandlerStep
    <2>2. CASE stage' = stage
        BY <2>1, <2>2, NothingDeclared DEF Streaming
    <2>3. CASE stage' = "start" /\ Answered(app', rest')
        <3>1. app'.length # None => app'.length = Sum(rest')
            BY <2>3 DEF Answered
        <3> QED
            BY <2>3, <3>1 DEF LengthInv, LengthsMatch, Streaming
    <2> QED
        BY <2>1, <2>2, <2>3
<1>11. CASE UNCHANGED hookVars
    BY <1>11 DEF hookVars, LengthInv, LengthsMatch, Streaming, Chunked, BodyAllowed
<1>12. CASE Broken
    <2>1. stage' \in {"gone", "aborted", "refused"}
        BY <1>12, FailEnds DEF Broken
    <2> QED
        BY <2>1, NothingDeclared DEF Streaming
<1> QED
    BY <1>1, <1>2, <1>3, <1>4, <1>5, <1>6, <1>7, <1>8, <1>9, <1>10, <1>11, <1>12, NextSteps DEF HookStep

-----------------------------------------------------------------------------
(* The way out.                                                            *)

(* UnwoundTo, of any plugins entered and any unwound.                      *)
Unwinding(ids, before, n) ==
    \E at \in [DOMAIN ids -> DOMAIN before] :
        /\ \A i, j \in DOMAIN ids : i < j => at[j] < at[i]
        /\ \A i \in DOMAIN ids : ids[i] = before[at[i]].id
        /\ {at[i] : i \in DOMAIN ids} = {k \in DOMAIN before : k > n /\ "response" \in before[k].hooks}

(* Before the first response hook nobody is unwound.                       *)
LEMMA UnwindNone ==
    ASSUME NEW S, NEW before \in Seq(S)
    PROVE  Unwinding(<<>>, before, Len(before))
<1> DEFINE at == [i \in {} |-> 0]
<1>1. DOMAIN before = 1 .. Len(before) /\ Len(before) \in Nat
    BY LenProperties
<1>2. {k \in DOMAIN before : k > Len(before) /\ "response" \in before[k].hooks} = {}
    BY <1>1
<1>3. at \in [{} -> DOMAIN before] /\ {at[i] : i \in {}} = {}
    OBVIOUS
<1>4. DOMAIN <<>> = {}
    OBVIOUS
<1> QED
    BY <1>2, <1>3, <1>4, Zenon DEF Unwinding

(* A plugin without a response hook is passed by.                          *)
LEMMA UnwindPast ==
    ASSUME NEW S, NEW before \in Seq(S), NEW k \in 1 .. Len(before), NEW ids,
           Unwinding(ids, before, k), "response" \notin before[k].hooks
    PROVE  Unwinding(ids, before, k - 1)
<1>1. DOMAIN before = 1 .. Len(before) /\ Len(before) \in Nat
    BY LenProperties
<1>2. \A j \in DOMAIN before : j > k - 1 /\ j # k => j > k
    BY <1>1
<1>3. \A j \in DOMAIN before : j > k => j > k - 1
    BY <1>1
<1>4. {j \in DOMAIN before : j > k - 1 /\ "response" \in before[j].hooks}
          = {j \in DOMAIN before : j > k /\ "response" \in before[j].hooks}
    BY <1>2, <1>3
<1> QED
    BY <1>4 DEF Unwinding

(* A response hook that runs is the next one further out.                  *)
LEMMA UnwindOne ==
    ASSUME NEW S, NEW before \in Seq(S), NEW k \in 1 .. Len(before),
           NEW T, NEW ids \in Seq(T), before[k].id \in T,
           Unwinding(ids, before, k), "response" \in before[k].hooks
    PROVE  Unwinding(Append(ids, before[k].id), before, k - 1)
<1> DEFINE more == Append(ids, before[k].id)
           last == Len(ids) + 1
<1>1. DOMAIN before = 1 .. Len(before) /\ Len(before) \in Nat
    BY LenProperties
<1>2. /\ Len(ids) \in Nat /\ DOMAIN ids = 1 .. Len(ids)
      /\ DOMAIN more = 1 .. last
      /\ more[last] = before[k].id /\ \A i \in 1 .. Len(ids) : more[i] = ids[i]
    BY AppendProperties, LenProperties
<1> HIDE DEF more
<1>3. PICK at \in [DOMAIN ids -> DOMAIN before] :
         /\ \A i, j \in DOMAIN ids : i < j => at[j] < at[i]
         /\ \A i \in DOMAIN ids : ids[i] = before[at[i]].id
         /\ {at[i] : i \in DOMAIN ids} = {j \in DOMAIN before : j > k /\ "response" \in before[j].hooks}
    BY DEF Unwinding
<1> DEFINE by == [i \in DOMAIN more |-> IF i = last THEN k ELSE at[i]]
<1>4. \A i \in 1 .. last : i = last \/ (i \in 1 .. Len(ids) /\ i # last /\ i < last)
    BY <1>2
<1>5. by[last] = k /\ \A i \in 1 .. Len(ids) : by[i] = at[i]
    BY <1>2
<1>6. \A i \in 1 .. Len(ids) : at[i] \in DOMAIN before /\ at[i] > k
    BY <1>2, <1>3
<1>7. by \in [DOMAIN more -> DOMAIN before]
    BY <1>1, <1>2, <1>4, <1>6
<1> HIDE DEF by
<1>8. ASSUME NEW i \in DOMAIN more, NEW j \in DOMAIN more, i < j
      PROVE  by[j] < by[i]
    <2>1. i \in 1 .. Len(ids)
        BY <1>2, <1>8
    <2>2. CASE j = last
        BY <1>1, <1>5, <1>6, <2>1, <2>2
    <2>3. CASE j # last
        <3>1. j \in 1 .. Len(ids)
            BY <1>2, <1>4, <2>3
        <3> QED
            BY <1>2, <1>3, <1>5, <1>8, <2>1, <3>1
    <2> QED
        BY <2>2, <2>3
<1>9. ASSUME NEW i \in DOMAIN more
      PROVE  more[i] = before[by[i]].id
    <2>1. CASE i = last
        BY <1>2, <1>5, <2>1
    <2>2. CASE i # last
        <3>1. i \in 1 .. Len(ids)
            BY <1>2, <1>4, <2>2
        <3> QED
            BY <1>2, <1>3, <1>5, <3>1
    <2> QED
        BY <2>1, <2>2
<1>10. {by[i] : i \in DOMAIN more} = {j \in DOMAIN before : j > k - 1 /\ "response" \in before[j].hooks}
    <2>1. ASSUME NEW i \in DOMAIN more
          PROVE  by[i] \in DOMAIN before /\ by[i] > k - 1 /\ "response" \in before[by[i]].hooks
        <3>1. CASE i = last
            BY <1>1, <1>5, <3>1
        <3>2. CASE i # last
            <4>1. i \in 1 .. Len(ids)
                BY <1>2, <1>4, <3>2
            <4>2. at[i] \in {j \in DOMAIN before : j > k /\ "response" \in before[j].hooks}
                BY <1>2, <1>3, <4>1
            <4> QED
                BY <1>1, <1>5, <4>1, <4>2
        <3> QED
            BY <3>1, <3>2
    <2>2. ASSUME NEW j \in DOMAIN before, j > k - 1, "response" \in before[j].hooks
          PROVE  \E i \in DOMAIN more : by[i] = j
        <3>1. CASE j = k
            <4>1. last \in DOMAIN more
                BY <1>2
            <4> QED
                BY <1>5, <3>1, <4>1
        <3>2. CASE j # k
            <4>1. j > k
                BY <1>1, <2>2, <3>2
            <4>2. j \in {at[i] : i \in DOMAIN ids}
                BY <1>3, <2>2, <4>1
            <4>3. PICK i \in DOMAIN ids : at[i] = j
                BY <4>2
            <4>4. i \in DOMAIN more /\ by[i] = j
                BY <1>2, <1>5, <4>3
            <4> QED
                BY <4>4
        <3> QED
            BY <3>1, <3>2
    <2> QED
        BY <2>1, <2>2, ZenonT(30)
<1>11. Unwinding(more, before, k - 1)
    BY <1>7, <1>8, <1>9, <1>10 DEF Unwinding
<1> QED
    BY <1>11 DEF more

(* While the response hooks run, those behind the position of their loop
   are unwound; when they are through, all are.                            *)
UnwindInv ==
    /\ unwound \in Seq(Ids)
    /\ Silent /\ stage # "hooks" => unwound = <<>>
    /\ stage = "hooks" => /\ turn <= Len(entered) + 1
                          /\ Unwinding(unwound, entered, Len(entered) + 1 - turn)
    /\ Streaming \/ stage = "done" => Unwinding(unwound, entered, 0)
    /\ \E n \in 0 .. Len(entered) : Unwinding(unwound, entered, n)

(* Nobody is entered yet.                                                  *)
LEMMA UnwindInit == HookInit => UnwindInv
<1> SUFFICES ASSUME HookInit PROVE UnwindInv
    OBVIOUS
<1>1. unwound = <<>> /\ entered = <<>> /\ stage = "arrive" /\ <<>> \in Seq(Ids)
    BY DEF HookInit
<1>2. Unwinding(<<>>, <<>>, Len(<<>>))
    BY <1>1, UnwindNone
<1>3. Len(<<>>) = 0 /\ 0 \in 0 .. 0
    BY EmptySeq
<1>4. \E n \in 0 .. Len(entered) : Unwinding(unwound, entered, n)
    BY <1>1, <1>2, <1>3, Zenon
<1> QED
    BY <1>1, <1>4 DEF UnwindInv, Streaming

(* A step that enters and unwinds nobody.                                  *)
LEMMA UnwindSame ==
    ASSUME UnwindInv, UNCHANGED <<plugins, entered, unwound>>,
           stage' # "hooks",
           Silent' => Silent /\ stage # "hooks",
           Streaming' \/ stage' = "done" => Streaming \/ stage = "done"
    PROVE  UnwindInv'
<1>1. Ids' = Ids
    BY DEF Ids
<1> QED
    BY <1>1 DEF UnwindInv

(* Entering one plugin more while nobody is unwound.                       *)
LEMMA UnwindEntered ==
    ASSUME NEW S, entered' \in Seq(S), unwound' = <<>>,
           stage' # "hooks", ~Streaming', stage' # "done"
    PROVE  UnwindInv'
<1>1. Unwinding(unwound', entered', Len(entered'))
    BY UnwindNone
<1>2. Len(entered') \in 0 .. Len(entered')
    BY LenProperties
<1>3. unwound' \in Seq(Ids')
    OBVIOUS
<1> QED
    BY <1>1, <1>2, <1>3 DEF UnwindInv

(* The response hooks start behind the last plugin entered.                *)
LEMMA UnwindStarts ==
    ASSUME NEW S, entered \in Seq(S), entered' = entered, unwound = <<>>, unwound' = <<>>,
           stage' = "hooks", turn' = 1
    PROVE  UnwindInv'
<1>1. Unwinding(unwound', entered', Len(entered))
    BY UnwindNone
<1>2. Len(entered) \in Nat
    BY LenProperties
<1>3. Len(entered) \in 0 .. Len(entered) /\ Len(entered) + 1 - 1 = Len(entered) /\ 1 <= Len(entered) + 1
    BY <1>2
<1>4. unwound' \in Seq(Ids')
    OBVIOUS
<1> QED
    BY <1>1, <1>3, <1>4 DEF UnwindInv, Streaming

(* A response hook unwinds its plugin.                                     *)
LEMMA ResponseHookUnwinds ==
    ASSUME UnwindInv, EntryInv, WireInv, ResponseHook
    PROVE  UnwindInv'
<1> DEFINE k == Len(entered) + 1 - turn
<1>1. /\ turn \in Nat /\ 1 <= turn /\ turn <= Len(entered) /\ Len(entered) \in Nat
      /\ entered \in Seq(ToSet(plugins))
    BY LenProperties DEF ResponseHook, EntryInv
<1>2. k \in 1 .. Len(entered) /\ turn \in 1 .. Len(entered) /\ k = (Len(entered) - turn) + 1
      /\ k - 1 = Len(entered) + 1 - (turn + 1) /\ k - 1 \in 0 .. Len(entered)
      /\ turn + 1 <= Len(entered) + 1
    BY <1>1
<1>3. InnermostFirst[turn] = entered[k]
    BY <1>2 DEF InnermostFirst, Reverse
<1>4. stage = "hooks" /\ UNCHANGED <<plugins, entered>> /\ wire = <<>>
    BY DEF ResponseHook, WireInv, Silent
<1>5. unwound \in Seq(Ids) /\ Unwinding(unwound, entered, k)
    BY <1>4 DEF UnwindInv
<1>6. Ids' = Ids
    BY <1>4 DEF Ids
<1>7. entered[k] \in ToSet(plugins) /\ entered[k].id \in Ids
    BY <1>1, <1>2, ElementOfSeq DEF Ids
<1> HIDE DEF k
<1>8. \/ stage' = "hooks" /\ turn' = turn + 1
      \/ stage' = "refused"
    <2>1. CASE Fail(500)
        BY <1>4, <2>1, FailRefuses
    <2>2. CASE ~Fail(500)
        BY <1>4, <2>2 DEF ResponseHook
    <2> QED
        BY <2>1, <2>2
<1>9. unwound' \in Seq(Ids) /\ Unwinding(unwound', entered, k - 1)
    <2>1. CASE "response" \notin entered[k].hooks
        <3>1. unwound' = unwound
            BY <1>3, <2>1 DEF ResponseHook
        <3>2. Unwinding(unwound, entered, k - 1)
            BY <1>1, <1>2, <1>5, <2>1, UnwindPast
        <3> QED
            BY <1>5, <3>1, <3>2
    <2>2. CASE "response" \in entered[k].hooks
        <3>1. unwound' = Append(unwound, entered[k].id)
            BY <1>3, <2>2 DEF ResponseHook
        <3>2. Unwinding(Append(unwound, entered[k].id), entered, k - 1)
            BY <1>1, <1>2, <1>5, <1>7, <2>2, UnwindOne
        <3>3. Append(unwound, entered[k].id) \in Seq(Ids)
            BY <1>5, <1>7, AppendProperties
        <3> QED
            BY <3>1, <3>2, <3>3
    <2> QED
        BY <2>1, <2>2
<1>10. unwound' \in Seq(Ids') /\ \E n \in 0 .. Len(entered') : Unwinding(unwound', entered', n)
    BY <1>2, <1>4, <1>6, <1>9
<1>11. CASE stage' = "hooks" /\ turn' = turn + 1
    <2>1. turn' <= Len(entered') + 1 /\ Unwinding(unwound', entered', Len(entered') + 1 - turn')
        BY <1>2, <1>4, <1>9, <1>11
    <2> QED
        BY <1>10, <1>11, <2>1 DEF UnwindInv, Streaming
<1>12. CASE stage' = "refused"
    BY <1>10, <1>12 DEF UnwindInv, Silent, Streaming
<1> QED
    BY <1>8, <1>11, <1>12

(* When the hooks are through everybody is unwound.                        *)
LEMMA UnwindComplete ==
    ASSUME UnwindInv, EntryInv, stage = "hooks", turn > Len(entered)
    PROVE  Unwinding(unwound, entered, 0)
<1>1. turn \in Nat /\ Len(entered) \in Nat /\ turn <= Len(entered) + 1
    BY LenProperties DEF UnwindInv, EntryInv
<1>2. Len(entered) + 1 - turn = 0
    BY <1>1
<1>3. Unwinding(unwound, entered, Len(entered) + 1 - turn)
    BY DEF UnwindInv
<1> QED
    BY <1>2, <1>3

(* Every step unwinds in order.                                            *)
LEMMA UnwindStep ==
    ASSUME UnwindInv, EntryInv, EntryInv', WireInv, DataInv, [Next]_vars
    PROVE  UnwindInv'
<1>1. entered \in Seq(ToSet(plugins)) /\ entered' \in Seq(ToSet(plugins'))
    BY DEF EntryInv
<1>2. CASE ReadBody
    <2>1. stage = "arrive" /\ UNCHANGED <<plugins, entered, unwound>> /\ Silent
        BY <1>2 DEF ReadBody, Silent
    <2>2. stage' \in {"request", "gone", "aborted", "refused"}
        BY <1>2, FailEnds DEF ReadBody
    <2> QED
        BY <2>1, <2>2, UnwindSame DEF Streaming
<1>3. CASE RequestHook
    <2>1. stage = "request" /\ unwound' = unwound /\ Silent
        BY <1>3 DEF RequestHook, Silent
    <2>2. stage' \in {"request", "start", "aborted", "refused"}
        BY <1>3, FailEnds DEF RequestHook, Answer
    <2>3. unwound' = <<>>
        BY <2>1 DEF UnwindInv
    <2> QED
        BY <1>1, <2>2, <2>3, UnwindEntered DEF Streaming
<1>4. CASE RequestPassed
    <2>1. stage = "request" /\ stage' = "handler" /\ UNCHANGED <<plugins, entered, unwound>> /\ Silent
        BY <1>4 DEF RequestPassed, Silent
    <2> QED
        BY <2>1, UnwindSame DEF Streaming
<1>5. CASE ResponseStarts
    <2>1. stage = "start" /\ UNCHANGED <<plugins, entered, unwound>> /\ Silent /\ turn' = 1
          /\ stage' = IF head'.buffering THEN "body" ELSE "hooks"
        BY <1>5 DEF ResponseStarts, Silent
    <2>2. unwound = <<>>
        BY <2>1 DEF UnwindInv
    <2>3. CASE head'.buffering
        BY <2>1, <2>3, UnwindSame DEF Streaming
    <2>4. CASE ~head'.buffering
        BY <1>1, <2>1, <2>2, <2>4, UnwindStarts
    <2> QED
        BY <2>3, <2>4
<1>6. CASE ResponseHook
    BY <1>6, ResponseHookUnwinds
<1>7. CASE StreamHead
    <2>1. stage = "hooks" /\ turn > Len(entered) /\ UNCHANGED <<plugins, entered, unwound, head>>
          /\ stage' = "body" /\ ~head.buffering
        BY <1>7 DEF StreamHead
    <2>2. Unwinding(unwound', entered', 0)
        BY <2>1, UnwindComplete
    <2>3. ~Silent' /\ Ids' = Ids
        BY <2>1 DEF Silent, Ids
    <2> QED
        BY <2>1, <2>2, <2>3 DEF UnwindInv
<1>8. CASE StreamChunk
    <2>1. Streaming /\ UNCHANGED <<plugins, entered, unwound, head>>
        BY <1>8 DEF StreamChunk, Streaming
    <2>2. stage' \in {"body", "done", "aborted", "refused"}
        BY <1>8, FailEnds DEF StreamChunk, ChunkFails
    <2>3. ~Silent'
        BY <2>1, <2>2 DEF Silent, Streaming
    <2> QED
        BY <2>1, <2>2, <2>3, UnwindSame
<1>9. CASE BufferChunk
    <2>1. stage = "body" /\ head.buffering /\ Silent /\ UNCHANGED <<plugins, entered, unwound, head>>
        BY <1>9 DEF BufferChunk, Silent
    <2>2. unwound = <<>>
        BY <2>1 DEF UnwindInv
    <2>3. \/ stage' \in {"aborted", "refused", "body"}
          \/ stage' = "hooks" /\ turn' = 1
        BY <1>9, FailEnds DEF BufferChunk
    <2>4. CASE stage' = "hooks" /\ turn' = 1
        BY <1>1, <2>1, <2>2, <2>4, UnwindStarts
    <2>5. CASE stage' \in {"aborted", "refused", "body"}
        BY <2>1, <2>5, UnwindSame DEF Streaming
    <2> QED
        BY <2>3, <2>4, <2>5
<1>10. CASE BufferedSend
    <2>1. stage = "hooks" /\ turn > Len(entered) /\ UNCHANGED <<plugins, entered, unwound>>
        BY <1>10 DEF BufferedSend
    <2>2. stage' \in {"done", "aborted", "refused"}
        BY <1>10, FailEnds DEF BufferedSend, ChunkFails
    <2>3. Unwinding(unwound', entered', 0)
        BY <2>1, UnwindComplete
    <2>4. ~Silent' /\ ~Streaming' /\ Ids' = Ids
        BY <2>1, <2>2 DEF Silent, Streaming, Ids
    <2> QED
        BY <2>1, <2>2, <2>3, <2>4 DEF UnwindInv
<1>11. CASE HandlerStep
    <2>1. stage = "handler" /\ UNCHANGED <<plugins, entered, unwound>> /\ stage' \in {"handler", "start"} /\ Silent
        BY <1>11 DEF HandlerStep, Silent
    <2> QED
        BY <2>1, UnwindSame DEF Streaming
<1>12. CASE UNCHANGED hookVars
    BY <1>12 DEF hookVars, UnwindInv, Silent, Streaming, Ids
<1>13. CASE Broken
    <2>1. stage' \in {"gone", "aborted", "refused"} /\ UNCHANGED <<plugins, entered, unwound>>
        BY <1>13, FailEnds DEF Broken
    <2> QED
        BY <2>1, UnwindSame DEF Silent, Streaming
<1> QED
    BY <1>2, <1>3, <1>4, <1>5, <1>6, <1>7, <1>8, <1>9, <1>10, <1>11, <1>12, <1>13, NextSteps DEF HookStep

-----------------------------------------------------------------------------
(* The theorems.                                                           *)

PartiesInv ==
    /\ account \in 1 .. Len(Accounts) + 1
    /\ upstream \in {"none", "open", "closed"}

(* The first account is the one to start with.                             *)
LEMMA PartiesInit == Init => PartiesInv
<1>1. Len(Accounts) \in Nat
    BY ProxyAssumption, LenProperties
<1> QED
    BY <1>1 DEF Init, PartiesInv

(* Another account is tried only when there is one, or none is left.       *)
LEMMA PartiesStep ==
    ASSUME PartiesInv, [Next]_vars
    PROVE  PartiesInv'
<1>1. Len(Accounts) \in Nat
    BY ProxyAssumption, LenProperties
<1>2. UNCHANGED account \/ (account <= Len(Accounts) /\ account' = account + 1)
    <2>1. CASE Hooks \/ Handler \/ AuthPluginFails \/ ClientLeavesStream \/ UpstreamBreaks
        BY <2>1 DEF Hooks, Handler, AuthPluginFails, ClientLeavesStream, UpstreamBreaks
    <2>2. CASE UpstreamAnswers \/ UpstreamFails
        <3>1. UNCHANGED account \/ (account < Len(Accounts) /\ account' = account + 1)
            BY <2>2 DEF UpstreamAnswers, UpstreamFails
        <3> QED
            BY <1>1, <3>1 DEF PartiesInv
    <2>3. CASE HandshakeRefused
        BY <2>3 DEF HandshakeRefused
    <2>4. CASE Socket /\ ~HandshakeRefused
        BY <2>4 DEF Socket, HandshakeAccepted, NoAccountConnects, ClientSends, ClientLeaves,
                    UpstreamSends, UpstreamLeaves, PumpUp, PumpDown, BridgeEnds
    <2>5. CASE UNCHANGED vars
        BY <2>5 DEF vars
    <2> QED
        BY <2>1, <2>2, <2>3, <2>4, <2>5 DEF Next, Finished
<1>3. upstream' = upstream \/ upstream' \in {"open", "closed"}
    <2>1. CASE Hooks
        BY <2>1 DEF Hooks, StreamClosed
    <2>2. CASE UpstreamAnswers
        BY <2>2 DEF UpstreamAnswers, Relay
    <2>3. CASE Handler \/ UpstreamFails \/ AuthPluginFails \/ ClientLeavesStream \/ UpstreamBreaks
        BY <2>3 DEF Handler, UpstreamFails, AuthPluginFails, ClientLeavesStream, UpstreamBreaks
    <2>4. CASE Socket
        BY <2>4 DEF Socket, HandshakeAccepted, HandshakeRefused, NoAccountConnects, ClientSends, ClientLeaves,
                    UpstreamSends, UpstreamLeaves, PumpUp, PumpDown, BridgeEnds
    <2>5. CASE UNCHANGED vars
        BY <2>5 DEF vars
    <2> QED
        BY <2>1, <2>2, <2>3, <2>4, <2>5 DEF Next, Finished
<1>4. account' \in 1 .. Len(Accounts) + 1
    BY <1>1, <1>2 DEF PartiesInv
<1> QED
    BY <1>3, <1>4 DEF PartiesInv

(* The inductive invariant of an HTTP exchange.                            *)
ExchangeInv ==
    /\ EntryInv /\ DataInv /\ WireInv /\ LengthInv /\ UnwindInv
    /\ StreamInv /\ FailoverInv /\ PartiesInv

(* A fresh exchange satisfies it.                                          *)
LEMMA ExchangeInit == Init => ExchangeInv
<1> SUFFICES ASSUME Init PROVE ExchangeInv
    OBVIOUS
<1>1. HookInit /\ upstream = "none" /\ ~head.buffering
    BY DEF Init, HookInit, NoHead
<1>2. StreamInv
    BY <1>1 DEF StreamInv
<1> QED
    BY <1>1, <1>2, EntryInit, DataInit, WireInit, LengthInit, UnwindInit, FailoverInit, PartiesInit
    DEF ExchangeInv

(* Every step keeps it.                                                    *)
LEMMA ExchangeStep ==
    ASSUME ExchangeInv, [Next]_vars
    PROVE  ExchangeInv'
<1>1. EntryInv /\ DataInv /\ WireInv /\ LengthInv /\ UnwindInv /\ StreamInv /\ FailoverInv /\ PartiesInv
    BY DEF ExchangeInv
<1>2. EntryInv' /\ DataInv' /\ WireInv' /\ LengthInv' /\ StreamInv' /\ PartiesInv'
    BY <1>1, EntryStep, DataStep, WireStep, LengthStep, StreamStep, PartiesStep
<1>3. UnwindInv' /\ FailoverInv'
    BY <1>1, <1>2, UnwindStep, FailoverStep
<1> QED
    BY <1>2, <1>3 DEF ExchangeInv

(* It holds throughout.                                                    *)
THEOREM ExchangeHolds == Spec => []ExchangeInv
BY ExchangeInit, ExchangeStep, PTL DEF Spec

(* Accounts are tried in rank order and only a retryable outcome costs
   another one; what is relayed is the last account's own answer
   (ProxyRunner.forward).                                                  *)
THEOREM FailoverInOrder == Spec => []FailoverKept
<1>1. ExchangeInv => FailoverKept
    <2> SUFFICES ASSUME FailoverInv PROVE FailoverKept
        BY DEF ExchangeInv
    <2> SUFFICES ASSUME kind = "proxy" PROVE FailoverKept
        BY DEF FailoverKept
    <2>1. attempts \in Seq(Attempts)
        BY DEF FailoverInv
    <2>2. DOMAIN attempts = 1 .. Len(attempts)
        BY <2>1, LenProperties
    <2> QED
        BY <2>2 DEF FailoverInv, FailoverKept
<1> QED
    BY <1>1, ExchangeHolds, PTL

(* An exchange that is over has closed its upstream response, whether it was
   read to its end or broken off by a plugin, the client or the upstream,
   unless nothing asked for its first byte (_stream_response's finally).   *)
THEOREM StreamsAreReleased == Spec => []StreamReleased
<1>1. ExchangeInv => StreamReleased
    BY DEF ExchangeInv, StreamInv, StreamReleased
<1> QED
    BY <1>1, ExchangeHolds, PTL

(* A response is well formed on the wire, of the length it declares, and
   unwound through the plugins that saw its request, innermost first
   (PluginMiddleware.__call__, _process, process_send).                    *)
THEOREM ResponsesAreSound == Spec => []ResponseInv
<1>1. ExchangeInv /\ BridgeInv => ResponseInv
    <2> SUFFICES ASSUME ExchangeInv, BridgeInv PROVE ResponseInv
        OBVIOUS
    <2>1. EntryInv /\ DataInv /\ WireInv /\ LengthInv /\ UnwindInv /\ PartiesInv
        BY DEF ExchangeInv
    <2>2. HookTypeOK
        <3>1. turn \in 1 .. (Len(plugins) + 1) /\ stage \in Stages
            <4>1. Len(plugins) \in Nat
                BY <2>1, LenProperties DEF EntryInv
            <4> QED
                BY <2>1, <4>1 DEF EntryInv
        <3>2. buffer \in 0 .. Limit /\ head.status \in Statuses
            BY <2>1 DEF DataInv, Heads
        <3> QED
            BY <3>1, <3>2 DEF HookTypeOK, Stages, Statuses
    <2>3. Len(fromClient) <= MaxFrames /\ Len(fromUpstream) <= MaxFrames
        <3>1. MaxFrames \in Nat
            BY ProxyAssumption
        <3>2. /\ Len(passedUp) \in Nat /\ Len(fromClient) \in Nat /\ sentUp \in Nat /\ sentUp <= MaxFrames
              /\ Len(passedDown) \in Nat /\ Len(fromUpstream) \in Nat /\ sentDown \in Nat /\ sentDown <= MaxFrames
              /\ Len(passedUp) + Len(fromClient) <= sentUp /\ Len(passedDown) + Len(fromUpstream) <= sentDown
            BY LenProperties DEF BridgeInv, PumpsInv, Queue
        <3> QED
            BY <3>1, <3>2
    <2>4. ProxyTypeOK
        BY <2>1, <2>2, <2>3 DEF ProxyTypeOK, PartiesInv, BridgeInv
    <2>5. WireWellFormed
        BY <2>1 DEF WireInv
    <2>6. LengthsMatch
        BY <2>1 DEF LengthInv
    <2>7. UnwindsEntered
        <3>1. \A n : Unwinding(unwound, entered, n) <=> UnwoundTo(n)
            BY DEF Unwinding, UnwoundTo
        <3>2. DOMAIN entered = 1 .. Len(entered) /\ Len(entered) \in Nat /\ Len(plugins) \in Nat
              /\ Len(entered) <= Len(plugins)
            BY <2>1, LenProperties DEF EntryInv
        <3>3. \A i \in DOMAIN entered : i <= Len(plugins) /\ entered[i] = plugins[i]
            BY <2>1, <3>2 DEF EntryInv
        <3>4. \A i \in DOMAIN edits : \E j \in DOMAIN entered : edits[i] = entered[j].id
            BY <2>1 DEF EntryInv
        <3>5. /\ \E n \in 0 .. Len(entered) : UnwoundTo(n)
              /\ stage = "done" => UnwoundTo(0)
            BY <2>1, <3>1, Zenon DEF UnwindInv
        <3> QED
            BY <3>3, <3>4, <3>5 DEF UnwindsEntered
    <2> QED
        BY <2>4, <2>5, <2>6, <2>7 DEF ResponseInv
<1> QED
    BY <1>1, ExchangeHolds, BridgeHolds, PTL

=============================================================================
