------------------------------- MODULE Session -------------------------------
(***************************************************************************)
(* One broadcasting page and one viewing page in the same room, with the   *)
(* hub between them: the hooks of Broadcaster and Viewer, the messages     *)
(* they exchange (docs/signaling-api.md) and the media connection.  The    *)
(* hub is that of RoomService, without the loss of messages for members.   *)
(*                                                                         *)
(* Link 0 is the WebSocket of the broadcaster, link k the one of the k-th  *)
(* connect of the viewer; all of these come with the same peer identifier. *)
(* An offer is named after the RTCPeerConnection of the broadcaster that   *)
(* made it, and an answer after the offer it answers.                      *)
(*                                                                         *)
(* Assumed: the user grants the camera once, and no WebSocket fails; two   *)
(* connections that negotiated connect, and lose each other only when one  *)
(* of them is closed; a call on a connection fails only in the wrong state.*)
(***************************************************************************)
EXTENDS Naturals, Sequences

CONSTANTS Nil, MaxConnects, MaxPcs, MaxOps

ASSUME NilAssumption == Nil \notin 1..MaxPcs

ASSUME BoundAssumption == MaxConnects \in Nat /\ MaxPcs \in Nat /\ MaxOps \in Nat \ {0}

VARIABLES
  \* the viewing page
  phase, connectionState, remoteStream, mounted, socketRef, peerConnectionRef,
  broadcasterRef, streamRef, pcs, connects, socket, attached, asked,
  \* the broadcasting page
  bphase, shown, indicated, bmounted, bstreamRef, bsocketRef, conn, bpcs, starts,
  media, enabled, bsocket, announced, wanted,
  \* the hub
  member,  \* of a link: "new", "in" its room, or "left" (also: refused)
  up,      \* frames that the hub has not read yet
  down     \* frames that have not reached the page yet

V == INSTANCE Viewer WITH Sender <- 1..MaxPcs, Spurious <- FALSE

B == INSTANCE Broadcaster WITH
  Viewer <- {"viewer"}, MaxStarts <- 1, phase <- bphase, mounted <- bmounted,
  streamRef <- bstreamRef, socketRef <- bsocketRef, pcs <- bpcs, socket <- bsocket

viewerVars == <<phase, connectionState, remoteStream, mounted, socketRef,
                peerConnectionRef, broadcasterRef, streamRef, pcs, connects, socket,
                attached, asked>>
broadcasterVars == <<bphase, shown, indicated, bmounted, bstreamRef, bsocketRef, conn,
                     bpcs, starts, media, enabled, bsocket, announced, wanted>>
hubVars == <<member, up, down>>
vars == <<viewerVars, broadcasterVars, hubVars>>

Link == 0..MaxConnects
Sock(c) == IF c = 0 THEN bsocket[1] ELSE socket[c]

Init ==
  /\ V!Init /\ B!Init
  /\ member = [c \in Link |-> "new"]
  /\ up = [c \in Link |-> <<>>]
  /\ down = [c \in Link |-> <<>>]

-----------------------------------------------------------------------------
(* Parts of the actions, each after a faulty variant (Bad...) that no      *)
(* action uses: what the properties below would catch.                     *)

Msg(type, offer) == [type |-> type, offer |-> offer]

(* What the viewer sends when it hears broadcaster-ready.                  *)
BadOnReady == <<>>
OnReady == <<Msg("viewer-ready", 0)>>

(* What the broadcaster sends when its socket opens.                       *)
Greeting == <<Msg("broadcaster-ready", 0)>>

(* What the viewer sends on disconnect, before it closes the socket.       *)
BadFarewell == <<>>
Farewell == IF V!CanSend THEN <<Msg("viewer-left", 0)>> ELSE <<>>

(* What the viewer sends after setLocalDescription of an answer.           *)
BadReply(offer) == <<>>
Reply(offer) == <<Msg("answer", offer)>>

(* When does the hub unregister a link?                                    *)
Drained(c) == up[c] = <<>>

-----------------------------------------------------------------------------
(* The messages ms are sent on link c; a refused link loses them.          *)
Send(c, ms) ==
  up' = [up EXCEPT ![c] = IF member[c] = "left" THEN @ ELSE @ \o ms]

Request == IF V!CanSend THEN Send(socketRef, <<Msg("viewer-ready", 0)>>) ELSE up' = up

ViewerOnly == UNCHANGED <<broadcasterVars, member, down>>
BroadcasterOnly == UNCHANGED <<viewerVars, member, down>>

(* The connections i of the broadcaster and j of the viewer negotiated     *)
(* with each other, and neither is closed.                                 *)
Paired(i, j) ==
  /\ V!Open(pcs[j]) /\ B!Open(bpcs[i])
  /\ pcs[j].negotiated /\ bpcs[i].negotiated
  /\ broadcasterRef = i

-----------------------------------------------------------------------------
(* The users.                                                              *)

Broadcast == (B!StartBroadcast \/ B!Granted(1) \/ B!Stop) /\ BroadcasterOnly /\ UNCHANGED up

Watch == V!ConnectSocket /\ ViewerOnly /\ UNCHANGED up

StopWatching == V!Disconnect /\ Send(socketRef, Farewell) /\ ViewerOnly

-----------------------------------------------------------------------------
(* The hub.                                                                *)

(* register: a second link of the viewer is refused while the first is in. *)
Admit(c) ==
  /\ member[c] = "new" /\ Sock(c) # "none"
  /\ LET taken == c # 0 /\ \E d \in Link \ {0} : member[d] = "in"
     IN  /\ member' = [member EXCEPT ![c] = IF taken THEN "left" ELSE "in"]
         /\ up' = [up EXCEPT ![c] = IF taken THEN <<>> ELSE @]
  /\ UNCHANGED <<viewerVars, broadcasterVars, down>>

(* dispatch: to the other peer, if it is in the room.                      *)
Dispatch(c) ==
  /\ member[c] = "in" /\ up[c] # <<>>
  /\ up' = [up EXCEPT ![c] = Tail(@)]
  /\ down' = [d \in Link |-> IF (d = 0) # (c = 0) /\ member[d] = "in"
                             THEN Append(down[d], Head(up[c])) ELSE down[d]]
  /\ UNCHANGED <<viewerVars, broadcasterVars, member>>

(* unregister: the close of a socket comes after all that was sent on it.  *)
Evict(c) ==
  /\ member[c] = "in" /\ Sock(c) \in {"closing", "closed"}
  /\ Drained(c)
  /\ member' = [member EXCEPT ![c] = "left"]
  /\ up' = [up EXCEPT ![c] = <<>>]
  /\ down' = [down EXCEPT ![c] = <<>>]
  /\ UNCHANGED <<viewerVars, broadcasterVars>>

-----------------------------------------------------------------------------
(* Events of the sockets.                                                  *)

BroadcasterOpens ==
  /\ B!SocketOpen(1)
  /\ IF announced'[1] THEN Send(0, Greeting) ELSE UNCHANGED up
  /\ BroadcasterOnly

ViewerOpens(k) ==
  /\ V!SocketOpen(k)
  /\ IF attached[k] THEN Send(k, <<Msg("viewer-ready", 0)>>) ELSE UNCHANGED up
  /\ ViewerOnly

(* A refused socket is closed by the server; a closing one is closed.      *)
SocketCloses(c) ==
  /\ \/ c # 0 /\ member[c] = "left" /\ V!SocketClosing(c) /\ UNCHANGED broadcasterVars
     \/ c # 0 /\ socket[c] = "closing" /\ V!SocketClosed(c) /\ UNCHANGED broadcasterVars
     \/ c = 0 /\ bsocket[1] = "closing" /\ B!SocketClosed(1) /\ UNCHANGED viewerVars
  /\ UNCHANGED hubVars

(* onmessage                                                               *)
TakeMessage(c) ==
  /\ Sock(c) = "open" /\ down[c] # <<>>
  /\ down' = [down EXCEPT ![c] = Tail(@)]
  /\ UNCHANGED member

BroadcasterReceives ==
  LET m == Head(down[0])
  IN  /\ TakeMessage(0)
      /\ \/ m.type = "viewer-ready" /\ B!ViewerReady(1, "viewer")
         \/ m.type = "answer" /\ B!AnswerFrom(1, "viewer")
         \/ m.type = "answer" /\ conn["viewer"] = 0 /\ UNCHANGED broadcasterVars
         \/ m.type = "viewer-left" /\ B!ViewerLeft(1, "viewer")
      /\ UNCHANGED <<viewerVars, up>>

ViewerReceives(k) ==
  LET m == Head(down[k])
  IN  /\ TakeMessage(k)
      /\ \/ m.type = "offer" /\ V!Offer(k, m.offer) /\ UNCHANGED up
         \/ m.type = "broadcaster-ready" /\ V!BroadcasterReady(k) /\ Send(k, OnReady)
      /\ UNCHANGED broadcasterVars

-----------------------------------------------------------------------------
(* Events of the RTCPeerConnections.                                       *)

BroadcasterCall(i) ==
  /\ \/ /\ B!CallResolves(i)
        /\ IF B!First(bpcs[i]).op = "setLocalOffer" /\ B!CanSend
           THEN Send(0, <<Msg("offer", i)>>) ELSE UNCHANGED up
     \/ ~B!Resolvable(bpcs[i]) /\ B!CallRejects(i) /\ UNCHANGED up
  /\ BroadcasterOnly

ViewerCall(j) ==
  /\ \/ /\ V!CallResolves(j)
        /\ IF V!First(pcs[j]).op = "setLocalAnswer" /\ V!CanSend
           THEN Send(socketRef, Reply(V!First(pcs[j]).arg)) ELSE UNCHANGED up
     \/ V!CallRejects(j) /\ UNCHANGED up
  /\ ViewerOnly

(* Paired connections connect ...                                          *)
BroadcasterConnects(i) ==
  /\ \E j \in DOMAIN pcs : Paired(i, j)
  /\ B!StateChange(i) /\ bpcs'[i].connection = "connected"
  /\ BroadcasterOnly /\ UNCHANGED up

ViewerConnects(j) ==
  /\ \E i \in DOMAIN bpcs : Paired(i, j)
  /\ V!StateChange(j) /\ pcs'[j].connection = "connected"
  /\ ViewerOnly /\ UNCHANGED up

(* ... and each notices when the other is gone.                            *)
BroadcasterLoses(i) ==
  /\ ~\E j \in DOMAIN pcs : V!Open(pcs[j]) /\ broadcasterRef = i
  /\ B!StateChange(i) /\ ~B!Open(bpcs'[i])
  /\ BroadcasterOnly /\ UNCHANGED up

ViewerLoses(j) ==
  /\ broadcasterRef # Nil => ~B!Open(bpcs[broadcasterRef])
  /\ V!StateChange(j) /\ ~V!Open(pcs'[j])
  /\ Request /\ ViewerOnly

-----------------------------------------------------------------------------
User == Broadcast \/ Watch \/ StopWatching

System ==
  \/ \E c \in Link : Admit(c) \/ Dispatch(c) \/ Evict(c) \/ SocketCloses(c)
  \/ BroadcasterOpens \/ BroadcasterReceives
  \/ \E k \in 1..MaxConnects : ViewerOpens(k) \/ ViewerReceives(k)
  \/ \E i \in DOMAIN bpcs :
       BroadcasterCall(i) \/ BroadcasterConnects(i) \/ BroadcasterLoses(i)
  \/ \E j \in DOMAIN pcs : ViewerCall(j) \/ ViewerConnects(j) \/ ViewerLoses(j)

Next == User \/ System

Spec == Init /\ [][Next]_vars

(* The server, the network and the browsers do not stop; the users may.    *)
FairSpec == Spec /\ WF_vars(System)

-----------------------------------------------------------------------------
(* Properties.                                                             *)

(* Messages and links as the hub keeps them; the pages keep their types.   *)
TypeOK ==
  /\ V!TypeOK /\ B!TypeOK
  /\ member \in [Link -> {"new", "in", "left"}]
  /\ \A c \in Link : \A i \in DOMAIN up[c] : up[c][i].offer \in 0..MaxPcs
  /\ \A c \in Link : \A i \in DOMAIN down[c] : down[c][i].offer \in 0..MaxPcs

(* Whoever comes first, and however often the viewer returns: a request    *)
(* for an offer is answered while the broadcaster is ready (useViewer.ts:  *)
(* onopen, broadcaster-ready; useBroadcaster.ts: handleViewerJoin).        *)
RequestServed ==
  phase = "waiting-offer" /\ asked /\ bphase = "ready" /\ connects = 1
    ~> phase # "waiting-offer" \/ bphase # "ready"

(* A first negotiation comes to an end: media, or another request.  (A     *)
(* later one that renegotiates a connected connection does not: the page   *)
(* stays at "answering", since no onconnectionstatechange follows.)        *)
AnsweringEnds ==
  phase = "answering" /\ connectionState # "connected" /\ bphase = "ready" /\ connects = 1
    ~> phase # "answering" \/ connectionState = "connected" \/ bphase # "ready"

(* When the viewer has stopped watching, the broadcaster drops it from its *)
(* list, whatever messages were on their way (useViewer.ts: disconnect).   *)
LeaveReachesBroadcaster ==
  phase = "idle" /\ conn["viewer"] # 0 ~> conn["viewer"] = 0 \/ phase # "idle"

(* An answer reaches the connection whose offer it answers, although it    *)
(* names only its sender, and the broadcaster looks the connection up.     *)
AnswersFit ==
  connects = 1 /\ Sock(0) = "open" /\ down[0] # <<>> /\ Head(down[0]).type = "answer" =>
    conn["viewer"] \in {0, Head(down[0]).offer}

(* The connections of the two pages belong to each other: while each page  *)
(* keeps one, the viewer is not negotiating with a connection that the     *)
(* broadcaster has replaced (useViewer.ts: handleOffer renegotiates the    *)
(* connection it has; useBroadcaster.ts: createPeerConnection reuses it).  *)
ConnectionsMeet ==
  connects = 1 /\ Sock(0) = "open" /\ peerConnectionRef # 0 /\ conn["viewer"] # 0 =>
    broadcasterRef = conn["viewer"]

(* Nothing is under way.                                                   *)
Quiet ==
  /\ \A c \in Link : up[c] = <<>> /\ down[c] = <<>>
  /\ \A i \in DOMAIN bpcs : ~B!Pending(bpcs[i])
  /\ \A j \in DOMAIN pcs : ~V!Pending(pcs[j])

(* ViewerPage.tsx:229: while the broadcaster is online, the connection     *)
(* starts automatically.  A viewer in the room of a broadcaster that is    *)
(* ready does not wait for an offer that nobody is about to make.          *)
QuietMeansServed ==
  ~ /\ Quiet /\ bphase = "ready" /\ member[0] = "in"
    /\ phase = "waiting-offer" /\ member[socketRef] = "in" /\ V!CanSend
=============================================================================
