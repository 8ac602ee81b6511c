------------------------------- MODULE Viewer -------------------------------
(***************************************************************************)
(* The hook of the viewing page (frontend, useViewer.ts) with the calls    *)
(* that ViewerPage.tsx makes of it.  A step is a task of the browser's     *)
(* event loop.  The k-th call of connect opens socket k; sockets and       *)
(* RTCPeerConnections are named by number, and 0 stands for null.          *)
(*                                                                         *)
(* Left out: status texts and notifications, the ICE messages (they change *)
(* nothing the hook keeps), and the room and peer identifiers.             *)
(***************************************************************************)
EXTENDS Naturals, Sequences, PeerConnection

CONSTANTS
  Sender,       \* peers whose messages the hub forwards
  Nil,          \* null, undefined
  Spurious,     \* the browser may reject a call that the state admits
  MaxConnects,  \* bound: calls of connect
  MaxPcs,       \* bound: RTCPeerConnections created
  MaxOps        \* bound: calls pending on one RTCPeerConnection

ASSUME SenderAssumption == Nil \notin Sender /\ Spurious \in BOOLEAN

ASSUME BoundAssumption == MaxConnects \in Nat /\ MaxPcs \in Nat /\ MaxOps \in Nat

VARIABLES
  phase,           \* state of the component: what the page shows
  connectionState,
  remoteStream,    \*   a stream is named after the connection it came with
  mounted,         \* ~unmountedRef.current
  socketRef, peerConnectionRef, broadcasterRef, streamRef,
  pcs,             \* the RTCPeerConnections created, in order
  connects,        \* number of calls of connect
  socket,          \* the WebSocket of each call
  attached,        \*   its handlers are in place
  asked            \* history: viewer-ready went out after the last offer

shownVars  == <<phase, connectionState, remoteStream>>
socketVars == <<socketRef, socket, attached>>
peerVars   == <<peerConnectionRef, broadcasterRef, streamRef, pcs>>
vars == <<shownVars, mounted, connects, socketVars, peerVars, asked>>

Connect == 1..MaxConnects

Init ==
  /\ phase = "idle" /\ connectionState = Nil /\ remoteStream = 0
  /\ mounted = TRUE
  /\ socketRef = 0 /\ peerConnectionRef = 0 /\ broadcasterRef = Nil /\ streamRef = 0
  /\ pcs = <<>>
  /\ connects = 0
  /\ socket = [k \in Connect |-> "none"]
  /\ attached = [k \in Connect |-> FALSE]
  /\ asked = FALSE

-----------------------------------------------------------------------------
(* Parts of the actions, each after a faulty variant (Bad...) that no      *)
(* action uses: what the properties below would catch.                     *)

(* cleanupPeerConnection: the connection, then the refs, then the page.    *)
BadEnded(pc) == pc
Ended(pc) == Close(pc)

BadForgotten == broadcasterRef
Forgotten == Nil

BadNoStream == remoteStream
NoStream == 0

BadNoState(state) == state
NoState(state) == Nil

(* closeSocket closes a socket in one of these states.                     *)
BadClosable == {"open"}
Closable == {"connecting", "open"}

(* The phase after an offer could not be handled.                          *)
BadAfterFailure == phase
AfterFailure == "waiting-offer"

(* The phase that onclose sets.                                            *)
BadAfterClose == phase
AfterClose == "idle"

(* safeSet...: a setter without effect after the unmount.                  *)
Set(old, new) == IF mounted THEN new ELSE old

-----------------------------------------------------------------------------
(* The helpers of the hook.                                                *)

(* closeSocket: the handlers are removed first.                            *)
CloseSocket ==
  /\ attached' = [k \in Connect |-> attached[k] /\ k # socketRef]
  /\ socket' = [k \in Connect |-> IF k = socketRef /\ socket[k] \in Closable
                                  THEN "closing" ELSE socket[k]]
  /\ socketRef' = 0

(* cleanupPeerConnection, when the connections are ps and the page shows   *)
(* the given connection state                                              *)
Cleanup(ps, state) ==
  /\ pcs' = [i \in DOMAIN ps |-> IF i = peerConnectionRef THEN Ended(ps[i]) ELSE ps[i]]
  /\ peerConnectionRef' = 0
  /\ broadcasterRef' = Forgotten
  /\ streamRef' = 0
  /\ remoteStream' = Set(remoteStream, NoStream)
  /\ connectionState' = Set(connectionState, NoState(state))

(* requestOffer: sendMessage of viewer-ready, if socketRef allows it.      *)
CanSend == socketRef # 0 /\ socket[socketRef] = "open"
RequestOffer == asked' = (asked \/ CanSend)

-----------------------------------------------------------------------------
(* The user.                                                               *)

(* connect: the form is submitted only while the phase is idle.            *)
ConnectSocket ==
  /\ mounted /\ phase = "idle"
  /\ connects < MaxConnects
  /\ connects' = connects + 1
  /\ socket' = [socket EXCEPT ![connects + 1] = "connecting"]
  /\ attached' = [attached EXCEPT ![connects + 1] = TRUE]
  /\ socketRef' = connects + 1
  /\ phase' = "connecting"
  /\ connectionState' = Nil
  /\ asked' = FALSE
  /\ UNCHANGED <<remoteStream, mounted, peerVars>>

(* disconnect: the button (unless idle) or beforeunload (always).          *)
Disconnect ==
  /\ mounted
  /\ Cleanup(pcs, connectionState)
  /\ CloseSocket
  /\ phase' = "idle"
  /\ UNCHANGED <<mounted, connects, asked>>

(* The user leaves the page: unmountedRef, then disconnect.                *)
Unmount ==
  /\ mounted
  /\ mounted' = FALSE
  /\ pcs' = [i \in DOMAIN pcs |-> IF i = peerConnectionRef THEN Ended(pcs[i]) ELSE pcs[i]]
  /\ peerConnectionRef' = 0 /\ broadcasterRef' = Forgotten /\ streamRef' = 0
  /\ CloseSocket
  /\ UNCHANGED <<shownVars, connects, asked>>

-----------------------------------------------------------------------------
(* Events of socket k.                                                     *)

(* onopen.  (Its test of unmountedRef never holds: the unmount removes the *)
(* handler.)                                                               *)
SocketOpen(k) ==
  /\ socket[k] = "connecting"
  /\ socket' = [socket EXCEPT ![k] = "open"]
  /\ IF attached[k]
     THEN /\ phase' = Set(phase, "waiting-offer")
          /\ asked' = (asked \/ (socketRef # 0 /\ socket'[socketRef] = "open"))
     ELSE UNCHANGED <<phase, asked>>
  /\ UNCHANGED <<connectionState, remoteStream, mounted, connects, socketRef,
                 attached, peerVars>>

(* The server begins the closing handshake.                                *)
SocketClosing(k) ==
  /\ socket[k] = "open"
  /\ socket' = [socket EXCEPT ![k] = "closing"]
  /\ UNCHANGED <<shownVars, mounted, connects, socketRef, attached, peerVars, asked>>

(* onclose                                                                 *)
SocketClosed(k) ==
  /\ socket[k] \in {"connecting", "open", "closing"}
  /\ socket' = [socket EXCEPT ![k] = "closed"]
  /\ IF attached[k]
     THEN /\ Cleanup(pcs, connectionState)
          /\ socketRef' = 0
          /\ phase' = Set(phase, AfterClose)
     ELSE UNCHANGED <<shownVars, socketRef, peerVars>>
  /\ UNCHANGED <<mounted, connects, attached, asked>>

Message(k) == socket[k] = "open" /\ attached[k]

(* offer: handleOffer, createPeerConnection, up to the await of            *)
(* setRemoteDescription.                                                   *)
Offer(k, s) ==
  LET i == IF peerConnectionRef # 0 THEN peerConnectionRef ELSE Len(pcs) + 1
      ps == IF peerConnectionRef # 0 THEN pcs ELSE Append(pcs, New(Nil, 0))
  IN  /\ Message(k)
      /\ i <= MaxPcs /\ Len(ps[i].chain) < MaxOps
      /\ pcs' = [ps EXCEPT ![i] = Call(@, "setRemoteOffer", s)]
      /\ peerConnectionRef' = i
      /\ broadcasterRef' = s
      /\ phase' = Set(phase, "answering")
      /\ asked' = FALSE
      /\ UNCHANGED <<connectionState, remoteStream, mounted, connects, socketVars,
                     streamRef>>

(* broadcaster-ready                                                       *)
BroadcasterReady(k) ==
  /\ Message(k)
  /\ RequestOffer
  /\ UNCHANGED <<shownVars, mounted, connects, socketVars, peerVars>>

(* bye or broadcaster-left: handleBroadcasterLeft                          *)
BroadcasterLeft(k) ==
  /\ Message(k)
  /\ Cleanup(pcs, connectionState)
  /\ phase' = Set(phase, "waiting-offer")
  /\ UNCHANGED <<mounted, connects, socketVars, asked>>

-----------------------------------------------------------------------------
(* Continuations and events of RTCPeerConnection i.                        *)

(* What handleOffer calls after the operation.                             *)
NextCall(pc, op, s) ==
  CASE op = "setRemoteOffer" -> Call(pc, "createAnswer", s)
    [] op = "createAnswer"   -> Call(pc, "setLocalAnswer", s)
    [] OTHER                 -> pc

(* ontrack                                                                 *)
Track(i) ==
  /\ streamRef' = i
  /\ remoteStream' = Set(remoteStream, i)

(* The awaited call resolves.  Browsers fire ontrack before                *)
(* setRemoteDescription resolves, if the offer brings tracks, and never    *)
(* for a connection that is closed.  After setLocalDescription the answer  *)
(* is sent.                                                                *)
CallResolves(i) ==
  LET call == First(pcs[i])
  IN  /\ Resolvable(pcs[i])
      /\ pcs' = [pcs EXCEPT ![i] = NextCall(Resolve(@), call.op, call.arg)]
      /\ \/ call.op = "setRemoteOffer" /\ Track(i)
         \/ UNCHANGED <<streamRef, remoteStream>>
      /\ UNCHANGED <<phase, connectionState, mounted, connects, socketVars,
                     peerConnectionRef, broadcasterRef, asked>>

(* The awaited call rejects: the catch of handleOffer, which asks for no   *)
(* new offer.                                                              *)
CallRejects(i) ==
  /\ Pending(pcs[i])
  /\ Spurious \/ ~Resolvable(pcs[i])
  /\ Cleanup([pcs EXCEPT ![i] = Reject(@)], connectionState)
  /\ phase' = Set(phase, AfterFailure)
  /\ UNCHANGED <<mounted, connects, socketVars, asked>>

(* onconnectionstatechange                                                 *)
StateChange(i) ==
  \E state \in ConnectionState :
    LET ps == [pcs EXCEPT ![i].connection = state]
    IN  /\ MayBecome(pcs[i], state)
        /\ \/ /\ state = "connected"
              /\ pcs' = ps
              /\ connectionState' = Set(connectionState, state)
              /\ phase' = Set(phase, "watching")
              /\ UNCHANGED <<remoteStream, peerConnectionRef, broadcasterRef,
                             streamRef, asked>>
           \/ /\ state # "connected"
              /\ Cleanup(ps, state)
              /\ phase' = Set(phase, "waiting-offer")
              /\ RequestOffer
        /\ UNCHANGED <<mounted, connects, socketVars>>

-----------------------------------------------------------------------------
User == ConnectSocket \/ Disconnect \/ Unmount

SocketEvent(k) ==
  \/ SocketOpen(k) \/ SocketClosing(k) \/ SocketClosed(k)
  \/ \E s \in Sender : Offer(k, s)
  \/ BroadcasterReady(k) \/ BroadcasterLeft(k)

ConnectionEvent(i) == CallResolves(i) \/ CallRejects(i) \/ StateChange(i)

Next ==
  \/ User
  \/ \E k \in Connect : SocketEvent(k)
  \/ \E i \in DOMAIN pcs : ConnectionEvent(i)

Spec == Init /\ [][Next]_vars

(* Browsers bound the opening and the closing handshake of a WebSocket.    *)
Settle(k) ==
  socket[k] \in {"connecting", "closing"} /\ (SocketOpen(k) \/ SocketClosed(k))

FairSpec == Spec /\ \A k \in Connect : WF_vars(Settle(k))

-----------------------------------------------------------------------------
(* Properties.                                                             *)

PeerConnections ==
  [owner : {Nil}, source : {0}, signaling : Signaling,
   connection : ConnectionState, negotiated : BOOLEAN,
   chain : Seq([op : Operations, arg : Sender])]

(* The page never rests on a connection state that ends the connection.    *)
TypeOK ==
  /\ phase \in {"idle", "connecting", "waiting-offer", "answering", "watching"}
  /\ connectionState \in {Nil, "connected"}
  /\ mounted \in BOOLEAN /\ asked \in BOOLEAN
  /\ connects \in 0..MaxConnects /\ socketRef \in 0..connects
  /\ pcs \in Seq(PeerConnections) /\ Len(pcs) <= MaxPcs
  /\ \A i \in DOMAIN pcs : Len(pcs[i].chain) <= MaxOps
  /\ {peerConnectionRef, remoteStream, streamRef} \subseteq 0..Len(pcs)
  /\ broadcasterRef \in Sender \cup {Nil}
  /\ socket \in [Connect -> {"none", "connecting", "open", "closing", "closed"}]
  /\ attached \in [Connect -> BOOLEAN]

(* The connection that is not closed is the one of peerConnectionRef:      *)
(* none is leaked, and no continuation of an older one tears down a newer  *)
(* one (useViewer.ts: cleanupPeerConnection, createPeerConnection).        *)
SingleConnection ==
  \A i \in DOMAIN pcs : Open(pcs[i]) <=> peerConnectionRef = i

(* There is an addressee for local ICE candidates as long as there is a    *)
(* connection that gathers them, and none after (broadcasterRef).          *)
BroadcasterKnown == peerConnectionRef # 0 <=> broadcasterRef # Nil

(* The phase tells the truth: "answering" and "watching" mean that there   *)
(* is a connection, the other phases that there is none, also when offers  *)
(* overlap, fail, or race with a failing connection.                       *)
PhaseMatchesConnection ==
  mounted => (phase \in {"answering", "watching"} <=> peerConnectionRef # 0)

(* The page shows the picture of the present connection or none, never one *)
(* of a connection that has ended.                                         *)
NoStalePicture == mounted => remoteStream \in {0, peerConnectionRef}

(* Idle, or gone, means that nothing is left in use: a new connect starts  *)
(* afresh, and there is never a second socket under the same identifier.   *)
DisconnectedIsQuiet ==
  ~mounted \/ phase = "idle" =>
    /\ socketRef = 0 /\ peerConnectionRef = 0
    /\ \A k \in Connect : socket[k] \notin {"connecting", "open"}

(* The phase "connecting" ends.                                            *)
ConnectingEnds == phase = "connecting" ~> phase # "connecting" \/ ~mounted
=============================================================================
