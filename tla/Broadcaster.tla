----------------------------- MODULE Broadcaster -----------------------------
(***************************************************************************)
(* The hook of the broadcasting page (frontend, useBroadcaster.ts) with    *)
(* the calls that BroadcastPage.tsx makes of it.  A step is a task of the  *)
(* browser's event loop: a click, an event handler, or the continuation of *)
(* an await.  The k-th call of start asks for stream k and then opens      *)
(* socket k; streams, sockets and RTCPeerConnections are named by number,  *)
(* and 0 stands for null.                                                  *)
(*                                                                         *)
(* Left out: status texts and notifications, the ICE messages (they change *)
(* nothing the hook keeps), and the room and peer identifiers (start       *)
(* returns at once when one is missing).                                   *)
(***************************************************************************)
EXTENDS Naturals, Sequences, PeerConnection

CONSTANTS
  Viewer,     \* peer identifiers of viewers
  MaxStarts,  \* bound: calls of start
  MaxPcs,     \* bound: RTCPeerConnections created
  MaxOps      \* bound: calls pending on one RTCPeerConnection

(* A new RTCPeerConnection has a call pending from the first step on.      *)
ASSUME BoundAssumption ==
  MaxStarts \in Nat /\ MaxPcs \in Nat /\ MaxOps \in Nat \ {0}

VARIABLES
  phase,      \* state of the component: what the page shows
  shown,      \*   viewers: the connection state listed for each
  indicated,  \*   audioEnabled (videoEnabled is alike)
  mounted,    \* ~unmountedRef.current
  streamRef, socketRef,
  conn,       \* connectionsRef: the RTCPeerConnection of each viewer
  pcs,        \* the RTCPeerConnections created, in order
  starts,     \* number of calls of start that asked for a stream
  media,      \* the stream of each call
  enabled,    \*   track.enabled of its tracks
  socket,     \* the WebSocket of each call
  announced,  \* history: broadcaster-ready went out on that socket
  wanted      \* history: the user's last command was start

shownVars  == <<phase, shown, indicated>>
mediaVars  == <<media, enabled, streamRef>>
socketVars == <<socket, socketRef, announced>>
peerVars   == <<conn, pcs>>
userVars   == <<mounted, starts, wanted>>
vars == <<shownVars, mediaVars, socketVars, peerVars, userVars>>

Start == 1..MaxStarts

NoConn  == [v \in Viewer |-> 0]
NoneShown == [v \in Viewer |-> "absent"]

Init ==
  /\ phase = "idle" /\ shown = NoneShown /\ indicated = TRUE
  /\ mounted = TRUE
  /\ streamRef = 0 /\ socketRef = 0
  /\ conn = NoConn /\ pcs = <<>>
  /\ starts = 0
  /\ media = [k \in Start |-> "none"]
  /\ enabled = [k \in Start |-> TRUE]
  /\ socket = [k \in Start |-> "none"]
  /\ announced = [k \in Start |-> FALSE]
  /\ wanted = FALSE

-----------------------------------------------------------------------------
(* Parts of the actions, each after a faulty variant (Bad...) that no      *)
(* action uses: what the properties below would catch.                     *)

(* createPeerConnection reuses the connection of the viewer.               *)
BadExisting(v) == 0
Existing(v) == conn[v]

(* The states in which onconnectionstatechange removes the viewer.         *)
BadIsDown(state) == state = "failed"
IsDown(state) == state \in {"failed", "closed", "disconnected"}

(* removeViewer takes the viewer off the list.                             *)
BadUnlisted(v) == shown
Unlisted(v) == [shown EXCEPT ![v] = "absent"]

(* onopen of socket k first looks whether the page is still there.         *)
BadAbandoned(k) == FALSE
Abandoned(k) == ~mounted

(* The phase that onclose sets.                                            *)
BadAfterClose == phase
AfterClose == "idle"

(* Does the onclose of socket k drop the viewers?                          *)
BadResets(k) == FALSE
Resets(k) == TRUE

(* The microphone that the button shows once stream k is there.            *)
BadShownEnabled(k) == indicated
ShownEnabled(k) == enabled[k]

(* A setter of the component: without effect after the unmount.            *)
Set(old, new) == IF mounted THEN new ELSE old

-----------------------------------------------------------------------------
(* The helpers of the hook.                                                *)

(* resetViewers                                                            *)
ResetViewers ==
  /\ pcs' = [i \in DOMAIN pcs |->
               IF \E v \in Viewer : conn[v] = i THEN Close(pcs[i]) ELSE pcs[i]]
  /\ conn' = NoConn

(* closeSocket                                                             *)
CloseSocket ==
  /\ socket' = [k \in Start |->
                  IF k = socketRef /\ socket[k] \in {"connecting", "open"}
                  THEN "closing" ELSE socket[k]]
  /\ socketRef' = 0

(* stopTracks                                                              *)
StopTracks ==
  /\ media' = [k \in Start |-> IF k = streamRef THEN "stopped" ELSE media[k]]
  /\ streamRef' = 0

(* removeViewer, in the state in which the connections are ps              *)
RemoveViewer(ps, v) ==
  /\ pcs' = [i \in DOMAIN ps |-> IF i = conn[v] THEN Close(ps[i]) ELSE ps[i]]
  /\ conn' = [conn EXCEPT ![v] = 0]
  /\ shown' = Set(shown, Unlisted(v))

(* socketRef names an open socket: sendMessage sends.                      *)
CanSend == socketRef # 0 /\ socket[socketRef] = "open"

-----------------------------------------------------------------------------
(* The user.                                                               *)

(* start, up to the await of getUserMedia.  The form is submitted only     *)
(* while the phase is idle, and start looks at the phase as well.          *)
StartBroadcast ==
  /\ mounted /\ phase = "idle"
  /\ starts < MaxStarts
  /\ starts' = starts + 1
  /\ media' = [media EXCEPT ![starts + 1] = "asking"]
  /\ phase' = "preparing-media"
  /\ wanted' = TRUE
  /\ UNCHANGED <<shown, indicated, mounted, streamRef, enabled, socketVars, peerVars>>

(* stop: the button (unless idle) or beforeunload (always).                *)
Stop ==
  /\ mounted
  /\ ResetViewers /\ shown' = NoneShown
  /\ CloseSocket
  /\ StopTracks
  /\ phase' = "idle"
  /\ wanted' = FALSE
  /\ UNCHANGED <<indicated, mounted, starts, enabled, announced>>

(* The user leaves the page: unmountedRef, then stop.                      *)
Unmount ==
  /\ mounted
  /\ mounted' = FALSE
  /\ ResetViewers
  /\ CloseSocket
  /\ StopTracks
  /\ wanted' = FALSE
  /\ UNCHANGED <<shownVars, starts, enabled, announced>>

(* toggleAudio: the button is active while there is a local stream.        *)
ToggleTrack ==
  /\ mounted /\ streamRef # 0
  /\ enabled' = [enabled EXCEPT ![streamRef] = ~@]
  /\ indicated' = ~enabled[streamRef]
  /\ UNCHANGED <<phase, shown, media, streamRef, socketVars, peerVars, userVars>>

-----------------------------------------------------------------------------
(* start, after the await of getUserMedia.                                 *)

Granted(k) ==
  /\ media[k] = "asking"
  /\ media' = [media EXCEPT ![k] = "live"]
  /\ streamRef' = k
  /\ socket' = [socket EXCEPT ![k] = "connecting"]
  /\ socketRef' = k
  /\ indicated' = Set(indicated, ShownEnabled(k))
  /\ phase' = Set(phase, "connecting")
  /\ UNCHANGED <<shown, enabled, announced, peerVars, userVars>>

(* getUserMedia rejects: stopTracks stops the stream of streamRef.         *)
Denied(k) ==
  /\ media[k] = "asking"
  /\ media' = [m \in Start |-> IF m = k THEN "denied"
                               ELSE IF m = streamRef THEN "stopped" ELSE media[m]]
  /\ streamRef' = 0
  /\ phase' = Set(phase, "idle")
  /\ UNCHANGED <<shown, indicated, enabled, socketVars, peerVars, userVars>>

-----------------------------------------------------------------------------
(* Events of socket k.  Its handlers stay in place when it is closed.      *)

(* onopen                                                                  *)
SocketOpen(k) ==
  /\ socket[k] = "connecting"
  /\ IF Abandoned(k)
     THEN /\ socket' = [socket EXCEPT ![k] = "closing"]
          /\ UNCHANGED <<phase, announced>>
     ELSE /\ socket' = [socket EXCEPT ![k] = "open"]
          /\ phase' = "ready"
          /\ announced' = [a \in Start |-> announced[a] \/
                             (a = socketRef /\ socket'[a] = "open")]
  /\ UNCHANGED <<shown, indicated, mediaVars, socketRef, peerVars, userVars>>

(* The server begins the closing handshake.                                *)
SocketClosing(k) ==
  /\ socket[k] = "open"
  /\ socket' = [socket EXCEPT ![k] = "closing"]
  /\ UNCHANGED <<shownVars, mediaVars, socketRef, announced, peerVars, userVars>>

(* onclose                                                                 *)
SocketClosed(k) ==
  /\ socket[k] \in {"connecting", "open", "closing"}
  /\ socket' = [socket EXCEPT ![k] = "closed"]
  /\ IF mounted
     THEN /\ IF Resets(k)
             THEN ResetViewers /\ shown' = NoneShown
             ELSE UNCHANGED <<peerVars, shown>>
          /\ socketRef' = 0
          /\ phase' = AfterClose
     ELSE UNCHANGED <<peerVars, shown, socketRef, phase>>
  /\ UNCHANGED <<indicated, mediaVars, announced, userVars>>

(* viewer-ready or viewer-join: handleViewerJoin, createPeerConnection, up *)
(* to the await of createOffer.  Without a stream the viewer is ignored.   *)
ViewerReady(k, v) ==
  /\ socket[k] = "open"
  /\ streamRef # 0
  /\ \/ /\ Existing(v) # 0
        /\ Len(pcs[Existing(v)].chain) < MaxOps
        /\ pcs' = [pcs EXCEPT ![Existing(v)] = Call(@, "createOffer", v)]
        /\ UNCHANGED <<conn, shown>>
     \/ /\ Existing(v) = 0
        /\ Len(pcs) < MaxPcs
        /\ pcs' = Append(pcs, Call(New(v, streamRef), "createOffer", v))
        /\ conn' = [conn EXCEPT ![v] = Len(pcs) + 1]
        /\ shown' = Set(shown, [shown EXCEPT ![v] = "new"])
  /\ UNCHANGED <<phase, indicated, mediaVars, socketVars, userVars>>

(* answer: handleViewerAnswer, up to the await of setRemoteDescription.    *)
AnswerFrom(k, v) ==
  /\ socket[k] = "open"
  /\ conn[v] # 0
  /\ Len(pcs[conn[v]].chain) < MaxOps
  /\ pcs' = [pcs EXCEPT ![conn[v]] = Call(@, "setRemoteAnswer", v)]
  /\ UNCHANGED <<shownVars, mediaVars, socketVars, conn, userVars>>

(* viewer-left or bye: removeViewer.                                       *)
ViewerLeft(k, v) ==
  /\ socket[k] = "open"
  /\ RemoveViewer(pcs, v)
  /\ UNCHANGED <<phase, indicated, mediaVars, socketVars, userVars>>

-----------------------------------------------------------------------------
(* Continuations and events of RTCPeerConnection i.                        *)

(* The awaited call resolves: after createOffer comes setLocalDescription, *)
(* after that the offer is sent, if socketRef allows it.                   *)
CallResolves(i) ==
  LET next == Resolve(pcs[i])
  IN  /\ Resolvable(pcs[i])
      /\ pcs' = [pcs EXCEPT ![i] = IF First(pcs[i]).op = "createOffer"
                                   THEN Call(next, "setLocalOffer", next.owner)
                                   ELSE next]
      /\ UNCHANGED <<shownVars, mediaVars, socketVars, conn, userVars>>

(* The awaited call rejects: removeViewer.                                 *)
CallRejects(i) ==
  /\ Pending(pcs[i])
  /\ RemoveViewer([pcs EXCEPT ![i] = Reject(@)], First(pcs[i]).arg)
  /\ UNCHANGED <<phase, indicated, mediaVars, socketVars, userVars>>

(* onconnectionstatechange                                                 *)
StateChange(i) ==
  LET v == pcs[i].owner
  IN  \E state \in ConnectionState :
        /\ MayBecome(pcs[i], state)
        /\ \/ /\ IsDown(state)
              /\ RemoveViewer(pcs, v)
           \/ /\ ~IsDown(state)
              /\ pcs' = [pcs EXCEPT ![i].connection = state]
              /\ shown' = Set(shown, [shown EXCEPT ![v] = state])
              /\ UNCHANGED conn
        /\ UNCHANGED <<phase, indicated, mediaVars, socketVars, userVars>>

-----------------------------------------------------------------------------
User == StartBroadcast \/ Stop \/ Unmount \/ ToggleTrack

SocketEvent(k) ==
  \/ SocketOpen(k) \/ SocketClosing(k) \/ SocketClosed(k)
  \/ \E v \in Viewer : ViewerReady(k, v) \/ AnswerFrom(k, v) \/ ViewerLeft(k, v)

ConnectionEvent(i) == CallResolves(i) \/ CallRejects(i) \/ StateChange(i)

Next ==
  \/ User
  \/ \E k \in Start : Granted(k) \/ Denied(k) \/ SocketEvent(k)
  \/ \E i \in DOMAIN pcs : ConnectionEvent(i)

Spec == Init /\ [][Next]_vars

(* Browsers bound the opening and the closing handshake of a WebSocket.    *)
(* Nothing else is owed: the user need not answer the request for the      *)
(* camera, the server need not close.                                      *)
Settle(k) ==
  socket[k] \in {"connecting", "closing"} /\ (SocketOpen(k) \/ SocketClosed(k))

FairSpec == Spec /\ \A k \in Start : WF_vars(Settle(k))

-----------------------------------------------------------------------------
(* Properties.                                                             *)

PeerConnections ==
  [owner : Viewer, source : Start, signaling : Signaling,
   connection : ConnectionState, negotiated : BOOLEAN,
   chain : Seq([op : Operations, arg : Viewer])]

(* A viewer on the list is never shown in a state that ends its stay.      *)
TypeOK ==
  /\ phase \in {"idle", "preparing-media", "connecting", "ready"}
  /\ shown \in [Viewer -> {"absent", "new", "connected"}]
  /\ indicated \in BOOLEAN /\ mounted \in BOOLEAN /\ wanted \in BOOLEAN
  /\ streamRef \in 0..starts /\ socketRef \in 0..starts
  /\ starts \in 0..MaxStarts
  /\ pcs \in Seq(PeerConnections) /\ Len(pcs) <= MaxPcs
  /\ \A i \in DOMAIN pcs : Len(pcs[i].chain) <= MaxOps
  /\ conn \in [Viewer -> 0..Len(pcs)]
  /\ media \in [Start -> {"none", "asking", "live", "stopped", "denied"}]
  /\ enabled \in [Start -> BOOLEAN]
  /\ socket \in [Start -> {"none", "connecting", "open", "closing", "closed"}]
  /\ announced \in [Start -> BOOLEAN]

(* No RTCPeerConnection is leaked: those that are not closed are exactly   *)
(* the entries of connectionsRef, each under its viewer.  Continuations,   *)
(* state changes, messages of two sockets and stop all close some of them  *)
(* (useBroadcaster.ts: createPeerConnection, removeViewer, resetViewers).  *)
ConnectionsTracked ==
  /\ \A i \in DOMAIN pcs : Open(pcs[i]) => conn[pcs[i].owner] = i
  /\ \A v \in Viewer : conn[v] # 0 => Open(pcs[conn[v]]) /\ pcs[conn[v]].owner = v

(* The list of viewers on the page is the truth: it has the viewers with a *)
(* connection, in the state of that connection (updateViewerState).        *)
ViewersShown ==
  mounted => \A v \in Viewer :
    shown[v] = IF conn[v] = 0 THEN "absent" ELSE pcs[conn[v]].connection

(* The page says "ready" only while some WebSocket to the signaling server *)
(* has opened and has not been closed, whatever events of old sockets came *)
(* in between; and on a page that was started once it is the one that      *)
(* sendMessage uses, and the viewers have been told (signaling-api.md:56:  *)
(* broadcaster-ready is sent when the broadcaster has connected).  After a *)
(* restart the onclose of the old socket can clear the new socketRef: then *)
(* the page says "ready" and can tell nobody (useBroadcaster.ts: onopen,   *)
(* onclose, stop).                                                         *)
ReadyHasSocket ==
  mounted /\ phase = "ready" =>
    /\ \E k \in Start : socket[k] \in {"open", "closing"}
    /\ starts <= 1 => socketRef # 0 /\ announced[socketRef]

(* A page that was started once: idle means that nothing is left, neither  *)
(* a socket in use nor a viewer, however the session ended and whatever    *)
(* was under way.                                                          *)
IdleIsQuiet ==
  mounted /\ phase = "idle" =>
    /\ socketRef = 0 /\ conn = NoConn
    /\ \A k \in Start : socket[k] \notin {"connecting", "open"}

(* A socket that is still connecting when the page is gone ends, also one  *)
(* that start opens later, when getUserMedia settles, and one that an      *)
(* earlier start left behind (the test of unmountedRef in onopen).         *)
SocketsEnd ==
  \A k \in Start :
    ~mounted /\ socket[k] = "connecting" ~> socket[k] = "closed"

(* The phase "connecting" ends.                                            *)
ConnectingEnds == phase = "connecting" ~> phase # "connecting" \/ ~mounted

(* BroadcastPage.tsx:176: once the broadcast is stopped, the lamps of the  *)
(* camera and the microphone go out.                                       *)
LampOff == ~wanted => \A k \in Start : media[k] # "live"

(* BroadcastPage.tsx:157: when the button offers to turn the microphone    *)
(* on, nobody who is sent the present stream hears it, also after a stop   *)
(* and a new start (start, toggleAudio).  It has no power over a stream    *)
(* that a start left behind that ran into another one.                     *)
MuteHonoured ==
  mounted /\ ~indicated =>
    \A i \in DOMAIN pcs : Open(pcs[i]) /\ pcs[i].source = streamRef => ~enabled[streamRef]
=============================================================================
