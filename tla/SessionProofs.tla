---------------------------- MODULE SessionProofs ----------------------------
(***************************************************************************)
(* Proofs about Session: each of the two pages behaves as its own module   *)
(* says, so that what is proved of the hooks holds while they talk to each *)
(* other; the frames under way are of the kind that the pages expect; and  *)
(* in the first visit of a viewer, by counting what is under way, answers  *)
(* meet the connections that made their offers, and the two pages have     *)
(* connections with each other.                                            *)
(***************************************************************************)
EXTENDS Session, FiniteSets, FiniteSetTheorems, TLAPS

VP == INSTANCE ViewerProofs WITH Sender <- 1..MaxPcs, Spurious <- FALSE

BP == INSTANCE BroadcasterProofs WITH
  Viewer <- {"viewer"}, MaxStarts <- 1, phase <- bphase, mounted <- bmounted,
  streamRef <- bstreamRef, socketRef <- bsocketRef, pcs <- bpcs, socket <- bsocket

(* An offer names an RTCPeerConnection of the broadcaster.                 *)
Frame ==
  {m \in [type : {"viewer-ready", "broadcaster-ready", "viewer-left", "offer", "answer"},
          offer : 0..MaxPcs] : m.type = "offer" => m.offer # 0}

FramesOK ==
  /\ member \in [Link -> {"new", "in", "left"}]
  /\ up \in [Link -> Seq(Frame)]
  /\ down \in [Link -> Seq(Frame)]

IInv == VP!IInv /\ BP!IInv /\ FramesOK

-----------------------------------------------------------------------------
(* The modules of the hooks and those of the proofs about them have the    *)
(* same actions.                                                           *)

LEMMA ViewerNext == V!Next => VP!Next
BY DEF V!shownVars, VP!shownVars, V!socketVars, VP!socketVars,
       V!peerVars, VP!peerVars, V!vars, VP!vars,
       V!Connect, VP!Connect, V!Ended, VP!Ended,
       V!Forgotten, VP!Forgotten, V!NoStream, VP!NoStream,
       V!NoState, VP!NoState, V!Closable, VP!Closable,
       V!AfterFailure, VP!AfterFailure, V!AfterClose, VP!AfterClose,
       V!Set, VP!Set, V!CloseSocket, VP!CloseSocket,
       V!Cleanup, VP!Cleanup, V!CanSend, VP!CanSend,
       V!RequestOffer, VP!RequestOffer, V!ConnectSocket, VP!ConnectSocket,
       V!Disconnect, VP!Disconnect, V!Unmount, VP!Unmount,
       V!SocketOpen, VP!SocketOpen, V!SocketClosing, VP!SocketClosing,
       V!SocketClosed, VP!SocketClosed, V!Message, VP!Message,
       V!Offer, VP!Offer, V!BroadcasterReady, VP!BroadcasterReady,
       V!BroadcasterLeft, VP!BroadcasterLeft, V!NextCall, VP!NextCall, V!Track, VP!Track,
       V!CallResolves, VP!CallResolves, V!CallRejects, VP!CallRejects,
       V!StateChange, VP!StateChange, V!User, VP!User,
       V!SocketEvent, VP!SocketEvent, V!ConnectionEvent, VP!ConnectionEvent,
       V!Next, VP!Next, V!Operations, VP!Operations,
       V!Signaling, VP!Signaling, V!ConnectionState, VP!ConnectionState,
       V!New, VP!New, V!Accepts, VP!Accepts,
       V!After, VP!After, V!Call, VP!Call,
       V!Open, VP!Open, V!Pending, VP!Pending,
       V!First, VP!First, V!Resolvable, VP!Resolvable,
       V!Resolve, VP!Resolve, V!Reject, VP!Reject,
       V!Close, VP!Close, V!MayBecome, VP!MayBecome

LEMMA BroadcasterNext == B!Next => BP!Next
BY DEF B!shownVars, BP!shownVars, B!mediaVars, BP!mediaVars,
       B!socketVars, BP!socketVars, B!peerVars, BP!peerVars,
       B!userVars, BP!userVars, B!vars, BP!vars,
       B!Start, BP!Start, B!NoConn, BP!NoConn,
       B!NoneShown, BP!NoneShown, B!Existing, BP!Existing,
       B!IsDown, BP!IsDown, B!Unlisted, BP!Unlisted,
       B!Abandoned, BP!Abandoned, B!AfterClose, BP!AfterClose,
       B!Resets, BP!Resets, B!ShownEnabled, BP!ShownEnabled,
       B!Set, BP!Set, B!ResetViewers, BP!ResetViewers,
       B!CloseSocket, BP!CloseSocket, B!StopTracks, BP!StopTracks,
       B!RemoveViewer, BP!RemoveViewer, B!CanSend, BP!CanSend,
       B!StartBroadcast, BP!StartBroadcast, B!Stop, BP!Stop,
       B!Unmount, BP!Unmount, B!ToggleTrack, BP!ToggleTrack,
       B!Granted, BP!Granted, B!Denied, BP!Denied,
       B!SocketOpen, BP!SocketOpen, B!SocketClosing, BP!SocketClosing,
       B!SocketClosed, BP!SocketClosed, B!ViewerReady, BP!ViewerReady,
       B!AnswerFrom, BP!AnswerFrom, B!ViewerLeft, BP!ViewerLeft,
       B!CallResolves, BP!CallResolves, B!CallRejects, BP!CallRejects,
       B!StateChange, BP!StateChange, B!User, BP!User,
       B!SocketEvent, BP!SocketEvent, B!ConnectionEvent, BP!ConnectionEvent,
       B!Next, BP!Next, B!Operations, BP!Operations,
       B!Signaling, BP!Signaling, B!ConnectionState, BP!ConnectionState,
       B!New, BP!New, B!Accepts, BP!Accepts,
       B!After, BP!After, B!Call, BP!Call,
       B!Open, BP!Open, B!Pending, BP!Pending,
       B!First, BP!First, B!Resolvable, BP!Resolvable,
       B!Resolve, BP!Resolve, B!Reject, BP!Reject,
       B!Close, BP!Close, B!MayBecome, BP!MayBecome
LEMMA SameInit == (V!Init <=> VP!Init) /\ (B!Init <=> BP!Init)
BY DEF V!Init, VP!Init, V!Connect, VP!Connect, B!Init, BP!Init, B!Start, BP!Start,
       B!NoConn, BP!NoConn, B!NoneShown, BP!NoneShown

LEMMA SameVars ==
  (UNCHANGED V!vars <=> UNCHANGED VP!vars) /\ (UNCHANGED B!vars <=> UNCHANGED BP!vars)
BY DEF V!vars, VP!vars, V!shownVars, VP!shownVars, V!socketVars, VP!socketVars,
       V!peerVars, VP!peerVars, B!vars, BP!vars, B!shownVars, BP!shownVars,
       B!mediaVars, BP!mediaVars, B!socketVars, BP!socketVars, B!peerVars,
       BP!peerVars, B!userVars, BP!userVars

-----------------------------------------------------------------------------
(* What a step is to each of the pages.                                    *)

LEMMA ViewerIdle == UNCHANGED viewerVars => UNCHANGED V!vars
BY DEF viewerVars, V!vars, V!shownVars, V!socketVars, V!peerVars

LEMMA BroadcasterIdle == UNCHANGED broadcasterVars => UNCHANGED B!vars
BY DEF broadcasterVars, B!vars, B!shownVars, B!mediaVars, B!socketVars, B!peerVars,
       B!userVars

LEMMA OfferNamed ==
  ASSUME NEW m \in Frame
  PROVE  /\ m.offer \in 0..MaxPcs
         /\ m.type = "offer" => m.offer \in 1..MaxPcs
BY BoundAssumption DEF Frame

(* A frame at the head of a link is one of those that were sent.           *)
LEMMA HeadOfLink ==
  ASSUME FramesOK, NEW c \in Link, down[c] # <<>>
  PROVE  Head(down[c]) \in Frame /\ Tail(down[c]) \in Seq(Frame)
BY DEF FramesOK

LEMMA ViewerStep ==
  ASSUME FramesOK, [Next]_vars
  PROVE  [V!Next]_(V!vars)
<1>1. CASE UNCHANGED vars
  BY <1>1, ViewerIdle DEF vars
<1>2. CASE User
  BY <1>2, ViewerIdle DEF User, Broadcast, Watch, StopWatching, BroadcasterOnly,
     V!Next, V!User
<1>3. ASSUME NEW c \in Link, Admit(c) \/ Dispatch(c) \/ Evict(c)
      PROVE  [V!Next]_(V!vars)
  BY <1>3, ViewerIdle DEF Admit, Dispatch, Evict
<1>4. ASSUME NEW c \in Link, SocketCloses(c) PROVE [V!Next]_(V!vars)
  <2>1. c = 0 \/ c \in V!Connect
    BY BoundAssumption DEF Link, V!Connect
  <2> QED
    BY <1>4, <2>1, ViewerIdle DEF SocketCloses, V!Next, V!SocketEvent
<1>5. CASE BroadcasterOpens \/ BroadcasterReceives
  BY <1>5, ViewerIdle DEF BroadcasterOpens, BroadcasterReceives, BroadcasterOnly
<1>6. ASSUME NEW k \in 1..MaxConnects, ViewerOpens(k) PROVE [V!Next]_(V!vars)
  BY <1>6 DEF ViewerOpens, V!Next, V!SocketEvent, V!Connect
<1>7. ASSUME NEW k \in 1..MaxConnects, ViewerReceives(k) PROVE [V!Next]_(V!vars)
  <2>1. k \in Link /\ k \in V!Connect
    BY BoundAssumption DEF Link, V!Connect
  <2>2. down[k] # <<>>
    BY <1>7 DEF ViewerReceives, TakeMessage
  <2>3. Head(down[k]).type = "offer" => Head(down[k]).offer \in 1..MaxPcs
    BY <2>1, <2>2, HeadOfLink, OfferNamed
  <2> QED
    BY <1>7, <2>1, <2>3 DEF ViewerReceives, V!Next, V!SocketEvent
<1>8. ASSUME NEW i \in DOMAIN bpcs,
             BroadcasterCall(i) \/ BroadcasterConnects(i) \/ BroadcasterLoses(i)
      PROVE  [V!Next]_(V!vars)
  BY <1>8, ViewerIdle DEF BroadcasterCall, BroadcasterConnects, BroadcasterLoses,
     BroadcasterOnly
<1>9. ASSUME NEW j \in DOMAIN pcs, ViewerCall(j) \/ ViewerConnects(j) \/ ViewerLoses(j)
      PROVE  [V!Next]_(V!vars)
  BY <1>9 DEF ViewerCall, ViewerConnects, ViewerLoses, V!Next, V!ConnectionEvent
<1> QED
  BY <1>1, <1>2, <1>3, <1>4, <1>5, <1>6, <1>7, <1>8, <1>9 DEF Next, System

LEMMA BroadcasterStep ==
  ASSUME [Next]_vars
  PROVE  [B!Next]_(B!vars)
<1>0. 1 \in B!Start
  BY DEF B!Start
<1>1. CASE UNCHANGED vars
  BY <1>1, BroadcasterIdle DEF vars
<1>2. CASE User
  BY <1>0, <1>2, BroadcasterIdle DEF User, Broadcast, Watch, StopWatching, ViewerOnly,
     B!Next, B!User
<1>3. ASSUME NEW c \in Link, Admit(c) \/ Dispatch(c) \/ Evict(c)
      PROVE  [B!Next]_(B!vars)
  BY <1>3, BroadcasterIdle DEF Admit, Dispatch, Evict
<1>4. ASSUME NEW c \in Link, SocketCloses(c) PROVE [B!Next]_(B!vars)
  BY <1>0, <1>4, BroadcasterIdle DEF SocketCloses, B!Next, B!SocketEvent
<1>5. CASE BroadcasterOpens
  BY <1>0, <1>5 DEF BroadcasterOpens, B!Next, B!SocketEvent
<1>6. CASE BroadcasterReceives
  BY <1>0, <1>6, BroadcasterIdle DEF BroadcasterReceives, B!Next, B!SocketEvent
<1>7. ASSUME NEW k \in 1..MaxConnects, ViewerOpens(k) \/ ViewerReceives(k)
      PROVE  [B!Next]_(B!vars)
  BY <1>7, BroadcasterIdle DEF ViewerOpens, ViewerReceives, ViewerOnly
<1>8. ASSUME NEW i \in DOMAIN bpcs,
             BroadcasterCall(i) \/ BroadcasterConnects(i) \/ BroadcasterLoses(i)
      PROVE  [B!Next]_(B!vars)
  BY <1>8 DEF BroadcasterCall, BroadcasterConnects, BroadcasterLoses, B!Next,
     B!ConnectionEvent
<1>9. ASSUME NEW j \in DOMAIN pcs, ViewerCall(j) \/ ViewerConnects(j) \/ ViewerLoses(j)
      PROVE  [B!Next]_(B!vars)
  BY <1>9, BroadcasterIdle DEF ViewerCall, ViewerConnects, ViewerLoses, ViewerOnly
<1> QED
  BY <1>1, <1>2, <1>3, <1>4, <1>5, <1>6, <1>7, <1>8, <1>9 DEF Next, System

-----------------------------------------------------------------------------
(* The frames under way.                                                   *)

LEMMA MessageType ==
  /\ \A type \in {"viewer-ready", "broadcaster-ready", "viewer-left", "answer"} :
       \A o \in 0..MaxPcs : Msg(type, o) \in Frame
  /\ \A o \in 1..MaxPcs : Msg("offer", o) \in Frame
  /\ <<>> \in Seq(Frame)
  /\ 0 \in 0..MaxPcs
BY BoundAssumption DEF Msg, Frame

LEMMA SendType ==
  ASSUME FramesOK, NEW c, NEW ms \in Seq(Frame), Send(c, ms)
  PROVE  up' \in [Link -> Seq(Frame)]
<1>1. CASE c \in Link
  <2>1. up[c] \in Seq(Frame) /\ up[c] \o ms \in Seq(Frame)
    BY <1>1 DEF FramesOK
  <2> QED
    BY <1>1, <2>1 DEF FramesOK, Send
<1>2. CASE c \notin Link
  <2>1. up' = up
    BY <1>2 DEF FramesOK, Send
  <2> QED
    BY <2>1 DEF FramesOK
<1> QED
  BY <1>1, <1>2

LEMMA RequestType ==
  ASSUME FramesOK, Request
  PROVE  up' \in [Link -> Seq(Frame)]
<1>1. <<Msg("viewer-ready", 0)>> \in Seq(Frame)
  BY MessageType
<1> QED
  BY <1>1, SendType DEF Request, FramesOK

LEMMA HeadOfSeq ==
  ASSUME NEW S, NEW q \in Seq(S), q # <<>>
  PROVE  Head(q) \in S
OBVIOUS

(* An answer is sent for the offer that the continuation belongs to.       *)
LEMMA AnswerNamed ==
  ASSUME VP!IInv, NEW j \in DOMAIN pcs, V!CallResolves(j)
  PROVE  V!First(pcs[j]).arg \in 1..MaxPcs
<1>1. pcs[j] \in VP!PeerConnections
  BY DEF VP!IInv, VP!PeersOK
<1>2. pcs[j].chain \in Seq([op : VP!Operations, arg : 1..MaxPcs]) /\ pcs[j].chain # <<>>
  BY <1>1 DEF VP!PeerConnections, V!CallResolves, V!Resolvable, V!Pending
<1>3. Head(pcs[j].chain) \in [op : VP!Operations, arg : 1..MaxPcs]
  BY <1>2, HeadOfSeq
<1>4. Head(pcs[j].chain).arg \in 1..MaxPcs
  BY <1>3, Zenon
<1> QED
  BY <1>4 DEF V!First

LEMMA FramesStep ==
  ASSUME VP!IInv, BP!IInv, FramesOK, [Next]_vars
  PROVE  FramesOK'
<1>1. CASE UNCHANGED vars
  BY <1>1 DEF vars, hubVars, FramesOK
<1>2. CASE User
  <2>1. Farewell \in Seq(Frame)
    BY MessageType DEF Farewell
  <2>2. UNCHANGED <<member, down>> /\ up' \in [Link -> Seq(Frame)]
    BY <1>2, <2>1, SendType DEF User, Broadcast, Watch, StopWatching, BroadcasterOnly,
       ViewerOnly, FramesOK
  <2> QED
    BY <2>2 DEF FramesOK
<1>3. ASSUME NEW c \in Link, Admit(c) PROVE FramesOK'
  BY <1>3, MessageType DEF Admit, FramesOK
<1>4. ASSUME NEW c \in Link, Dispatch(c) PROVE FramesOK'
  <2>1. Head(up[c]) \in Frame /\ Tail(up[c]) \in Seq(Frame)
    BY <1>4 DEF Dispatch, FramesOK
  <2> QED
    BY <1>4, <2>1 DEF Dispatch, FramesOK
<1>5. ASSUME NEW c \in Link, Evict(c) PROVE FramesOK'
  BY <1>5, MessageType DEF Evict, FramesOK
<1>6. ASSUME NEW c \in Link, SocketCloses(c) PROVE FramesOK'
  BY <1>6 DEF SocketCloses, hubVars, FramesOK
<1>7. CASE BroadcasterOpens
  <2>1. Greeting \in Seq(Frame)
    BY MessageType DEF Greeting
  <2> QED
    BY <1>7, <2>1, SendType DEF BroadcasterOpens, BroadcasterOnly, FramesOK
<1>8. CASE BroadcasterReceives
  <2>1. 0 \in Link /\ Tail(down[0]) \in Seq(Frame)
    BY <1>8, BoundAssumption, HeadOfLink DEF Link, BroadcasterReceives, TakeMessage
  <2> QED
    BY <1>8, <2>1 DEF BroadcasterReceives, TakeMessage, FramesOK
<1>9. ASSUME NEW k \in 1..MaxConnects, ViewerOpens(k) PROVE FramesOK'
  <2>1. <<Msg("viewer-ready", 0)>> \in Seq(Frame)
    BY MessageType
  <2> QED
    BY <1>9, <2>1, SendType DEF ViewerOpens, ViewerOnly, FramesOK
<1>10. ASSUME NEW k \in 1..MaxConnects, ViewerReceives(k) PROVE FramesOK'
  <2>1. k \in Link /\ down[k] # <<>>
    BY <1>10, BoundAssumption DEF Link, ViewerReceives, TakeMessage
  <2>2. Tail(down[k]) \in Seq(Frame)
    BY <2>1, HeadOfLink
  <2>3. OnReady \in Seq(Frame)
    BY MessageType DEF OnReady
  <2>4. up' \in [Link -> Seq(Frame)]
    BY <1>10, <2>3, SendType DEF ViewerReceives, FramesOK
  <2> QED
    BY <1>10, <2>2, <2>4 DEF ViewerReceives, TakeMessage, FramesOK
<1>11. ASSUME NEW i \in DOMAIN bpcs, BroadcasterCall(i) PROVE FramesOK'
  <2>1. i \in 1..MaxPcs
    BY BoundAssumption DEF BP!IInv, BP!PeersOK
  <2>2. <<Msg("offer", i)>> \in Seq(Frame)
    BY <2>1, MessageType
  <2> QED
    BY <1>11, <2>2, SendType DEF BroadcasterCall, BroadcasterOnly, FramesOK
<1>12. ASSUME NEW i \in DOMAIN bpcs, BroadcasterConnects(i) \/ BroadcasterLoses(i)
       PROVE  FramesOK'
  BY <1>12 DEF BroadcasterConnects, BroadcasterLoses, BroadcasterOnly, FramesOK
<1>13. ASSUME NEW j \in DOMAIN pcs, ViewerCall(j) PROVE FramesOK'
  <2>1. ASSUME V!CallResolves(j) PROVE Reply(V!First(pcs[j]).arg) \in Seq(Frame)
    <3>1. V!First(pcs[j]).arg \in 0..MaxPcs
      BY <2>1, AnswerNamed
    <3> QED
      BY <3>1, MessageType DEF Reply
  <2> QED
    BY <1>13, <2>1, SendType DEF ViewerCall, ViewerOnly, FramesOK
<1>14. ASSUME NEW j \in DOMAIN pcs, ViewerConnects(j) \/ ViewerLoses(j) PROVE FramesOK'
  BY <1>14, RequestType DEF ViewerConnects, ViewerLoses, ViewerOnly, FramesOK
<1> QED
  BY <1>1, <1>2, <1>3, <1>4, <1>5, <1>6, <1>7, <1>8, <1>9, <1>10, <1>11, <1>12, <1>13,
     <1>14 DEF Next, System

-----------------------------------------------------------------------------
LEMMA InitHolds == Init => IInv
<1> SUFFICES ASSUME Init PROVE IInv
  OBVIOUS
<1>1. VP!IInv
  BY SameInit, VP!InitHolds, NilAssumption, BoundAssumption DEF Init
<1>2. BP!IInv
  BY SameInit, BP!InitHolds, BoundAssumption DEF Init
<1>3. FramesOK
  BY MessageType DEF Init, FramesOK
<1> QED
  BY <1>1, <1>2, <1>3 DEF IInv

LEMMA StepKeeps == IInv /\ [Next]_vars => IInv'
<1> SUFFICES ASSUME IInv, [Next]_vars PROVE IInv'
  OBVIOUS
<1>1. VP!IInv'
  <2>1. [VP!Next]_(VP!vars)
    BY ViewerStep, ViewerNext, SameVars DEF IInv
  <2> QED
    BY <2>1, VP!StepKeeps, NilAssumption, BoundAssumption DEF IInv
<1>2. BP!IInv'
  <2>1. [BP!Next]_(BP!vars)
    BY BroadcasterStep, BroadcasterNext, SameVars
  <2> QED
    BY <2>1, BP!StepKeeps, BoundAssumption DEF IInv
<1>3. FramesOK'
  BY FramesStep DEF IInv
<1> QED
  BY <1>1, <1>2, <1>3 DEF IInv

LEMMA AlwaysIInv == Spec => []IInv
<1> QED
  BY InitHolds, StepKeeps, PTL DEF Spec

(* Whatever the hub and the other page do, the viewing page takes steps of *)
(* its own module only: all that is proved of Viewer holds in a session.   *)
(* (The frames that reach the handlers of useViewer.ts are among those     *)
(* that Viewer reckons with.)                                              *)
THEOREM ViewerBehaves == Spec => V!Spec
<1>1. Init => V!Init
  BY DEF Init
<1>2. IInv /\ [Next]_vars => [V!Next]_(V!vars)
  BY ViewerStep DEF IInv
<1> QED
  BY <1>1, <1>2, AlwaysIInv, PTL DEF Spec, V!Spec

(* The same of the broadcasting page (useBroadcaster.ts).                  *)
THEOREM BroadcasterBehaves == Spec => B!Spec
<1>1. Init => B!Init
  BY DEF Init
<1>2. [Next]_vars => [B!Next]_(B!vars)
  BY BroadcasterStep
<1> QED
  BY <1>1, <1>2, PTL DEF Spec, B!Spec

(* The pages keep their types in a session, and every offer and answer     *)
(* under way names a connection that the broadcaster may have made.        *)
THEOREM SessionTyped == Spec => []TypeOK
<1>1. ASSUME IInv PROVE TypeOK
  <2>1. V!TypeOK
    BY <1>1 DEF IInv, VP!IInv, VP!PeersOK, VP!SocketsOK, VP!PageOK, V!TypeOK,
       V!PeerConnections, VP!PeerConnections, V!Connect, VP!Connect, V!Operations,
       VP!Operations, V!Signaling, VP!Signaling, V!ConnectionState, VP!ConnectionState
  <2>2. B!TypeOK
    BY <1>1 DEF IInv, BP!IInv, BP!PeersOK, BP!ShownOK, BP!MediaOK, BP!SocketsOK, B!TypeOK,
       B!PeerConnections, BP!PeerConnections, B!Start, BP!Start, B!Operations,
       BP!Operations, B!Signaling, BP!Signaling, B!ConnectionState, BP!ConnectionState
  <2>3. /\ \A c \in Link : \A i \in DOMAIN up[c] : up[c][i].offer \in 0..MaxPcs
        /\ \A c \in Link : \A i \in DOMAIN down[c] : down[c][i].offer \in 0..MaxPcs
    BY <1>1, OfferNamed DEF IInv, FramesOK
  <2> QED
    BY <1>1, <2>1, <2>2, <2>3 DEF TypeOK, IInv, FramesOK
<1> QED
  BY <1>1, AlwaysIInv, PTL

-----------------------------------------------------------------------------
(* Why answers fit.  A connection of the broadcaster is made for a viewer  *)
(* that asks, and asking costs: a socket of each page opens once, and      *)
(* every further request follows the end of a connection.  So there are    *)
(* two rounds at most under way at any time, one once a connection has     *)
(* negotiated or ended, and a connection of the broadcaster is replaced    *)
(* only when nothing of the old one is left.                               *)

Serving == conn["viewer"]
Watching == phase # "idle"

Count(s, S) == Cardinality({i \in DOMAIN s : s[i] \in S})

(* The frames between the two pages (u: up, d: down) that are in S.        *)
OnWay(u, d, S) == Count(u[0], S) + Count(u[1], S) + Count(d[0], S) + Count(d[1], S)

Frames(types) == {m \in Frame : m.type \in types}
Requests == Frames({"viewer-ready", "broadcaster-ready"})
Misnamed(n) == {m \in Frames({"offer", "answer"}) : m.offer # n}

(* A round begins with a socket that will open, goes on with a request, a  *)
(* call of createOffer, an offer, the calls of the viewer and an answer,   *)
(* and ends with setRemoteAnswer.                                          *)
Unopened(s) == IF s \in {"none", "connecting"} THEN 1 ELSE 0
Asking == OnWay(up, down, Requests) + Unopened(socket[1]) + Unopened(bsocket[1])
Calling == IF Serving = 0 THEN 0 ELSE Len(bpcs[Serving].chain)
Offers == OnWay(up, down, Frames({"offer"}))
Handling == IF peerConnectionRef = 0 THEN 0 ELSE Len(pcs[peerConnectionRef].chain)
Answers == OnWay(up, down, Frames({"answer"}))
Settling ==
  IF Serving = 0 THEN 0
  ELSE Count(bpcs[Serving].chain, [op : {"setRemoteAnswer"}, arg : {"viewer"}])

Rounds == Asking + Calling + Offers + Handling + Answers
Exchanged == Offers + Handling + Answers + Settling

Negotiated == Serving # 0 /\ bpcs[Serving].negotiated
Fresh == Serving # 0 /\ ~bpcs[Serving].negotiated /\ bpcs[Serving].signaling = "stable"
Tried == \E i \in DOMAIN bpcs : bpcs[i].negotiated \/ ~B!Open(bpcs[i])
Failed == Watching /\ \E j \in DOMAIN pcs : ~V!Open(pcs[j])

FewRounds == Rounds <= 2 /\ (Tried \/ Failed => Rounds <= 1)

FreshIsFirst == Fresh \/ bpcs = <<>> => Exchanged = 0

OneName ==
  Serving # 0 =>
    /\ OnWay(up, down, Misnamed(Serving)) = 0
    /\ peerConnectionRef # 0 =>
         /\ broadcasterRef = Serving
         /\ pcs[peerConnectionRef].chain \in Seq([op : V!Operations, arg : {Serving}])

(* One page has a connection and the other has lost its own.               *)
LoneIsQuiet ==
  /\ peerConnectionRef # 0 /\ Serving = 0 => Rounds = 0
  /\ Watching /\ Negotiated /\ peerConnectionRef = 0 => Rounds = 0

CauseFirst ==
  /\ Watching /\ Offers # 0 => Serving # 0
  /\ Answers # 0 \/ Settling # 0 => pcs # <<>>
  /\ pcs # <<>> => bpcs # <<>>
  /\ bpcs # <<>> => bsocket[1] \notin {"none", "connecting"}

LeftIsLast ==
  /\ \A i \in DOMAIN up[1] :
       up[1][i].type = "viewer-left" => ~Watching /\ i = Len(up[1])
  /\ \A i \in DOMAIN down[0] :
       down[0][i].type = "viewer-left" => ~Watching /\ i = Len(down[0]) /\ up[1] = <<>>

Core == FewRounds /\ FreshIsFirst /\ OneName /\ LoneIsQuiet /\ CauseFirst /\ LeftIsLast

(* The first visit of the viewer, until the broadcaster has heard all.     *)
FirstVisit ==
  /\ connects = 1 /\ bsocket[1] \notin {"closing", "closed"}
  /\ Watching \/ up[1] # <<>> \/ down[0] # <<>>

(* Before it, at most a greeting is under way.                             *)
Before ==
  connects = 0 =>
    /\ pcs = <<>> /\ bpcs = <<>>
    /\ up[0] = <<>> \/ up[0] = <<Msg("broadcaster-ready", 0)>>
    /\ bsocket[1] \in {"none", "connecting"} => up[0] = <<>>
    /\ \A c \in Link : down[c] = <<>>

(* The broadcaster only makes offers.                                      *)
Offering(pc) ==
  B!Open(pc) =>
    /\ pc.signaling \in {"stable", "have-local-offer"}
    /\ pc.chain \in Seq([op : {"createOffer", "setLocalOffer", "setRemoteAnswer"},
                         arg : {"viewer"}])

Frugal ==
  /\ mounted /\ bmounted
  /\ \A c \in Link : c > connects => up[c] = <<>> /\ member[c] = "new"
  /\ \A i \in DOMAIN bpcs : Offering(bpcs[i])

RInv == Frugal /\ Before /\ (FirstVisit => Core)

-----------------------------------------------------------------------------
(* Counting.                                                               *)

LEMMA CountType ==
  ASSUME NEW T, NEW s \in Seq(T), NEW S
  PROVE  Count(s, S) \in Nat /\ IsFiniteSet({i \in DOMAIN s : s[i] \in S})
<1>1. DOMAIN s = 1..Len(s) /\ Len(s) \in Nat
  OBVIOUS
<1>2. IsFiniteSet(1..Len(s))
  BY <1>1, FS_Interval
<1>3. {i \in DOMAIN s : s[i] \in S} \in SUBSET (1..Len(s))
  BY <1>1
<1>4. IsFiniteSet({i \in DOMAIN s : s[i] \in S})
  BY <1>2, <1>3, FS_Subset
<1> QED
  BY <1>4, FS_CardinalityType DEF Count

LEMMA CountEmpty == ASSUME NEW S PROVE Count(<<>>, S) = 0
<1>1. {i \in DOMAIN <<>> : <<>>[i] \in S} = {}
  OBVIOUS
<1> QED
  BY <1>1, FS_EmptySet DEF Count

(* An element in S counts.                                                 *)
LEMMA CountElement ==
  ASSUME NEW T, NEW s \in Seq(T), NEW S, NEW i \in DOMAIN s, s[i] \in S
  PROVE  Count(s, S) # 0
<1> DEFINE A == {n \in DOMAIN s : s[n] \in S}
<1>1. IsFiniteSet(A) /\ A # {}
  BY CountType
<1> QED
  BY <1>1, FS_EmptySet DEF Count

LEMMA CountSubset ==
  ASSUME NEW T, NEW s \in Seq(T), NEW S, NEW R \in SUBSET S
  PROVE  Count(s, R) <= Count(s, S)
<1> DEFINE A == {n \in DOMAIN s : s[n] \in S}
           C == {n \in DOMAIN s : s[n] \in R}
<1>1. IsFiniteSet(A) /\ C \in SUBSET A
  BY CountType
<1> HIDE DEF A, C
<1>2. Cardinality(C) <= Cardinality(A)
  BY <1>1, FS_Subset
<1> QED
  BY <1>2 DEF Count, A, C

LEMMA CountAppend ==
  ASSUME NEW T, NEW s \in Seq(T), NEW S, NEW x \in T
  PROVE  Count(Append(s, x), S) = Count(s, S) + (IF x \in S THEN 1 ELSE 0)
<1> DEFINE n == Len(s) + 1
           A == {i \in DOMAIN s : s[i] \in S}
           C == {i \in DOMAIN Append(s, x) : Append(s, x)[i] \in S}
<1>1. /\ Len(s) \in Nat /\ DOMAIN s = 1..Len(s) /\ DOMAIN Append(s, x) = 1..n
      /\ \A i \in 1..Len(s) : Append(s, x)[i] = s[i]
      /\ Append(s, x)[n] = x
  OBVIOUS
<1>2. C = IF x \in S THEN A \cup {n} ELSE A
  BY <1>1
<1>3. n \notin A
  BY <1>1
<1>4. IsFiniteSet(A) /\ Cardinality(A) \in Nat
  BY CountType DEF Count
<1> HIDE DEF n, A, C
<1>5. Cardinality(C) = Cardinality(A) + (IF x \in S THEN 1 ELSE 0)
  <2>1. Cardinality(A \cup {n}) = Cardinality(A) + 1
    BY <1>3, <1>4, FS_AddElement
  <2> QED
    BY <1>2, <1>4, <2>1
<1> QED
  BY <1>5 DEF Count, A, C

LEMMA CountTail ==
  ASSUME NEW T, NEW s \in Seq(T), NEW S, s # <<>>
  PROVE  Count(s, S) = Count(Tail(s), S) + (IF Head(s) \in S THEN 1 ELSE 0)
<1> DEFINE A == {i \in DOMAIN Tail(s) : Tail(s)[i] \in S}
           C == {i \in DOMAIN s : s[i] \in S}
           D == {i \in C : i # 1}
           f == [i \in A |-> i + 1]
<1>1. /\ Len(s) \in Nat \ {0} /\ DOMAIN s = 1..Len(s) /\ DOMAIN Tail(s) = 1..(Len(s) - 1)
      /\ \A i \in 1..(Len(s) - 1) : Tail(s)[i] = s[i + 1]
      /\ Head(s) = s[1] /\ Tail(s) \in Seq(T)
  OBVIOUS
<1>2. IsFiniteSet(A) /\ Cardinality(A) \in Nat
  BY <1>1, CountType DEF Count
<1>3. f \in Bijection(A, D)
  <2>1. \A i \in A : i + 1 \in D
    BY <1>1
  <2>2. \A k \in D : k - 1 \in A /\ (k - 1) + 1 = k
    BY <1>1
  <2>3. \A i, k \in A : i + 1 = k + 1 => i = k
    BY <1>1
  <2>4. \A k \in D : \E i \in A : i + 1 = k
    BY <2>2
  <2> HIDE DEF A, D
  <2> QED
    BY <2>1, <2>3, <2>4 DEF Bijection, Injection, Surjection, IsInjective
<1>4. IsFiniteSet(D) /\ Cardinality(D) = Cardinality(A)
  BY <1>2, <1>3, FS_Bijection DEF ExistsBijection
<1>5. C = IF Head(s) \in S THEN D \cup {1} ELSE D
  BY <1>1
<1>6. 1 \notin D
  OBVIOUS
<1> HIDE DEF A, C, D, f
<1>7. Cardinality(C) = Cardinality(A) + (IF Head(s) \in S THEN 1 ELSE 0)
  <2>1. Cardinality(D \cup {1}) = Cardinality(D) + 1
    BY <1>4, <1>6, FS_AddElement
  <2> QED
    BY <1>2, <1>4, <1>5, <2>1
<1> QED
  BY <1>7 DEF Count, A, C

-----------------------------------------------------------------------------
(* Frames between the two pages.                                           *)

LEMMA OnWayType ==
  ASSUME 1 \in Link, NEW u \in [Link -> Seq(Frame)], NEW d \in [Link -> Seq(Frame)], NEW S
  PROVE  OnWay(u, d, S) \in Nat
<1>1. 0 \in Link
  BY BoundAssumption DEF Link
<1>2. u[0] \in Seq(Frame) /\ u[1] \in Seq(Frame) /\ d[0] \in Seq(Frame) /\ d[1] \in Seq(Frame)
  BY <1>1
<1>3. /\ Count(u[0], S) \in Nat /\ Count(u[1], S) \in Nat
      /\ Count(d[0], S) \in Nat /\ Count(d[1], S) \in Nat
  BY <1>2, CountType
<1> QED
  BY <1>3 DEF OnWay

(* No frame of a set is under way iff none is counted.                     *)
LEMMA OnWayNone ==
  ASSUME 1 \in Link, NEW u \in [Link -> Seq(Frame)], NEW d \in [Link -> Seq(Frame)],
         NEW S, NEW R \in SUBSET S, OnWay(u, d, S) = 0
  PROVE  OnWay(u, d, R) = 0
<1>1. 0 \in Link
  BY BoundAssumption DEF Link
<1>2. u[0] \in Seq(Frame) /\ u[1] \in Seq(Frame) /\ d[0] \in Seq(Frame) /\ d[1] \in Seq(Frame)
  BY <1>1
<1>3. /\ Count(u[0], S) \in Nat /\ Count(u[1], S) \in Nat
      /\ Count(d[0], S) \in Nat /\ Count(d[1], S) \in Nat
      /\ Count(u[0], R) \in Nat /\ Count(u[1], R) \in Nat
      /\ Count(d[0], R) \in Nat /\ Count(d[1], R) \in Nat
  BY <1>2, CountType
<1>4. /\ Count(u[0], R) <= Count(u[0], S) /\ Count(u[1], R) <= Count(u[1], S)
      /\ Count(d[0], R) <= Count(d[0], S) /\ Count(d[1], R) <= Count(d[1], S)
  BY <1>2, CountSubset
<1> QED
  BY <1>3, <1>4 DEF OnWay

(* Queues that are emptied or left alone bring no frames.                  *)
LEMMA OnWayFewer ==
  ASSUME 1 \in Link, NEW u \in [Link -> Seq(Frame)], NEW d \in [Link -> Seq(Frame)],
         NEW u2, NEW d2, NEW S,
         \A c \in {0, 1} : u2[c] \in {u[c], <<>>} /\ d2[c] \in {d[c], <<>>}
  PROVE  OnWay(u2, d2, S) <= OnWay(u, d, S)
<1>1. 0 \in Link
  BY BoundAssumption DEF Link
<1>2. u[0] \in Seq(Frame) /\ u[1] \in Seq(Frame) /\ d[0] \in Seq(Frame) /\ d[1] \in Seq(Frame)
  BY <1>1
<1>3. /\ Count(u[0], S) \in Nat /\ Count(u[1], S) \in Nat
      /\ Count(d[0], S) \in Nat /\ Count(d[1], S) \in Nat
  BY <1>2, CountType
<1>4. /\ Count(u2[0], S) \in {Count(u[0], S), 0} /\ Count(u2[1], S) \in {Count(u[1], S), 0}
      /\ Count(d2[0], S) \in {Count(d[0], S), 0} /\ Count(d2[1], S) \in {Count(d[1], S), 0}
  BY CountEmpty
<1> QED
  BY <1>3, <1>4 DEF OnWay

(* What a link carries after a send.                                       *)
LEMMA SendAppends ==
  ASSUME FramesOK, NEW c \in Link, NEW m \in Frame, Send(c, <<m>>)
  PROVE  /\ up'[c] = up[c] \/ up'[c] = Append(up[c], m)
         /\ \A d \in Link : d # c => up'[d] = up[d]
<1>1. up[c] \in Seq(Frame) /\ DOMAIN up = Link
  BY DEF FramesOK
<1>2. up[c] \o <<m>> = Append(up[c], m)
  BY <1>1
<1> QED
  BY <1>1, <1>2 DEF Send

LEMMA SendNothing ==
  ASSUME FramesOK, NEW c, Send(c, <<>>)
  PROVE  up' = up
<1>1. CASE c \in Link
  <2>1. up[c] \in Seq(Frame) /\ up \in [Link -> Seq(Frame)]
    BY <1>1 DEF FramesOK
  <2>2. up[c] \o <<>> = up[c]
    BY <2>1
  <2> QED
    BY <2>1, <2>2 DEF Send
<1>2. CASE c \notin Link
  BY <1>2 DEF FramesOK, Send
<1> QED
  BY <1>1, <1>2

LEMMA SendCounts ==
  ASSUME FramesOK, 1 \in Link, NEW c \in {0, 1}, NEW m \in Frame, Send(c, <<m>>), NEW S
  PROVE  OnWay(up', down, S) <= OnWay(up, down, S) + (IF m \in S THEN 1 ELSE 0)
<1>1. 0 \in Link /\ c \in Link
  BY BoundAssumption DEF Link
<1>2. /\ up[0] \in Seq(Frame) /\ up[1] \in Seq(Frame)
      /\ down[0] \in Seq(Frame) /\ down[1] \in Seq(Frame) /\ up[c] \in Seq(Frame)
  BY <1>1 DEF FramesOK
<1>3. /\ Count(up[0], S) \in Nat /\ Count(up[1], S) \in Nat
      /\ Count(down[0], S) \in Nat /\ Count(down[1], S) \in Nat
  BY <1>2, CountType
<1>4. Count(up'[c], S) <= Count(up[c], S) + (IF m \in S THEN 1 ELSE 0)
  <2>1. Count(up[c], S) \in Nat
    BY <1>2, CountType
  <2>2. CASE up'[c] = up[c]
    BY <2>1, <2>2
  <2>3. CASE up'[c] = Append(up[c], m)
    BY <1>2, <2>1, <2>3, CountAppend
  <2> QED
    BY <1>1, <2>2, <2>3, SendAppends
<1>5. Count(up'[1 - c], S) = Count(up[1 - c], S)
  <2>1. up'[1 - c] = up[1 - c]
    BY <1>1, SendAppends
  <2> QED
    BY <2>1
<1>6. Count(up'[c], S) \in Nat
  <2>1. Append(up[c], m) \in Seq(Frame)
    BY <1>2
  <2>2. up'[c] \in Seq(Frame)
    BY <1>1, <1>2, <2>1, SendAppends
  <2> QED
    BY <2>2, CountType
<1>7. CASE c = 0
  BY <1>3, <1>4, <1>5, <1>6, <1>7 DEF OnWay
<1>8. CASE c = 1
  BY <1>3, <1>4, <1>5, <1>6, <1>8 DEF OnWay
<1> QED
  BY <1>7, <1>8

(* The page takes a frame from its link.                                   *)
LEMMA TakeCounts ==
  ASSUME FramesOK, 1 \in Link, NEW c \in {0, 1}, TakeMessage(c), NEW S
  PROVE  OnWay(up, down, S) = OnWay(up, down', S) + (IF Head(down[c]) \in S THEN 1 ELSE 0)
<1>1. 0 \in Link /\ c \in Link
  BY BoundAssumption DEF Link
<1>2. /\ up[0] \in Seq(Frame) /\ up[1] \in Seq(Frame)
      /\ down[0] \in Seq(Frame) /\ down[1] \in Seq(Frame) /\ down[c] \in Seq(Frame)
  BY <1>1 DEF FramesOK
<1>3. down'[c] = Tail(down[c]) /\ down'[1 - c] = down[1 - c] /\ down[c] # <<>>
  BY <1>1 DEF TakeMessage, FramesOK
<1>4. Tail(down[c]) \in Seq(Frame)
  BY <1>2, <1>3
<1>5. /\ Count(up[0], S) \in Nat /\ Count(up[1], S) \in Nat
      /\ Count(down[0], S) \in Nat /\ Count(down[1], S) \in Nat
      /\ Count(down'[c], S) \in Nat
  BY <1>2, <1>3, <1>4, CountType
<1>6. Count(down[c], S) = Count(down'[c], S) + (IF Head(down[c]) \in S THEN 1 ELSE 0)
  BY <1>2, <1>3, CountTail
<1>7. Count(down'[1 - c], S) = Count(down[1 - c], S)
  BY <1>3
<1>8. CASE c = 0
  BY <1>5, <1>6, <1>7, <1>8 DEF OnWay
<1>9. CASE c = 1
  BY <1>5, <1>6, <1>7, <1>9 DEF OnWay
<1> QED
  BY <1>8, <1>9

(* The hub passes a frame on, or loses it.                                 *)
LEMMA DispatchCounts ==
  ASSUME FramesOK, 1 \in Link, NEW c \in {0, 1}, Dispatch(c), NEW S
  PROVE  OnWay(up', down', S) <= OnWay(up, down, S)
<1> DEFINE m == Head(up[c])
<1>1. 0 \in Link /\ c \in Link /\ 1 - c \in Link
  BY BoundAssumption DEF Link
<1>2. /\ up[0] \in Seq(Frame) /\ up[1] \in Seq(Frame)
      /\ down[0] \in Seq(Frame) /\ down[1] \in Seq(Frame) /\ up[c] \in Seq(Frame)
      /\ down[1 - c] \in Seq(Frame)
  BY <1>1 DEF FramesOK
<1>3. /\ up[c] # <<>> /\ up'[c] = Tail(up[c]) /\ up'[1 - c] = up[1 - c]
      /\ down'[c] = down[c]
      /\ down'[1 - c] = down[1 - c] \/ down'[1 - c] = Append(down[1 - c], m)
  BY <1>1 DEF Dispatch, FramesOK
<1>4. Tail(up[c]) \in Seq(Frame) /\ m \in Frame
  BY <1>2, <1>3
<1> HIDE DEF m
<1>5. /\ Count(up[0], S) \in Nat /\ Count(up[1], S) \in Nat
      /\ Count(down[0], S) \in Nat /\ Count(down[1], S) \in Nat
      /\ Count(up'[c], S) \in Nat /\ Count(down[1 - c], S) \in Nat
  BY <1>2, <1>3, <1>4, CountType
<1>6. Count(up[c], S) = Count(up'[c], S) + (IF m \in S THEN 1 ELSE 0)
  BY <1>2, <1>3, CountTail DEF m
<1>7. /\ Count(down'[1 - c], S) <= Count(down[1 - c], S) + (IF m \in S THEN 1 ELSE 0)
      /\ Count(down'[1 - c], S) \in Nat
  <2>1. CASE down'[1 - c] = down[1 - c]
    BY <1>5, <2>1
  <2>2. CASE down'[1 - c] = Append(down[1 - c], m)
    <3>1. Count(Append(down[1 - c], m), S) = Count(down[1 - c], S) + (IF m \in S THEN 1 ELSE 0)
      BY <1>2, <1>4, CountAppend
    <3> QED
      BY <1>5, <2>2, <3>1
  <2> QED
    BY <1>3, <2>1, <2>2
<1>8. Count(up'[1 - c], S) = Count(up[1 - c], S) /\ Count(down'[c], S) = Count(down[c], S)
  BY <1>3
<1>9. CASE c = 0
  BY <1>5, <1>6, <1>7, <1>8, <1>9 DEF OnWay
<1>10. CASE c = 1
  BY <1>5, <1>6, <1>7, <1>8, <1>10 DEF OnWay
<1> QED
  BY <1>9, <1>10

-----------------------------------------------------------------------------
(* What the pages keep (ViewerProofs, BroadcasterProofs), as it is in the  *)
(* first visit.                                                            *)

ViewerPart ==
  /\ 1 \in V!Connect /\ 1 \in Link /\ mounted
  /\ pcs \in Seq(VP!PeerConnections) /\ peerConnectionRef \in 0..Len(pcs)
  /\ \A j \in DOMAIN pcs : V!Open(pcs[j]) <=> peerConnectionRef = j
  /\ socketRef \in {0, 1} /\ (Watching <=> socketRef = 1)
  /\ peerConnectionRef # 0 => Watching
  /\ socket \in [V!Connect -> {"none", "connecting", "open", "closing", "closed"}]
  /\ \A k \in V!Connect :
       /\ socket[k] # "none" => k = 1
       /\ socket[k] \in {"connecting", "open"} => Watching

BroadcasterPart ==
  /\ bmounted
  /\ bpcs \in Seq(BP!PeerConnections) /\ Len(bpcs) <= MaxPcs
  /\ Serving \in 0..Len(bpcs) /\ conn = [v \in {"viewer"} |-> Serving]
  /\ \A i \in DOMAIN bpcs :
       /\ bpcs[i].owner = "viewer" /\ Offering(bpcs[i])
       /\ B!Open(bpcs[i]) <=> Serving = i
  /\ bsocket[1] \in {"connecting", "open"} => bsocketRef = 1
  /\ bsocket \in [{1} -> {"none", "connecting", "open", "closing", "closed"}]
  /\ bsocketRef \in {0, 1}

LEMMA ViewerFacts == IInv /\ Frugal /\ connects = 1 => ViewerPart
<1> SUFFICES ASSUME IInv, Frugal, connects = 1 PROVE ViewerPart
  OBVIOUS
<1>1. VP!SocketsOK /\ VP!PageOK /\ VP!PeersOK /\ mounted /\ connects = 1
  BY DEF IInv, VP!IInv, Frugal
<1>2. 1 \in V!Connect /\ 1 \in Link
  BY <1>1, BoundAssumption DEF VP!SocketsOK, V!Connect, Link
<1>3. pcs \in Seq(VP!PeerConnections) /\ peerConnectionRef \in 0..Len(pcs)
      /\ \A j \in DOMAIN pcs : V!Open(pcs[j]) <=> peerConnectionRef = j
  BY <1>1 DEF VP!PeersOK, VP!SingleConnection, V!Open, VP!Open
<1>4. socketRef \in {0, 1} /\ (Watching <=> socketRef = 1)
      /\ (peerConnectionRef # 0 => Watching)
  BY <1>1 DEF VP!PageOK, VP!SocketsOK, Watching
<1>5. socket \in [V!Connect -> {"none", "connecting", "open", "closing", "closed"}]
  BY <1>1 DEF VP!SocketsOK, V!Connect, VP!Connect
<1>6. ASSUME NEW k \in V!Connect
      PROVE  (socket[k] # "none" => k = 1)
             /\ (socket[k] \in {"connecting", "open"} => Watching)
  <2>1. k \in VP!Connect /\ k \in 1..MaxConnects
    BY DEF V!Connect, VP!Connect
  <2>2. (socket[k] \in {"connecting", "open"} => k = socketRef)
        /\ (k > 1 => socket[k] = "none")
    BY <1>1, <2>1 DEF VP!SocketsOK
  <2> QED
    BY <1>4, <2>1, <2>2
<1> QED
  BY <1>1, <1>2, <1>3, <1>4, <1>5, <1>6 DEF ViewerPart

LEMMA BroadcasterFacts == IInv /\ Frugal => BroadcasterPart
<1> SUFFICES ASSUME IInv, Frugal PROVE BroadcasterPart
  OBVIOUS
<1>1. /\ BP!PeersOK /\ BP!SocketsOK /\ BP!MediaOK /\ BP!OnceOK /\ bmounted
      /\ \A i \in DOMAIN bpcs : Offering(bpcs[i])
  BY DEF IInv, BP!IInv, Frugal
<1>2. bpcs \in Seq(BP!PeerConnections) /\ Len(bpcs) <= MaxPcs
  BY <1>1 DEF BP!PeersOK
<1>3. Serving \in 0..Len(bpcs) /\ conn = [v \in {"viewer"} |-> Serving]
  BY <1>1 DEF BP!PeersOK, Serving
<1>4. ASSUME NEW i \in DOMAIN bpcs
      PROVE  bpcs[i].owner = "viewer" /\ (B!Open(bpcs[i]) <=> Serving = i)
  <2>1. bpcs[i].owner = "viewer"
    <3>1. bpcs[i] \in BP!PeerConnections
      BY <1>2
    <3> QED
      BY <3>1 DEF BP!PeerConnections
  <2>2. i # 0
    BY <1>2
  <2> QED
    BY <1>1, <2>1, <2>2 DEF BP!PeersOK, BP!ConnectionsTracked, B!Open, BP!Open, Serving
<1>5. /\ bsocketRef \in {0, 1}
      /\ bsocket \in [{1} -> {"none", "connecting", "open", "closing", "closed"}]
      /\ bsocket[1] \in {"connecting", "open"} => bsocketRef = 1
  BY <1>1 DEF BP!SocketsOK, BP!MediaOK, BP!OnceOK, BP!Start
<1> QED
  BY <1>1, <1>2, <1>3, <1>4, <1>5 DEF BroadcasterPart

(* All that is counted is a number.                                        *)
Numbers ==
  /\ Asking \in Nat /\ OnWay(up, down, Requests) \in Nat
  /\ Calling \in Nat /\ Offers \in Nat /\ Handling \in Nat
  /\ Answers \in Nat /\ Settling \in Nat
  /\ Serving # 0 => OnWay(up, down, Misnamed(Serving)) \in Nat
  /\ Calling = 0 => Settling = 0

LEMMA NumbersNow == IInv /\ Frugal /\ FirstVisit => Numbers
<1> SUFFICES ASSUME IInv, Frugal, FirstVisit PROVE Numbers
  OBVIOUS
<1>1. ViewerPart /\ BroadcasterPart /\ FramesOK
  BY ViewerFacts, BroadcasterFacts DEF IInv, FirstVisit
<1>2. ASSUME NEW S PROVE OnWay(up, down, S) \in Nat
  BY <1>1, OnWayType DEF ViewerPart, FramesOK
<1>3. Handling \in Nat
  <2>1. ASSUME peerConnectionRef # 0 PROVE Len(pcs[peerConnectionRef].chain) \in Nat
    <3>1. pcs[peerConnectionRef] \in VP!PeerConnections
      BY <1>1, <2>1 DEF ViewerPart
    <3>2. pcs[peerConnectionRef].chain \in Seq([op : VP!Operations, arg : 1..MaxPcs])
      BY <3>1 DEF VP!PeerConnections
    <3> QED
      BY <3>2
  <2> QED
    BY <2>1 DEF Handling
<1>4. Calling \in Nat /\ Settling \in Nat /\ (Calling = 0 => Settling = 0)
  <2>1. CASE Serving = 0
    BY <2>1 DEF Calling, Settling
  <2>2. CASE Serving # 0
    <3> DEFINE chain == bpcs[Serving].chain
    <3>1. bpcs[Serving] \in BP!PeerConnections
      BY <1>1, <2>2 DEF BroadcasterPart
    <3>2. chain \in Seq([op : BP!Operations, arg : {"viewer"}])
      BY <3>1 DEF BP!PeerConnections
    <3>3. Len(chain) \in Nat /\ (Len(chain) = 0 => chain = <<>>)
      BY <3>2
    <3> HIDE DEF chain
    <3>4. Count(chain, [op : {"setRemoteAnswer"}, arg : {"viewer"}]) \in Nat
      BY <3>2, CountType
    <3> QED
      BY <2>2, <3>3, <3>4, CountEmpty DEF Calling, Settling, chain
  <2> QED
    BY <2>1, <2>2
<1>5. Unopened(socket[1]) \in Nat /\ Unopened(bsocket[1]) \in Nat
  BY DEF Unopened
<1> QED
  BY <1>2, <1>3, <1>4, <1>5 DEF Numbers, Asking, Offers, Answers

LEMMA NumbersNext == IInv' /\ Frugal' /\ FirstVisit' => Numbers'
BY NumbersNow, PTL

-----------------------------------------------------------------------------
(* What the calls do to a connection of the broadcaster.                   *)

OfferOps == {"createOffer", "setLocalOffer", "setRemoteAnswer"}
OfferCalls == [op : OfferOps, arg : {"viewer"}]
AnswerCalls == [op : {"setRemoteAnswer"}, arg : {"viewer"}]

LEMMA ChainOf ==
  ASSUME NEW pc \in BP!PeerConnections
  PROVE  /\ pc.chain \in Seq([op : BP!Operations, arg : {"viewer"}])
         /\ Len(pc.chain) \in Nat
         /\ pc = [owner |-> pc.owner, source |-> pc.source, signaling |-> pc.signaling,
                  connection |-> pc.connection, negotiated |-> pc.negotiated,
                  chain |-> pc.chain]
         /\ pc.negotiated \in BOOLEAN /\ pc.owner = "viewer"
<1>1. pc.chain \in Seq([op : BP!Operations, arg : {"viewer"}])
  BY DEF BP!PeerConnections
<1>2. Len(pc.chain) \in Nat
  BY <1>1
<1> QED
  BY <1>1, <1>2 DEF BP!PeerConnections

LEMMA OfferCallsAreCalls ==
  ASSUME NEW s \in Seq(OfferCalls)
  PROVE  s \in Seq([op : BP!Operations, arg : {"viewer"}])
<1>1. OfferCalls \subseteq [op : BP!Operations, arg : {"viewer"}]
  BY DEF OfferCalls, OfferOps, BP!Operations
<1> QED
  BY <1>1, VP!SeqWiden, NilAssumption, BoundAssumption

(* A call makes the chain longer.                                          *)
LEMMA CallLengthens ==
  ASSUME NEW pc \in BP!PeerConnections, NEW op \in OfferOps
  PROVE  /\ Len(B!Call(pc, op, "viewer").chain) = Len(pc.chain) + 1
         /\ Count(B!Call(pc, op, "viewer").chain, AnswerCalls) =
              Count(pc.chain, AnswerCalls) + (IF op = "setRemoteAnswer" THEN 1 ELSE 0)
         /\ B!Call(pc, op, "viewer").signaling = pc.signaling
         /\ B!Call(pc, op, "viewer").negotiated = pc.negotiated
         /\ B!Open(B!Call(pc, op, "viewer")) <=> B!Open(pc)
         /\ Offering(pc) => Offering(B!Call(pc, op, "viewer"))
<1> DEFINE call == [op |-> op, arg |-> "viewer"]
           chain == Append(pc.chain, call)
<1>1. pc.chain \in Seq([op : BP!Operations, arg : {"viewer"}])
  BY ChainOf
<1>2. call \in [op : BP!Operations, arg : {"viewer"}] /\ call \in OfferCalls
  BY DEF OfferOps, OfferCalls, BP!Operations
<1>3. B!Call(pc, op, "viewer") = [pc EXCEPT !.chain = chain]
  BY DEF B!Call
<1>4. call \in AnswerCalls <=> op = "setRemoteAnswer"
  BY DEF AnswerCalls
<1>5. Len(chain) = Len(pc.chain) + 1
      /\ (pc.chain \in Seq(OfferCalls) => chain \in Seq(OfferCalls))
  BY <1>1, <1>2
<1> HIDE DEF call
<1>6. Count(chain, AnswerCalls) =
        Count(pc.chain, AnswerCalls) + (IF op = "setRemoteAnswer" THEN 1 ELSE 0)
  <2> DEFINE T == [op : BP!Operations, arg : {"viewer"}]
             old == pc.chain
  <2>1. old \in Seq(T) /\ call \in T
    BY <1>1, <1>2
  <2> HIDE DEF T, old
  <2>2. Count(Append(old, call), AnswerCalls) =
          Count(old, AnswerCalls) + (IF call \in AnswerCalls THEN 1 ELSE 0)
    BY <2>1, CountAppend
  <2> QED
    BY <1>4, <2>2 DEF old
<1> HIDE DEF chain
<1>7. /\ [pc EXCEPT !.chain = chain].chain = chain
      /\ [pc EXCEPT !.chain = chain].signaling = pc.signaling
      /\ [pc EXCEPT !.chain = chain].negotiated = pc.negotiated
  BY ChainOf
<1> QED
  BY <1>3, <1>5, <1>6, <1>7 DEF B!Open, Offering, OfferCalls, OfferOps

(* The first call of the chain is taken from it.                           *)
LEMMA ChainTail ==
  ASSUME NEW pc \in BP!PeerConnections, Offering(pc), B!Pending(pc)
  PROVE  /\ B!First(pc).op \in OfferOps /\ B!First(pc).arg = "viewer"
         /\ Tail(pc.chain) \in Seq(OfferCalls)
         /\ Len(Tail(pc.chain)) = Len(pc.chain) - 1 /\ Len(pc.chain) # 0
         /\ Count(pc.chain, AnswerCalls) = Count(Tail(pc.chain), AnswerCalls) +
              (IF B!First(pc).op = "setRemoteAnswer" THEN 1 ELSE 0)
<1>1. pc.chain \in Seq(OfferCalls) /\ pc.chain # <<>>
  BY DEF Offering, B!Pending, OfferCalls, OfferOps
<1>2. Head(pc.chain) \in OfferCalls
  BY <1>1, HeadOfSeq
<1>3. Head(pc.chain).op \in OfferOps /\ Head(pc.chain).arg = "viewer"
      /\ (Head(pc.chain) \in AnswerCalls <=> Head(pc.chain).op = "setRemoteAnswer")
  BY <1>2 DEF OfferCalls, AnswerCalls
<1>4. Count(pc.chain, AnswerCalls) = Count(Tail(pc.chain), AnswerCalls) +
        (IF Head(pc.chain) \in AnswerCalls THEN 1 ELSE 0)
  BY <1>1, CountTail
<1>5. Tail(pc.chain) \in Seq(OfferCalls)
      /\ Len(Tail(pc.chain)) = Len(pc.chain) - 1 /\ Len(pc.chain) # 0
  BY <1>1
<1> QED
  BY <1>3, <1>4, <1>5 DEF B!First

(* What a call that resolves does: setLocalDescription follows             *)
(* createOffer.                                                            *)
LEMMA ResolveOffer ==
  ASSUME NEW pc \in BP!PeerConnections, Offering(pc), B!Resolvable(pc)
  PROVE  LET op == B!First(pc).op
             next == B!Resolve(pc)
         IN  /\ next \in BP!PeerConnections /\ next.owner = "viewer"
             /\ B!Open(next) /\ Offering(next)
             /\ Len(next.chain) = Len(pc.chain) - 1
             /\ Count(pc.chain, AnswerCalls) = Count(next.chain, AnswerCalls) +
                  (IF op = "setRemoteAnswer" THEN 1 ELSE 0)
             /\ op = "createOffer" =>
                  next.signaling = pc.signaling /\ next.negotiated = pc.negotiated
             /\ op = "setLocalOffer" =>
                  next.signaling = "have-local-offer" /\ next.negotiated = pc.negotiated
             /\ op = "setRemoteAnswer" => next.negotiated
<1> DEFINE op == B!First(pc).op
           next == B!Resolve(pc)
           tail == Tail(pc.chain)
           sig == B!After(pc.signaling, op)
           neg == pc.negotiated \/ op \in {"setRemoteAnswer", "setLocalAnswer"}
<1>1. B!Pending(pc) /\ B!Open(pc)
  BY DEF B!Resolvable, B!Pending
<1>2. /\ op \in OfferOps /\ tail \in Seq(OfferCalls) /\ Len(tail) = Len(pc.chain) - 1
      /\ Count(pc.chain, AnswerCalls) =
           Count(tail, AnswerCalls) + (IF op = "setRemoteAnswer" THEN 1 ELSE 0)
  BY <1>1, ChainTail
<1>3. next = [pc EXCEPT !.signaling = sig, !.chain = tail, !.negotiated = neg]
  BY DEF B!Resolve
<1>4. /\ sig \in {"stable", "have-local-offer"}
      /\ op = "createOffer" => sig = pc.signaling
      /\ op = "setLocalOffer" => sig = "have-local-offer"
  BY <1>1, <1>2 DEF Offering, B!After, OfferOps
<1>5. /\ neg \in BOOLEAN
      /\ op \in {"createOffer", "setLocalOffer"} => neg = pc.negotiated
      /\ op = "setRemoteAnswer" => neg
  BY ChainOf
<1> HIDE DEF sig, neg, tail, op
<1>6. /\ next.signaling = sig /\ next.chain = tail /\ next.negotiated = neg
      /\ next.owner = "viewer"
  BY <1>3, ChainOf DEF next
<1>7. next \in BP!PeerConnections
  <2>1. tail \in Seq([op : BP!Operations, arg : {"viewer"}])
    BY <1>2, OfferCallsAreCalls
  <2>2. sig \in BP!Signaling
    BY <1>4 DEF BP!Signaling
  <2> QED
    BY <1>3, <1>5, <2>1, <2>2 DEF BP!PeerConnections, next
<1> HIDE DEF next
<1>8. B!Open(next) /\ Offering(next)
  BY <1>2, <1>4, <1>6 DEF B!Open, Offering, OfferCalls, OfferOps
<1>9. /\ op = "createOffer" =>
           next.signaling = pc.signaling /\ next.negotiated = pc.negotiated
      /\ op = "setLocalOffer" =>
           next.signaling = "have-local-offer" /\ next.negotiated = pc.negotiated
      /\ op = "setRemoteAnswer" => next.negotiated
  BY <1>4, <1>5, <1>6
<1> QED
  BY <1>2, <1>6, <1>7, <1>8, <1>9 DEF op, next

(* A call that cannot resolve is one of setRemoteAnswer, when there is no  *)
(* offer to answer.                                                        *)
LEMMA OnlyAnswersFail ==
  ASSUME NEW pc \in BP!PeerConnections, Offering(pc), B!Pending(pc), ~B!Resolvable(pc)
  PROVE  B!First(pc).op = "setRemoteAnswer" /\ pc.signaling = "stable"
<1>1. B!First(pc).op \in OfferOps /\ pc.signaling \in {"stable", "have-local-offer"}
  BY ChainTail DEF Offering, B!Pending
<1> QED
  BY <1>1 DEF B!Resolvable, B!Accepts, OfferOps

LEMMA AppendFacts ==
  ASSUME NEW T, NEW s \in Seq(T), NEW x
  PROVE  /\ DOMAIN Append(s, x) = 1..(Len(s) + 1) /\ Len(s) \in Nat
         /\ Len(Append(s, x)) = Len(s) + 1
         /\ \A i \in 1..Len(s) : Append(s, x)[i] = s[i]
         /\ Append(s, x)[Len(s) + 1] = x
OBVIOUS

LEMMA CloseFacts ==
  ASSUME NEW pc \in BP!PeerConnections
  PROVE  ~B!Open(B!Close(pc)) /\ Offering(B!Close(pc)) /\ B!Close(pc).chain = <<>>
         /\ B!Close(pc).connection = "closed"
<1>1. B!Close(pc).signaling = "closed" /\ B!Close(pc).chain = <<>>
      /\ B!Close(pc).connection = "closed"
  BY ChainOf DEF B!Close
<1> QED
  BY <1>1 DEF B!Open, Offering

LEMMA RejectOffering ==
  ASSUME NEW pc \in BP!PeerConnections, Offering(pc), B!Pending(pc)
  PROVE  Offering(B!Reject(pc)) /\ B!Reject(pc) \in BP!PeerConnections
         /\ B!Reject(pc).negotiated = pc.negotiated
<1> DEFINE tail == Tail(pc.chain)
<1>1. tail \in Seq(OfferCalls)
  BY ChainTail
<1>2. tail \in Seq([op : BP!Operations, arg : {"viewer"}])
  BY <1>1, OfferCallsAreCalls
<1>3. B!Reject(pc) = [pc EXCEPT !.chain = tail]
  BY DEF B!Reject
<1> HIDE DEF tail
<1>4. B!Reject(pc).chain = tail /\ B!Reject(pc).signaling = pc.signaling
      /\ B!Reject(pc).negotiated = pc.negotiated
  BY <1>3, ChainOf
<1>5. Offering(B!Reject(pc))
  BY <1>1, <1>4 DEF Offering, B!Open, B!Pending, OfferCalls, OfferOps
<1>6. B!Reject(pc) \in BP!PeerConnections
  BY <1>2, <1>3 DEF BP!PeerConnections
<1> QED
  BY <1>4, <1>5, <1>6

LEMMA BecomesOffering ==
  ASSUME NEW pc \in BP!PeerConnections, NEW state
  PROVE  LET next == [pc EXCEPT !.connection = state]
         IN  /\ Offering(pc) => Offering(next)
             /\ next.chain = pc.chain /\ next.signaling = pc.signaling
             /\ next.negotiated = pc.negotiated /\ next.connection = state
             /\ B!Open(next) <=> B!Open(pc)
<1> DEFINE next == [pc EXCEPT !.connection = state]
<1>1. next.chain = pc.chain /\ next.signaling = pc.signaling
      /\ next.negotiated = pc.negotiated /\ next.connection = state
  BY ChainOf
<1> HIDE DEF next
<1>2. (Offering(pc) => Offering(next)) /\ (B!Open(next) <=> B!Open(pc))
  BY <1>1 DEF Offering, B!Open
<1> QED
  BY <1>1, <1>2 DEF next

LEMMA NewFacts ==
  ASSUME NEW stream \in {1}
  PROVE  LET pc == B!New("viewer", stream)
         IN  /\ pc \in BP!PeerConnections /\ Offering(pc) /\ B!Open(pc)
             /\ pc.chain = <<>> /\ ~pc.negotiated /\ pc.signaling = "stable"
BY DEF B!New, BP!PeerConnections, BP!Signaling, BP!ConnectionState, BP!Start, Offering,
   B!Open

(* Every connection of the broadcaster keeps to making offers.             *)
LEMMA OfferingStep ==
  ASSUME BP!IInv, \A i \in DOMAIN bpcs : Offering(bpcs[i]), B!Next
  PROVE  \A i \in DOMAIN bpcs' : Offering(bpcs'[i])
<1>1. /\ bpcs \in Seq(BP!PeerConnections)
      /\ \A i \in DOMAIN bpcs : bpcs[i] \in BP!PeerConnections
      /\ conn["viewer"] \in 0..Len(bpcs) /\ DOMAIN bpcs = 1..Len(bpcs) /\ Len(bpcs) \in Nat
  BY DEF BP!IInv, BP!PeersOK
<1>2. ASSUME B!RemoveViewer(bpcs, "viewer") \/ B!ResetViewers
      PROVE  \A i \in DOMAIN bpcs' : Offering(bpcs'[i])
  <2>1. /\ DOMAIN bpcs' = DOMAIN bpcs
        /\ \A i \in DOMAIN bpcs : bpcs'[i] = bpcs[i] \/ bpcs'[i] = B!Close(bpcs[i])
    BY <1>2 DEF B!RemoveViewer, B!ResetViewers
  <2> QED
    BY <1>1, <2>1, CloseFacts
<1>3. ASSUME B!User, bpcs' # bpcs PROVE B!ResetViewers
  BY <1>3 DEF B!User, B!StartBroadcast, B!Stop, B!Unmount, B!ToggleTrack, B!peerVars
<1>4. ASSUME NEW k \in B!Start, B!Granted(k) \/ B!Denied(k) PROVE bpcs' = bpcs
  BY <1>4 DEF B!Granted, B!Denied, B!peerVars
<1>5. ASSUME NEW k \in B!Start, B!SocketOpen(k) \/ B!SocketClosing(k) \/ B!SocketClosed(k),
             bpcs' # bpcs
      PROVE  B!ResetViewers
  BY <1>5 DEF B!SocketOpen, B!SocketClosing, B!SocketClosed, B!peerVars
<1>6. ASSUME NEW k \in B!Start, B!ViewerReady(k, "viewer")
      PROVE  \A i \in DOMAIN bpcs' : Offering(bpcs'[i])
  <2>1. bstreamRef \in {1}
    BY <1>6 DEF B!ViewerReady, BP!IInv, BP!MediaOK
  <2>2. "createOffer" \in OfferOps
    BY DEF OfferOps
  <2>3. CASE conn["viewer"] # 0
    <3> DEFINE pc == bpcs[conn["viewer"]]
               next == B!Call(pc, "createOffer", "viewer")
    <3>1. bpcs' = [bpcs EXCEPT ![conn["viewer"]] = next]
      BY <1>6, <2>3 DEF B!ViewerReady, B!Existing
    <3>2. pc \in BP!PeerConnections /\ Offering(pc)
      BY <1>1, <2>3
    <3> HIDE DEF pc
    <3>3. Offering(next)
      BY <2>2, <3>2, CallLengthens
    <3> HIDE DEF next
    <3> QED
      BY <1>1, <3>1, <3>3
  <2>4. CASE conn["viewer"] = 0
    <3> DEFINE pc == B!New("viewer", bstreamRef)
               next == B!Call(pc, "createOffer", "viewer")
    <3>1. bpcs' = Append(bpcs, next)
      BY <1>6, <2>4 DEF B!ViewerReady, B!Existing
    <3>2. pc \in BP!PeerConnections /\ Offering(pc)
      BY <2>1, NewFacts
    <3> HIDE DEF pc
    <3>3. Offering(next)
      BY <2>2, <3>2, CallLengthens
    <3> HIDE DEF next
    <3>4. ASSUME NEW i \in DOMAIN bpcs'
        PROVE  bpcs'[i] = next \/ (i \in DOMAIN bpcs /\ bpcs'[i] = bpcs[i])
      <4>1. /\ DOMAIN bpcs' = 1..(Len(bpcs) + 1)
            /\ \A n \in 1..Len(bpcs) : bpcs'[n] = bpcs[n]
            /\ bpcs'[Len(bpcs) + 1] = next
        BY <1>1, <3>1, AppendFacts
      <4>2. i = Len(bpcs) + 1 \/ i \in 1..Len(bpcs)
        BY <1>1, <4>1
      <4> QED
        BY <1>1, <4>1, <4>2
    <3> QED
      BY <1>1, <3>3, <3>4
  <2> QED
    BY <2>3, <2>4
<1>7. ASSUME NEW k \in B!Start, B!AnswerFrom(k, "viewer")
      PROVE  \A i \in DOMAIN bpcs' : Offering(bpcs'[i])
  <2> DEFINE pc == bpcs[conn["viewer"]]
             next == B!Call(pc, "setRemoteAnswer", "viewer")
  <2>1. bpcs' = [bpcs EXCEPT ![conn["viewer"]] = next] /\ conn["viewer"] # 0
    BY <1>7 DEF B!AnswerFrom
  <2>2. pc \in BP!PeerConnections /\ Offering(pc) /\ "setRemoteAnswer" \in OfferOps
    BY <1>1, <2>1 DEF OfferOps
  <2> HIDE DEF pc
  <2>3. Offering(next)
    BY <2>2, CallLengthens
  <2> HIDE DEF next
  <2> QED
    BY <1>1, <2>1, <2>3
<1>8. ASSUME NEW k \in B!Start, B!ViewerLeft(k, "viewer")
      PROVE  \A i \in DOMAIN bpcs' : Offering(bpcs'[i])
  BY <1>2, <1>8 DEF B!ViewerLeft
<1>9. ASSUME NEW i \in DOMAIN bpcs, B!CallResolves(i)
      PROVE  \A n \in DOMAIN bpcs' : Offering(bpcs'[n])
  <2> DEFINE next == B!Resolve(bpcs[i])
             more == B!Call(next, "setLocalOffer", "viewer")
  <2>1. bpcs[i] \in BP!PeerConnections /\ Offering(bpcs[i]) /\ B!Resolvable(bpcs[i])
    BY <1>1, <1>9 DEF B!CallResolves
  <2>2. next \in BP!PeerConnections /\ next.owner = "viewer" /\ Offering(next)
    BY <2>1, ResolveOffer
  <2>3. bpcs' = [bpcs EXCEPT ![i] = more] \/ bpcs' = [bpcs EXCEPT ![i] = next]
    BY <1>9, <2>2 DEF B!CallResolves
  <2> HIDE DEF next
  <2>4. Offering(more)
    BY <2>2, CallLengthens DEF OfferOps
  <2> HIDE DEF more
  <2> QED
    BY <1>1, <2>2, <2>3, <2>4
<1>10. ASSUME NEW i \in DOMAIN bpcs, B!CallRejects(i)
       PROVE  \A n \in DOMAIN bpcs' : Offering(bpcs'[n])
  <2> DEFINE next == B!Reject(bpcs[i])
             ps == [bpcs EXCEPT ![i] = next]
  <2>1. bpcs[i] \in BP!PeerConnections /\ Offering(bpcs[i]) /\ B!Pending(bpcs[i])
    BY <1>1, <1>10 DEF B!CallRejects
  <2>2. next \in BP!PeerConnections /\ Offering(next)
    BY <2>1, RejectOffering
  <2> HIDE DEF next
  <2>3. \A n \in DOMAIN ps : ps[n] \in BP!PeerConnections /\ Offering(ps[n])
    BY <1>1, <2>2
  <2>4. /\ DOMAIN bpcs' = DOMAIN ps
        /\ \A n \in DOMAIN ps : bpcs'[n] = ps[n] \/ bpcs'[n] = B!Close(ps[n])
    BY <1>10 DEF B!CallRejects, B!RemoveViewer, next
  <2> HIDE DEF ps
  <2> QED
    BY <2>3, <2>4, CloseFacts
<1>11. ASSUME NEW i \in DOMAIN bpcs, B!StateChange(i)
       PROVE  \A n \in DOMAIN bpcs' : Offering(bpcs'[n])
  <2>1. bpcs[i] \in BP!PeerConnections /\ bpcs[i].owner = "viewer" /\ Offering(bpcs[i])
    BY <1>1, ChainOf
  <2>2. PICK state \in B!ConnectionState :
          B!RemoveViewer(bpcs, "viewer") \/ bpcs' = [bpcs EXCEPT ![i].connection = state]
    BY <1>11, <2>1 DEF B!StateChange
  <2>3. CASE bpcs' = [bpcs EXCEPT ![i].connection = state]
    <3> DEFINE next == [bpcs[i] EXCEPT !.connection = state]
    <3>1. bpcs' = [bpcs EXCEPT ![i] = next]
      BY <2>3
    <3>2. Offering(next)
      BY <2>1, BecomesOffering
    <3> HIDE DEF next
    <3> QED
      BY <1>1, <3>1, <3>2
  <2> QED
    BY <1>2, <2>2, <2>3
<1>12. CASE bpcs' = bpcs
  BY <1>12
<1> QED
  BY <1>2, <1>3, <1>4, <1>5, <1>6, <1>7, <1>8, <1>9, <1>10, <1>11, <1>12
  DEF B!Next, B!SocketEvent, B!ConnectionEvent

-----------------------------------------------------------------------------
(* What holds of every step.                                               *)

LEMMA StaysMounted ==
  ASSUME Next
  PROVE  /\ mounted' = mounted /\ bmounted' = bmounted
         /\ connects' = connects \/ (Watch /\ connects' = connects + 1)
<1>1. CASE Broadcast \/ StopWatching
  BY <1>1 DEF Broadcast, StopWatching, ViewerOnly, BroadcasterOnly, viewerVars,
     broadcasterVars, B!StartBroadcast, B!Granted, B!Stop, V!Disconnect, B!userVars
<1>0. CASE Watch
  BY <1>0 DEF Watch, ViewerOnly, broadcasterVars, V!ConnectSocket
<1>2. ASSUME NEW c \in Link, Admit(c) \/ Dispatch(c) \/ Evict(c) \/ SocketCloses(c)
      PROVE  UNCHANGED <<mounted, bmounted, connects>>
  BY <1>2 DEF Admit, Dispatch, Evict, SocketCloses, viewerVars, broadcasterVars,
     V!SocketClosing, V!SocketClosed, B!SocketClosed, B!userVars
<1>3. CASE BroadcasterOpens \/ BroadcasterReceives
  BY <1>3 DEF BroadcasterOpens, BroadcasterReceives, BroadcasterOnly, viewerVars,
     broadcasterVars, B!SocketOpen, B!ViewerReady, B!AnswerFrom, B!ViewerLeft, B!userVars
<1>4. ASSUME NEW k \in 1..MaxConnects, ViewerOpens(k) \/ ViewerReceives(k)
      PROVE  UNCHANGED <<mounted, bmounted, connects>>
  BY <1>4 DEF ViewerOpens, ViewerReceives, ViewerOnly, broadcasterVars, V!SocketOpen,
     V!Offer, V!BroadcasterReady
<1>5. ASSUME NEW i \in DOMAIN bpcs,
             BroadcasterCall(i) \/ BroadcasterConnects(i) \/ BroadcasterLoses(i)
      PROVE  UNCHANGED <<mounted, bmounted, connects>>
  BY <1>5 DEF BroadcasterCall, BroadcasterConnects, BroadcasterLoses, BroadcasterOnly,
     viewerVars, B!CallResolves, B!CallRejects, B!StateChange, B!userVars
<1>6. ASSUME NEW j \in DOMAIN pcs, ViewerCall(j) \/ ViewerConnects(j) \/ ViewerLoses(j)
      PROVE  UNCHANGED <<mounted, bmounted, connects>>
  BY <1>6 DEF ViewerCall, ViewerConnects, ViewerLoses, ViewerOnly, broadcasterVars,
     V!CallResolves, V!CallRejects, V!StateChange
<1> QED
  BY <1>0, <1>1, <1>2, <1>3, <1>4, <1>5, <1>6 DEF Next, User, System

(* A send on one link leaves the others alone.                             *)
LEMMA SendElsewhere ==
  ASSUME FramesOK, NEW c, NEW ms, Send(c, ms), NEW d \in Link, d # c
  PROVE  up'[d] = up[d]
BY DEF FramesOK, Send

(* The links of later visits are not in use.                               *)
LEMMA Elsewhere ==
  ASSUME IInv, Frugal, Next, NEW c \in Link, c > connects
  PROVE  up'[c] = <<>> /\ member'[c] = "new"
<1>1. /\ c \in 1..MaxConnects /\ connects \in Nat /\ socketRef \in 0..connects
      /\ FramesOK /\ up[c] = <<>> /\ member[c] = "new" /\ Sock(c) = "none"
      /\ \A k \in 1..MaxConnects : socket[k] # "none" => k # c
      /\ 0 # c
  <2>1. connects \in Nat /\ socketRef \in 0..connects
    BY BoundAssumption DEF IInv, VP!IInv, VP!SocketsOK
  <2>2. c \in 1..MaxConnects /\ c # 0
    BY <2>1, BoundAssumption DEF Link
  <2>3. Sock(c) = "none" /\ socket[c] = "none"
    BY <2>1, <2>2 DEF IInv, VP!IInv, VP!SocketsOK, VP!Connect, Sock
  <2> QED
    BY <2>1, <2>2, <2>3 DEF IInv, Frugal
<1>2. CASE User
  <2>1. UNCHANGED member
    BY <1>2 DEF User, Broadcast, Watch, StopWatching, ViewerOnly, BroadcasterOnly
  <2>2. up' = up \/ Send(socketRef, Farewell)
    BY <1>2 DEF User, Broadcast, Watch, StopWatching
  <2>3. socketRef # c
    BY <1>1
  <2> QED
    BY <1>1, <2>1, <2>2, <2>3, SendElsewhere
<1>3. ASSUME NEW d \in Link, Admit(d) \/ Dispatch(d) \/ Evict(d) \/ SocketCloses(d)
      PROVE  up'[c] = <<>> /\ member'[c] = "new"
  BY <1>1, <1>3 DEF Admit, Dispatch, Evict, SocketCloses, hubVars, FramesOK
<1>4. CASE BroadcasterOpens
  <2>1. UNCHANGED member /\ (up' = up \/ Send(0, Greeting))
    BY <1>4 DEF BroadcasterOpens, BroadcasterOnly
  <2> QED
    BY <1>1, <2>1, SendElsewhere
<1>5. CASE BroadcasterReceives
  BY <1>1, <1>5 DEF BroadcasterReceives, TakeMessage
<1>6. ASSUME NEW k \in 1..MaxConnects, ViewerOpens(k) \/ ViewerReceives(k)
      PROVE  up'[c] = <<>> /\ member'[c] = "new"
  <2>1. k # c
    BY <1>1, <1>6 DEF ViewerOpens, ViewerReceives, V!SocketOpen, V!Offer,
       V!BroadcasterReady, V!Message
  <2>2. /\ UNCHANGED member
        /\ up' = up \/ Send(k, <<Msg("viewer-ready", 0)>>) \/ Send(k, OnReady)
    BY <1>6 DEF ViewerOpens, ViewerReceives, ViewerOnly, TakeMessage
  <2> QED
    BY <1>1, <2>1, <2>2, SendElsewhere
<1>7. ASSUME NEW i \in DOMAIN bpcs,
             BroadcasterCall(i) \/ BroadcasterConnects(i) \/ BroadcasterLoses(i)
      PROVE  up'[c] = <<>> /\ member'[c] = "new"
  <2>1. UNCHANGED member /\ (up' = up \/ Send(0, <<Msg("offer", i)>>))
    BY <1>7 DEF BroadcasterCall, BroadcasterConnects, BroadcasterLoses, BroadcasterOnly
  <2> QED
    BY <1>1, <2>1, SendElsewhere
<1>8. ASSUME NEW j \in DOMAIN pcs, ViewerCall(j) \/ ViewerConnects(j) \/ ViewerLoses(j)
      PROVE  up'[c] = <<>> /\ member'[c] = "new"
  <2>1. /\ UNCHANGED member
        /\ \/ up' = up
           \/ Send(socketRef, Reply(V!First(pcs[j]).arg))
           \/ Send(socketRef, <<Msg("viewer-ready", 0)>>)
    BY <1>8 DEF ViewerCall, ViewerConnects, ViewerLoses, ViewerOnly, Request
  <2>2. socketRef # c
    BY <1>1
  <2> QED
    BY <1>1, <2>1, <2>2, SendElsewhere
<1> QED
  BY <1>2, <1>3, <1>4, <1>5, <1>6, <1>7, <1>8 DEF Next, System

LEMMA FrugalStep ==
  ASSUME IInv, Frugal, [Next]_vars
  PROVE  Frugal'
<1>1. CASE UNCHANGED vars
  BY <1>1 DEF vars, viewerVars, broadcasterVars, hubVars, Frugal, Offering, B!Open
<1>2. CASE Next
  <2>1. mounted' /\ bmounted' /\ connects' \in {connects, connects + 1}
    BY <1>2, StaysMounted DEF Frugal
  <2>2. connects \in Nat
    BY BoundAssumption DEF IInv, VP!IInv, VP!SocketsOK
  <2>3. \A c \in Link : c > connects' => up'[c] = <<>> /\ member'[c] = "new"
    <3> SUFFICES ASSUME NEW c \in Link, c > connects' PROVE up'[c] = <<>> /\ member'[c] = "new"
      OBVIOUS
    <3>1. c > connects
      BY <2>1, <2>2, BoundAssumption DEF Link
    <3> QED
      BY <1>2, <3>1, Elsewhere
  <2>4. \A i \in DOMAIN bpcs' : Offering(bpcs'[i])
    <3>1. CASE B!Next
      BY <3>1, OfferingStep DEF IInv, Frugal
    <3>2. CASE UNCHANGED B!vars
      BY <3>2 DEF B!vars, B!peerVars, Frugal
    <3> QED
      BY <1>2, <3>1, <3>2, BroadcasterStep
  <2>5. \A i \in DOMAIN bpcs' : Offering(bpcs[i])'
    BY <2>4 DEF Offering, B!Open
  <2> QED
    BY <2>1, <2>3, <2>5 DEF Frugal
<1> QED
  BY <1>1, <1>2

(* Before the first visit, the broadcaster's greeting is lost or waits.    *)
LEMMA BeforeStep ==
  ASSUME IInv, Frugal, Before, [Next]_vars
  PROVE  Before'
<1> SUFFICES ASSUME connects' = 0 PROVE Before'
  BY DEF Before
<1>1. CASE UNCHANGED vars
  BY <1>1 DEF vars, viewerVars, broadcasterVars, hubVars, Before
<1>2. CASE Next
  <2>1. connects = 0
    BY <1>2, StaysMounted, BoundAssumption DEF IInv, VP!IInv, VP!SocketsOK
  <2>2. /\ FramesOK /\ 0 \in Link /\ socketRef = 0 /\ pcs = <<>> /\ bpcs = <<>>
        /\ DOMAIN pcs = {} /\ DOMAIN bpcs = {}
        /\ \A k \in 1..MaxConnects : socket[k] = "none"
        /\ \A c \in Link : down[c] = <<>>
        /\ \A c \in Link \ {0} : up[c] = <<>> /\ member[c] = "new"
        /\ up[0] \in Seq(Frame)
        /\ bsocket[1] \in {"none", "connecting"} => up[0] = <<>>
        /\ up[0] = <<>> \/ up[0] = <<Msg("broadcaster-ready", 0)>>
        /\ bsocket \in [{1} -> {"none", "connecting", "open", "closing", "closed"}]
    <3>1. socketRef = 0 /\ \A k \in 1..MaxConnects : socket[k] = "none"
      BY <2>1 DEF IInv, VP!IInv, VP!SocketsOK, VP!Connect
    <3>2. 0 \in Link /\ \A c \in Link \ {0} : c > connects
      BY <2>1, BoundAssumption DEF Link
    <3>3. bsocket \in [{1} -> {"none", "connecting", "open", "closing", "closed"}]
      BY BroadcasterFacts DEF BroadcasterPart
    <3> QED
      BY <2>1, <3>1, <3>2, <3>3 DEF Before, Frugal, IInv, FramesOK
  <2> SUFFICES /\ pcs' = <<>> /\ bpcs' = <<>>
               /\ up'[0] = <<>> \/ up'[0] = <<Msg("broadcaster-ready", 0)>>
               /\ bsocket'[1] \in {"none", "connecting"} => up'[0] = <<>>
               /\ \A c \in Link : down'[c] = <<>>
    BY DEF Before
  <2>3. CASE Broadcast
    <3>1. UNCHANGED <<pcs, up, down>>
      BY <2>3 DEF Broadcast, BroadcasterOnly, viewerVars
    <3>2. bpcs' = <<>>
      BY <2>2, <2>3 DEF Broadcast, B!StartBroadcast, B!Granted, B!Stop, B!peerVars,
         B!ResetViewers
    <3>3. bsocket'[1] \in {"none", "connecting"} => bsocket[1] \in {"none", "connecting"}
      <4>1. CASE B!StartBroadcast
        BY <4>1 DEF B!StartBroadcast, B!socketVars
      <4>2. CASE B!Granted(1)
        BY <4>2 DEF B!Granted, IInv, BP!IInv, BP!SocketsOK, BP!Start
      <4>3. CASE B!Stop
        BY <4>3 DEF B!Stop, B!CloseSocket, B!Start
      <4> QED
        BY <2>3, <4>1, <4>2, <4>3 DEF Broadcast
    <3> QED
      BY <2>2, <3>1, <3>2, <3>3
  <2>4. CASE Watch
    BY <2>1, <2>4 DEF Watch, V!ConnectSocket
  <2>5. CASE StopWatching
    <3>1. Send(socketRef, <<>>)
      BY <2>2, <2>5 DEF StopWatching, Farewell, V!CanSend
    <3>2. up' = up
      BY <2>2, <3>1, SendNothing
    <3> QED
      BY <2>2, <2>5, <3>2 DEF StopWatching, ViewerOnly, broadcasterVars, V!Disconnect,
         V!Cleanup
  <2>6. ASSUME NEW c \in Link, Admit(c)
        PROVE  up'[0] = up[0] /\ UNCHANGED <<pcs, bpcs, down, bsocket>>
    <3>1. c = 0
      BY <2>2, <2>6, BoundAssumption DEF Admit, Sock, Link
    <3> QED
      BY <2>2, <2>6, <3>1 DEF Admit, viewerVars, broadcasterVars, FramesOK
  <2>7. ASSUME NEW c \in Link, Dispatch(c)
        PROVE  up'[0] = <<>> /\ UNCHANGED <<pcs, bpcs>> /\ \A d \in Link : down'[d] = <<>>
    <3>1. c = 0 /\ Tail(up[0]) = <<>>
      <4>1. c = 0 /\ up[0] = <<Msg("broadcaster-ready", 0)>>
        BY <2>2, <2>7 DEF Dispatch
      <4>2. Tail(<<Msg("broadcaster-ready", 0)>>) = <<>>
        OBVIOUS
      <4> QED
        BY <4>1, <4>2
    <3> QED
      BY <2>2, <2>7, <3>1 DEF Dispatch, viewerVars, broadcasterVars, FramesOK
  <2>8. ASSUME NEW c \in Link, Evict(c)
        PROVE  up'[0] = <<>> /\ UNCHANGED <<pcs, bpcs>> /\ \A d \in Link : down'[d] = <<>>
    BY <2>2, <2>8 DEF Evict, viewerVars, broadcasterVars, FramesOK
  <2>9. ASSUME NEW c \in Link, SocketCloses(c)
        PROVE  /\ UNCHANGED <<pcs, up, down>> /\ bpcs' = <<>>
               /\ bsocket'[1] \notin {"none", "connecting"}
    <3>1. c = 0 /\ bsocket[1] = "closing" /\ B!SocketClosed(1) /\ UNCHANGED viewerVars
      <4>1. c # 0 => member[c] # "left" /\ socket[c] # "closing"
        BY <2>2, BoundAssumption DEF Link
      <4> QED
        BY <2>9, <4>1 DEF SocketCloses
    <3>2. bpcs' = <<>>
      BY <2>2, <3>1 DEF B!SocketClosed, B!ResetViewers, B!peerVars, B!Resets
    <3>3. bsocket'[1] = "closed"
      BY <2>2, <3>1 DEF B!SocketClosed
    <3> QED
      BY <2>9, <3>1, <3>2, <3>3 DEF SocketCloses, hubVars, viewerVars
  <2>10. CASE BroadcasterOpens
    <3>1. bsocket[1] = "connecting" /\ bsocket'[1] \in {"open", "closing"}
      BY <2>2, <2>10 DEF BroadcasterOpens, B!SocketOpen
    <3>2. up'[0] = <<>> \/ up'[0] = <<Msg("broadcaster-ready", 0)>>
      <4>1. Msg("broadcaster-ready", 0) \in Frame /\ up[0] = <<>>
        BY <2>2, <3>1, MessageType
      <4>2. Append(up[0], Msg("broadcaster-ready", 0)) = <<Msg("broadcaster-ready", 0)>>
        BY <4>1
      <4> QED
        BY <2>2, <2>10, <4>1, <4>2, SendAppends DEF BroadcasterOpens, Greeting
    <3>3. UNCHANGED <<pcs, bpcs, down>>
      BY <2>10 DEF BroadcasterOpens, BroadcasterOnly, viewerVars, B!SocketOpen, B!peerVars
    <3> QED
      BY <2>2, <3>1, <3>2, <3>3
  <2>11. ~BroadcasterReceives
    BY <2>2 DEF BroadcasterReceives, TakeMessage
  <2>12. ASSUME NEW k \in 1..MaxConnects, ViewerOpens(k) \/ ViewerReceives(k) PROVE FALSE
    BY <2>2, <2>12 DEF ViewerOpens, ViewerReceives, V!SocketOpen, V!Offer,
       V!BroadcasterReady, V!Message
  <2> QED
    BY <1>2, <2>2, <2>3, <2>4, <2>5, <2>6, <2>7, <2>8, <2>9, <2>10, <2>11, <2>12
    DEF Next, User, System
<1> QED
  BY <1>1, <1>2

-----------------------------------------------------------------------------
(* The first visit begins with Watch, and when it is over, it stays over.  *)

LEMMA SocketStaysShut ==
  ASSUME IInv, Next, bsocket[1] \in {"closing", "closed"}
  PROVE  bsocket'[1] \in {"closing", "closed"}
<1>1. /\ media[1] # "asking"
      /\ bsocket \in [{1} -> {"none", "connecting", "open", "closing", "closed"}]
      /\ B!Start = {1} /\ 1 \in BP!Start
  BY DEF IInv, BP!IInv, BP!SocketsOK, BP!Start, B!Start
<1>2. CASE UNCHANGED B!vars
  BY <1>2 DEF B!vars, B!socketVars
<1>3. CASE B!User
  BY <1>1, <1>3 DEF B!User, B!StartBroadcast, B!Stop, B!Unmount, B!ToggleTrack,
     B!CloseSocket, B!socketVars
<1>4. ASSUME NEW k \in B!Start, B!Granted(k) \/ B!Denied(k) \/ B!SocketEvent(k)
      PROVE  bsocket'[1] \in {"closing", "closed"}
  BY <1>1, <1>4 DEF B!Granted, B!Denied, B!SocketEvent, B!SocketOpen, B!SocketClosing,
     B!SocketClosed, B!ViewerReady, B!AnswerFrom, B!ViewerLeft, B!socketVars
<1>5. ASSUME NEW i \in DOMAIN bpcs, B!ConnectionEvent(i)
      PROVE  bsocket'[1] \in {"closing", "closed"}
  BY <1>5 DEF B!ConnectionEvent, B!CallResolves, B!CallRejects, B!StateChange, B!socketVars
<1> QED
  BY <1>2, <1>3, <1>4, <1>5, BroadcasterStep DEF B!Next

(* Once the viewer has left and the broadcaster has heard all, nothing     *)
(* starts again but a further visit.                                       *)
LEMMA StaysOver ==
  ASSUME IInv, Frugal, Next, connects = 1, connects' = 1,
         ~Watching, up[1] = <<>>, down[0] = <<>>
  PROVE  ~Watching' /\ up'[1] = <<>> /\ down'[0] = <<>>
<1>1. /\ ViewerPart /\ FramesOK /\ socketRef = 0 /\ peerConnectionRef = 0
      /\ 0 \in Link /\ 1 \in Link /\ phase = "idle"
      /\ \A c \in Link : c # 0 => up[c] = <<>>
      /\ \A k \in 1..MaxConnects : socket[k] \notin {"connecting", "open"}
      /\ \A j \in DOMAIN pcs : ~V!Open(pcs[j])
  <2>1. ViewerPart /\ FramesOK
    BY ViewerFacts DEF IInv
  <2>2. 0 \in Link /\ \A c \in Link : c = 0 \/ c = 1 \/ c > connects
    BY BoundAssumption DEF Link
  <2>3. peerConnectionRef = 0 /\ DOMAIN pcs = 1..Len(pcs)
    BY <2>1 DEF ViewerPart
  <2> QED
    BY <2>1, <2>2, <2>3 DEF ViewerPart, Frugal, Watching, V!Connect
<1> SUFFICES phase' = "idle" /\ up'[1] = <<>> /\ down'[0] = <<>>
  BY DEF Watching
<1>2. CASE User
  <2>1. CASE Broadcast
    BY <1>1, <2>1 DEF Broadcast, BroadcasterOnly, viewerVars
  <2>2. CASE Watch
    BY <2>2 DEF Watch, V!ConnectSocket
  <2>3. CASE StopWatching
    <3>1. Send(socketRef, <<>>)
      BY <1>1, <2>3 DEF StopWatching, Farewell, V!CanSend
    <3>2. up' = up
      BY <1>1, <3>1, SendNothing
    <3> QED
      BY <1>1, <2>3, <3>2 DEF StopWatching, ViewerOnly, V!Disconnect
  <2> QED
    BY <1>2, <2>1, <2>2, <2>3 DEF User
<1>3. ASSUME NEW c \in Link, Admit(c) \/ Evict(c)
      PROVE  phase' = "idle" /\ up'[1] = <<>> /\ down'[0] = <<>>
  BY <1>1, <1>3 DEF Admit, Evict, viewerVars, FramesOK
<1>4. ASSUME NEW c \in Link, Dispatch(c)
      PROVE  phase' = "idle" /\ up'[1] = <<>> /\ down'[0] = <<>>
  BY <1>1, <1>4 DEF Dispatch, viewerVars, FramesOK
<1>5. ASSUME NEW c \in Link, SocketCloses(c)
      PROVE  phase' = "idle" /\ up'[1] = <<>> /\ down'[0] = <<>>
  BY <1>1, <1>5 DEF SocketCloses, hubVars, viewerVars, V!SocketClosing, V!SocketClosed,
     V!shownVars, V!Set, V!AfterClose
<1>6. CASE BroadcasterOpens
  <2>1. UNCHANGED <<phase, down>> /\ (up' = up \/ Send(0, Greeting))
    BY <1>6 DEF BroadcasterOpens, BroadcasterOnly, viewerVars
  <2> QED
    BY <1>1, <2>1, SendElsewhere
<1>7. ~BroadcasterReceives
  BY DEF BroadcasterReceives, TakeMessage
<1>8. ASSUME NEW k \in 1..MaxConnects, ViewerOpens(k) \/ ViewerReceives(k) PROVE FALSE
  BY <1>1, <1>8 DEF ViewerOpens, ViewerReceives, V!SocketOpen, V!Offer, V!BroadcasterReady,
     V!Message
<1>9. ASSUME NEW i \in DOMAIN bpcs,
             BroadcasterCall(i) \/ BroadcasterConnects(i) \/ BroadcasterLoses(i)
      PROVE  phase' = "idle" /\ up'[1] = <<>> /\ down'[0] = <<>>
  <2>1. UNCHANGED <<phase, down>> /\ (up' = up \/ Send(0, <<Msg("offer", i)>>))
    BY <1>9 DEF BroadcasterCall, BroadcasterConnects, BroadcasterLoses, BroadcasterOnly,
       viewerVars
  <2> QED
    BY <1>1, <2>1, SendElsewhere
<1>10. ASSUME NEW j \in DOMAIN pcs, ViewerCall(j) \/ ViewerConnects(j) \/ ViewerLoses(j)
       PROVE  FALSE
  BY <1>1, <1>10 DEF ViewerCall, ViewerConnects, ViewerLoses, V!CallResolves, V!CallRejects,
     V!StateChange, V!Resolvable, V!Pending, V!MayBecome
<1> QED
  BY <1>2, <1>3, <1>4, <1>5, <1>6, <1>7, <1>8, <1>9, <1>10 DEF Next, System

LEMMA FirstVisitGoesOn ==
  ASSUME IInv, Frugal, Next, connects = 1, FirstVisit'
  PROVE  FirstVisit
BY SocketStaysShut, StaysOver DEF FirstVisit

-----------------------------------------------------------------------------
(* Rounds that go on, end or begin.                                        *)

LEMMA Sums ==
  ASSUME Numbers
  PROVE  /\ Rounds \in Nat /\ Exchanged \in Nat
         /\ Asking <= Rounds /\ Calling <= Rounds /\ Offers <= Rounds
         /\ Handling <= Rounds /\ Answers <= Rounds
         /\ Offers <= Exchanged /\ Handling <= Exchanged /\ Answers <= Exchanged
         /\ Settling <= Exchanged
         /\ Rounds = 0 => Exchanged = 0
         /\ Asking # 0 /\ Rounds <= 1 => Exchanged = 0
<1>1. /\ Asking \in Nat /\ Calling \in Nat /\ Offers \in Nat /\ Handling \in Nat
      /\ Answers \in Nat /\ Settling \in Nat /\ (Calling = 0 => Settling = 0)
  BY DEF Numbers
<1>2. /\ Rounds = Asking + Calling + Offers + Handling + Answers
      /\ Exchanged = Offers + Handling + Answers + Settling
  BY DEF Rounds, Exchanged
<1> QED
  BY <1>1, <1>2

(* The sums of the next state, over numbers.                               *)
LEMMA NextSums ==
  ASSUME Numbers'
  PROVE  \E a, c, o, h, w, s \in Nat :
           /\ a = Asking' /\ c = Calling' /\ o = Offers' /\ h = Handling'
           /\ w = Answers' /\ s = Settling'
           /\ Rounds' = a + c + o + h + w /\ Exchanged' = o + h + w + s
BY DEF Numbers, Rounds, Exchanged

(* Nothing new comes.                                                      *)
LEMMA Fewer ==
  ASSUME Numbers, Numbers',
         Asking' <= Asking, Calling' <= Calling, Offers' <= Offers,
         Handling' <= Handling, Answers' <= Answers, Settling' <= Settling
  PROVE  Rounds' <= Rounds /\ Exchanged' <= Exchanged
<1>1. PICK a, c, o, h, w, s \in Nat :
        /\ a = Asking' /\ c = Calling' /\ o = Offers' /\ h = Handling'
        /\ w = Answers' /\ s = Settling'
        /\ Rounds' = a + c + o + h + w /\ Exchanged' = o + h + w + s
  BY NextSums
<1>2. /\ a <= Asking /\ c <= Calling
      /\ o <= Offers /\ h <= Handling
      /\ w <= Answers /\ s <= Settling
  BY <1>1
<1>3. /\ a + c + o + h + w <= Rounds
      /\ o + h + w + s <= Exchanged
  BY <1>2 DEF Numbers, Rounds, Exchanged
<1> QED
  BY <1>1, <1>3

(* A request becomes a call.                                               *)
LEMMA RequestMoves ==
  ASSUME Numbers, Numbers',
         Asking' + 1 <= Asking, Calling' <= Calling + 1, Offers' <= Offers,
         Handling' <= Handling, Answers' <= Answers, Settling' <= Settling
  PROVE  Rounds' <= Rounds /\ Exchanged' <= Exchanged
<1>1. PICK a, c, o, h, w, s \in Nat :
        /\ a = Asking' /\ c = Calling' /\ o = Offers' /\ h = Handling'
        /\ w = Answers' /\ s = Settling'
        /\ Rounds' = a + c + o + h + w /\ Exchanged' = o + h + w + s
  BY NextSums
<1>2. /\ a + 1 <= Asking /\ c <= Calling + 1
      /\ o <= Offers /\ h <= Handling
      /\ w <= Answers /\ s <= Settling
  BY <1>1
<1>3. /\ a + c + o + h + w <= Rounds
      /\ o + h + w + s <= Exchanged
  BY <1>2 DEF Numbers, Rounds, Exchanged
<1> QED
  BY <1>1, <1>3

(* A call becomes an offer.                                                *)
LEMMA CallMoves ==
  ASSUME Numbers, Numbers',
         Asking' <= Asking, Calling' + 1 <= Calling, Offers' <= Offers + 1,
         Handling' <= Handling, Answers' <= Answers, Settling' <= Settling
  PROVE  Rounds' <= Rounds
<1>1. PICK a, c, o, h, w, s \in Nat :
        /\ a = Asking' /\ c = Calling' /\ o = Offers' /\ h = Handling'
        /\ w = Answers' /\ s = Settling'
        /\ Rounds' = a + c + o + h + w /\ Exchanged' = o + h + w + s
  BY NextSums
<1>2. /\ a <= Asking /\ c + 1 <= Calling
      /\ o <= Offers + 1 /\ h <= Handling
      /\ w <= Answers /\ s <= Settling
  BY <1>1
<1>3. /\ a + c + o + h + w <= Rounds
  BY <1>2 DEF Numbers, Rounds, Exchanged
<1> QED
  BY <1>1, <1>3

(* An offer becomes a call of the viewer.                                  *)
LEMMA OfferMoves ==
  ASSUME Numbers, Numbers',
         Asking' <= Asking, Calling' <= Calling, Offers' + 1 <= Offers,
         Handling' <= Handling + 1, Answers' <= Answers, Settling' <= Settling
  PROVE  Rounds' <= Rounds /\ Exchanged' <= Exchanged
<1>1. PICK a, c, o, h, w, s \in Nat :
        /\ a = Asking' /\ c = Calling' /\ o = Offers' /\ h = Handling'
        /\ w = Answers' /\ s = Settling'
        /\ Rounds' = a + c + o + h + w /\ Exchanged' = o + h + w + s
  BY NextSums
<1>2. /\ a <= Asking /\ c <= Calling
      /\ o + 1 <= Offers /\ h <= Handling + 1
      /\ w <= Answers /\ s <= Settling
  BY <1>1
<1>3. /\ a + c + o + h + w <= Rounds
      /\ o + h + w + s <= Exchanged
  BY <1>2 DEF Numbers, Rounds, Exchanged
<1> QED
  BY <1>1, <1>3

(* A call of the viewer becomes an answer.                                 *)
LEMMA HandlingMoves ==
  ASSUME Numbers, Numbers',
         Asking' <= Asking, Calling' <= Calling, Offers' <= Offers,
         Handling' + 1 <= Handling, Answers' <= Answers + 1, Settling' <= Settling
  PROVE  Rounds' <= Rounds /\ Exchanged' <= Exchanged
<1>1. PICK a, c, o, h, w, s \in Nat :
        /\ a = Asking' /\ c = Calling' /\ o = Offers' /\ h = Handling'
        /\ w = Answers' /\ s = Settling'
        /\ Rounds' = a + c + o + h + w /\ Exchanged' = o + h + w + s
  BY NextSums
<1>2. /\ a <= Asking /\ c <= Calling
      /\ o <= Offers /\ h + 1 <= Handling
      /\ w <= Answers + 1 /\ s <= Settling
  BY <1>1
<1>3. /\ a + c + o + h + w <= Rounds
      /\ o + h + w + s <= Exchanged
  BY <1>2 DEF Numbers, Rounds, Exchanged
<1> QED
  BY <1>1, <1>3

(* An answer becomes a call.                                               *)
LEMMA AnswerMoves ==
  ASSUME Numbers, Numbers',
         Asking' <= Asking, Calling' <= Calling + 1, Offers' <= Offers,
         Handling' <= Handling, Answers' + 1 <= Answers, Settling' <= Settling + 1
  PROVE  Rounds' <= Rounds /\ Exchanged' <= Exchanged
<1>1. PICK a, c, o, h, w, s \in Nat :
        /\ a = Asking' /\ c = Calling' /\ o = Offers' /\ h = Handling'
        /\ w = Answers' /\ s = Settling'
        /\ Rounds' = a + c + o + h + w /\ Exchanged' = o + h + w + s
  BY NextSums
<1>2. /\ a <= Asking /\ c <= Calling + 1
      /\ o <= Offers /\ h <= Handling
      /\ w + 1 <= Answers /\ s <= Settling + 1
  BY <1>1
<1>3. /\ a + c + o + h + w <= Rounds
      /\ o + h + w + s <= Exchanged
  BY <1>2 DEF Numbers, Rounds, Exchanged
<1> QED
  BY <1>1, <1>3

(* A round ends with a call of the broadcaster ...                         *)
LEMMA CallEnds ==
  ASSUME Numbers, Numbers',
         Asking' <= Asking, Calling' + 1 <= Calling, Offers' <= Offers,
         Handling' <= Handling, Answers' <= Answers, Settling' <= Settling
  PROVE  Rounds' + 1 <= Rounds /\ Exchanged' <= Exchanged
<1>1. PICK a, c, o, h, w, s \in Nat :
        /\ a = Asking' /\ c = Calling' /\ o = Offers' /\ h = Handling'
        /\ w = Answers' /\ s = Settling'
        /\ Rounds' = a + c + o + h + w /\ Exchanged' = o + h + w + s
  BY NextSums
<1>2. /\ a <= Asking /\ c + 1 <= Calling
      /\ o <= Offers /\ h <= Handling
      /\ w <= Answers /\ s <= Settling
  BY <1>1
<1>3. /\ a + c + o + h + w + 1 <= Rounds
      /\ o + h + w + s <= Exchanged
  BY <1>2 DEF Numbers, Rounds, Exchanged
<1> QED
  BY <1>1, <1>3

(* ... or with a call of the viewer.                                       *)
LEMMA HandlingEnds ==
  ASSUME Numbers, Numbers',
         Asking' <= Asking, Calling' <= Calling, Offers' <= Offers,
         Handling' + 1 <= Handling, Answers' <= Answers, Settling' <= Settling
  PROVE  Rounds' + 1 <= Rounds /\ Exchanged' <= Exchanged
<1>1. PICK a, c, o, h, w, s \in Nat :
        /\ a = Asking' /\ c = Calling' /\ o = Offers' /\ h = Handling'
        /\ w = Answers' /\ s = Settling'
        /\ Rounds' = a + c + o + h + w /\ Exchanged' = o + h + w + s
  BY NextSums
<1>2. /\ a <= Asking /\ c <= Calling
      /\ o <= Offers /\ h + 1 <= Handling
      /\ w <= Answers /\ s <= Settling
  BY <1>1
<1>3. /\ a + c + o + h + w + 1 <= Rounds
      /\ o + h + w + s <= Exchanged
  BY <1>2 DEF Numbers, Rounds, Exchanged
<1> QED
  BY <1>1, <1>3

(* A new round begins.                                                     *)
LEMMA AsksAgain ==
  ASSUME Numbers, Numbers',
         Asking' <= Asking + 1, Calling' <= Calling, Offers' <= Offers,
         Handling' <= Handling, Answers' <= Answers, Settling' <= Settling
  PROVE  Rounds' <= Rounds + 1 /\ Exchanged' <= Exchanged
<1>1. PICK a, c, o, h, w, s \in Nat :
        /\ a = Asking' /\ c = Calling' /\ o = Offers' /\ h = Handling'
        /\ w = Answers' /\ s = Settling'
        /\ Rounds' = a + c + o + h + w /\ Exchanged' = o + h + w + s
  BY NextSums
<1>2. /\ a <= Asking + 1 /\ c <= Calling
      /\ o <= Offers /\ h <= Handling
      /\ w <= Answers /\ s <= Settling
  BY <1>1
<1>3. /\ a + c + o + h + w <= Rounds + 1
      /\ o + h + w + s <= Exchanged
  BY <1>2 DEF Numbers, Rounds, Exchanged
<1> QED
  BY <1>1, <1>3

LEMMA CountOne ==
  ASSUME NEW S, NEW x
  PROVE  Count(<<x>>, S) = IF x \in S THEN 1 ELSE 0
<1> DEFINE none == <<>>
           T == {x}
<1>1. none \in Seq(T) /\ x \in T
  OBVIOUS
<1>2. Append(none, x) = <<x>>
  OBVIOUS
<1>3. Count(none, S) = 0
  BY CountEmpty
<1> HIDE DEF none, T
<1>4. Count(Append(none, x), S) = Count(none, S) + (IF x \in S THEN 1 ELSE 0)
  BY <1>1, CountAppend
<1> QED
  BY <1>2, <1>3, <1>4

(* Two rounds at most can come: the viewer will ask when its socket opens, *)
(* and when it hears that the broadcaster's has opened.                    *)
LEMMA WatchStarts ==
  ASSUME IInv, Frugal, Before, connects = 0, Next, IInv', Frugal', FirstVisit'
  PROVE  Core'
<1>1. Watch
  BY StaysMounted DEF FirstVisit
<1>2. /\ pcs' = <<>> /\ bpcs' = <<>> /\ up' = up /\ down' = down
      /\ bsocket' = bsocket /\ conn' = conn
      /\ peerConnectionRef' = 0 /\ socket'[1] = "connecting"
      /\ Serving' = 0 /\ Serving = 0
  <2>1. pcs' = pcs /\ peerConnectionRef' = peerConnectionRef
        /\ connects < MaxConnects /\ socket' = [socket EXCEPT ![connects + 1] = "connecting"]
    BY <1>1 DEF Watch, V!ConnectSocket, V!peerVars
  <2>2. pcs = <<>> /\ bpcs = <<>>
    BY DEF Before
  <2>3. peerConnectionRef = 0
    BY <2>2 DEF IInv, VP!IInv, VP!PeersOK
  <2>4. socket'[1] = "connecting"
    BY <2>1, BoundAssumption DEF IInv, VP!IInv, VP!SocketsOK, VP!Connect
  <2>5. Serving = 0
    BY <2>2, BroadcasterFacts DEF BroadcasterPart
  <2> QED
    BY <1>1, <2>1, <2>2, <2>3, <2>4, <2>5 DEF Watch, ViewerOnly, broadcasterVars, Serving
<1>3. /\ up[1] = <<>> /\ down[0] = <<>> /\ down[1] = <<>>
      /\ up[0] = <<>> \/ up[0] = <<Msg("broadcaster-ready", 0)>>
      /\ bsocket[1] \in {"none", "connecting"} => up[0] = <<>>
  <2>1. 1 \in Link /\ 0 \in Link
    BY <1>1, BoundAssumption DEF Watch, V!ConnectSocket, Link
  <2> QED
    BY <2>1 DEF Before, Frugal
<1> DEFINE m == Msg("broadcaster-ready", 0)
<1> HIDE DEF m
<1>4. ASSUME NEW S
      PROVE  /\ OnWay(up', down', S) = Count(up[0], S) /\ Count(up[0], S) \in {0, 1}
             /\ m \notin S => Count(up[0], S) = 0
             /\ up[0] = <<>> => Count(up[0], S) = 0
  <2>1. /\ Count(up[0], S) \in {0, 1}
        /\ m \notin S => Count(up[0], S) = 0
        /\ up[0] = <<>> => Count(up[0], S) = 0
    <3>1. CASE up[0] = <<>>
      BY <3>1, CountEmpty
    <3>2. CASE up[0] = <<m>>
      BY <3>2, CountOne
    <3> QED
      BY <1>3, <3>1, <3>2 DEF m
  <2> QED
    BY <1>2, <1>3, <2>1, CountEmpty DEF OnWay
<1>5. Asking' <= 2 /\ Asking' \in Nat /\ Offers' = 0 /\ Answers' = 0
  <2>1. m \notin Frames({"offer"}) /\ m \notin Frames({"answer"})
    BY DEF m, Msg, Frames
  <2>2. Offers' = 0 /\ Answers' = 0
    BY <1>4, <2>1 DEF Offers, Answers
  <2>3. /\ OnWay(up', down', Requests) \in {0, 1}
        /\ bsocket[1] \in {"none", "connecting"} => OnWay(up', down', Requests) = 0
    BY <1>3, <1>4
  <2> QED
    BY <1>2, <2>2, <2>3 DEF Asking, Unopened
<1>6. Calling' = 0 /\ Handling' = 0 /\ Settling' = 0
  BY <1>2 DEF Calling, Handling, Settling
<1>7. ~Tried' /\ ~Failed' /\ ~Negotiated' /\ DOMAIN up'[1] = {} /\ DOMAIN down'[0] = {}
  <2>1. DOMAIN bpcs' = {} /\ DOMAIN pcs' = {}
    BY <1>2
  <2> QED
    BY <1>2, <1>3, <2>1 DEF Tried, Failed, Negotiated
<1>8. Rounds' <= 2 /\ Exchanged' = 0
  <2>1. Numbers'
    BY NumbersNext
  <2>2. PICK a, c, o, h, w, s \in Nat :
          /\ a = Asking' /\ c = Calling' /\ o = Offers' /\ h = Handling'
          /\ w = Answers' /\ s = Settling'
          /\ Rounds' = a + c + o + h + w /\ Exchanged' = o + h + w + s
    BY <2>1, NextSums
  <2>3. a <= 2 /\ c = 0 /\ o = 0 /\ h = 0 /\ w = 0 /\ s = 0
    BY <1>5, <1>6, <2>2
  <2>4. a + c + o + h + w <= 2 /\ o + h + w + s = 0
    BY <2>3
  <2> QED
    BY <2>2, <2>4
<1> QED
  BY <1>2, <1>5, <1>6, <1>7, <1>8 DEF Core, FewRounds, FreshIsFirst, OneName, LoneIsQuiet,
     CauseFirst, LeftIsLast

-----------------------------------------------------------------------------
(* One page rests while the other moves.                                   *)

LEMMA ViewerRests ==
  ASSUME UNCHANGED viewerVars
  PROVE  /\ pcs' = pcs /\ peerConnectionRef' = peerConnectionRef /\ socket' = socket
         /\ broadcasterRef' = broadcasterRef /\ phase' = phase
         /\ Handling' = Handling /\ (Watching' <=> Watching) /\ (Failed' <=> Failed)
BY DEF viewerVars, Handling, Watching, Failed, V!Open

LEMMA BroadcasterRests ==
  ASSUME UNCHANGED broadcasterVars
  PROVE  /\ bpcs' = bpcs /\ Serving' = Serving /\ bsocket' = bsocket
         /\ Calling' = Calling /\ Settling' = Settling
         /\ (Negotiated' <=> Negotiated) /\ (Fresh' <=> Fresh) /\ (Tried' <=> Tried)
BY DEF broadcasterVars, Serving, Calling, Settling, Negotiated, Fresh, Tried, B!Open

(* The last word of a viewer stays the last.                               *)
LEMMA LeftKept ==
  ASSUME LeftIsLast, Watching' => Watching,
         up'[1] \in {up[1], <<>>}, down'[0] \in {down[0], <<>>}
  PROVE  LeftIsLast'
BY DEF LeftIsLast

LEMMA LeftAppended ==
  ASSUME LeftIsLast, FramesOK, 1 \in Link, Watching,
         NEW m \in Frame, m.type # "viewer-left",
         up'[1] = up[1] \/ up'[1] = Append(up[1], m), down'[0] = down[0]
  PROVE  LeftIsLast'
<1>1. /\ \A i \in DOMAIN up[1] : up[1][i].type # "viewer-left"
      /\ \A i \in DOMAIN down[0] : down[0][i].type # "viewer-left"
  BY DEF LeftIsLast
<1>2. up[1] \in Seq(Frame)
  BY DEF FramesOK
<1>3. \A i \in DOMAIN up'[1] : up'[1][i].type # "viewer-left"
  <2>1. CASE up'[1] = Append(up[1], m)
    <3>1. /\ DOMAIN up'[1] = 1..(Len(up[1]) + 1) /\ Len(up[1]) \in Nat
          /\ \A i \in 1..Len(up[1]) : up'[1][i] = up[1][i]
          /\ up'[1][Len(up[1]) + 1] = m
      BY <1>2, <2>1, AppendFacts
    <3>2. ASSUME NEW i \in DOMAIN up'[1] PROVE i \in 1..Len(up[1]) \/ i = Len(up[1]) + 1
      BY <3>1
    <3> QED
      BY <1>1, <1>2, <3>1, <3>2
  <2> QED
    BY <1>1, <2>1
<1> QED
  BY <1>1, <1>3 DEF LeftIsLast

LEMMA TailFacts ==
  ASSUME NEW T, NEW s \in Seq(T), s # <<>>
  PROVE  /\ Len(s) \in Nat \ {0} /\ DOMAIN s = 1..Len(s) /\ Head(s) = s[1]
         /\ Tail(s) \in Seq(T) /\ DOMAIN Tail(s) = 1..(Len(s) - 1) /\ Len(Tail(s)) = Len(s) - 1
         /\ \A i \in 1..(Len(s) - 1) : Tail(s)[i] = s[i + 1] /\ i + 1 \in DOMAIN s
OBVIOUS

LEMMA NoneLeft ==
  ASSUME NEW T, NEW s \in Seq(T), Len(s) = 0
  PROVE  s = <<>>
OBVIOUS

(* The hub passes it on, when there is nothing behind it.                  *)
LEMMA LeftPassed ==
  ASSUME LeftIsLast, FramesOK, 0 \in Link, 1 \in Link, Dispatch(1), Watching' <=> Watching
  PROVE  LeftIsLast'
<1> DEFINE m == Head(up[1])
<1>1. /\ up[1] \in Seq(Frame) /\ down[0] \in Seq(Frame) /\ up[1] # <<>>
      /\ up'[1] = Tail(up[1])
      /\ down'[0] = down[0] \/ down'[0] = Append(down[0], m)
  BY DEF Dispatch, FramesOK
<1>2. \A i \in DOMAIN down[0] : down[0][i].type # "viewer-left"
  BY <1>1 DEF LeftIsLast
<1>3. /\ Len(up[1]) \in Nat \ {0} /\ DOMAIN up[1] = 1..Len(up[1]) /\ m = up[1][1]
      /\ DOMAIN Tail(up[1]) = 1..(Len(up[1]) - 1) /\ Len(Tail(up[1])) = Len(up[1]) - 1
      /\ \A i \in 1..(Len(up[1]) - 1) : Tail(up[1])[i] = up[1][i + 1] /\ i + 1 \in DOMAIN up[1]
  BY <1>1, TailFacts
<1> HIDE DEF m
<1>4. \A i \in DOMAIN up'[1] :
        up'[1][i].type = "viewer-left" => ~Watching' /\ i = Len(up'[1])
  <2> SUFFICES ASSUME NEW i \in 1..(Len(up[1]) - 1), up[1][i + 1].type = "viewer-left"
               PROVE  ~Watching /\ i = Len(up[1]) - 1
    BY <1>1, <1>3
  <2>1. ~Watching /\ i + 1 = Len(up[1])
    BY <1>3 DEF LeftIsLast
  <2> QED
    BY <1>3, <2>1
<1>5. m.type = "viewer-left" => ~Watching /\ up'[1] = <<>>
  <2> SUFFICES ASSUME m.type = "viewer-left" PROVE ~Watching /\ up'[1] = <<>>
    OBVIOUS
  <2>1. 1 \in DOMAIN up[1] /\ up[1][1].type = "viewer-left"
    BY <1>3
  <2>2. ~Watching /\ Len(up[1]) = 1
    BY <2>1 DEF LeftIsLast
  <2>3. Tail(up[1]) \in Seq(Frame) /\ Len(Tail(up[1])) = 0
    BY <1>1, <1>3, <2>2, TailFacts
  <2>4. Tail(up[1]) = <<>>
    BY <2>3, NoneLeft
  <2> QED
    BY <1>1, <2>2, <2>4
<1>6. \A i \in DOMAIN down'[0] :
        down'[0][i].type = "viewer-left" =>
          ~Watching' /\ i = Len(down'[0]) /\ up'[1] = <<>>
  <2>1. CASE down'[0] = down[0]
    BY <1>2, <2>1
  <2>2. CASE down'[0] = Append(down[0], m)
    <3>1. /\ DOMAIN down'[0] = 1..(Len(down[0]) + 1) /\ Len(down[0]) \in Nat
          /\ \A i \in 1..Len(down[0]) : down'[0][i] = down[0][i]
          /\ down'[0][Len(down[0]) + 1] = m /\ Len(down'[0]) = Len(down[0]) + 1
      BY <1>1, <2>2, AppendFacts
    <3>2. ASSUME NEW i \in DOMAIN down'[0], down'[0][i].type = "viewer-left"
          PROVE  i = Len(down[0]) + 1
      BY <1>1, <1>2, <3>1, <3>2
    <3> QED
      BY <1>5, <3>1, <3>2
  <2> QED
    BY <1>1, <2>1, <2>2
<1> QED
  BY <1>4, <1>6 DEF LeftIsLast

(* A step that begins no round and ends no connection.                     *)
LEMMA CoreKept ==
  ASSUME Core, Numbers, Numbers',
         OneName', CauseFirst', LeftIsLast',
         Rounds' <= Rounds, Tried' => Tried, Failed' => Failed,
         Fresh' \/ bpcs' = <<>> => (Fresh \/ bpcs = <<>>) /\ Exchanged' <= Exchanged,
         peerConnectionRef' # 0 /\ Serving' = 0 => peerConnectionRef # 0 /\ Serving = 0,
         Watching' /\ Negotiated' /\ peerConnectionRef' = 0 =>
           Watching /\ Negotiated /\ peerConnectionRef = 0
  PROVE  Core'
<1>1. Rounds \in Nat /\ Exchanged \in Nat
  BY Sums
<1>2. Rounds' \in Nat /\ Exchanged' \in Nat
  BY NextSums
<1>3. FewRounds'
  BY <1>1, <1>2 DEF Core, FewRounds
<1>4. FreshIsFirst'
  BY <1>1, <1>2 DEF Core, FreshIsFirst
<1>5. LoneIsQuiet'
  BY <1>1, <1>2 DEF Core, LoneIsQuiet
<1> QED
  BY <1>3, <1>4, <1>5 DEF Core

(* No offer and no answer gets a wrong name on its way.                    *)
LEMMA NamesKept ==
  ASSUME OneName, Serving' = Serving, Serving # 0,
         Numbers', OnWay(up', down', Misnamed(Serving)) <= OnWay(up, down, Misnamed(Serving)),
         peerConnectionRef' # 0 =>
           broadcasterRef' = Serving
             /\ pcs'[peerConnectionRef'].chain \in Seq([op : V!Operations, arg : {Serving}])
  PROVE  OneName'
<1>1. OnWay(up, down, Misnamed(Serving)) = 0
  BY DEF OneName
<1>2. OnWay(up', down', Misnamed(Serving)) \in Nat
  BY DEF Numbers
<1>3. OnWay(up', down', Misnamed(Serving)) = 0
  BY <1>1, <1>2
<1>4. OnWay(up', down', Misnamed(Serving')) = 0
  BY <1>3
<1> QED
  BY <1>4 DEF OneName

-----------------------------------------------------------------------------
(* The steps of the first visit, one after the other.                      *)

Stage == IInv /\ Frugal /\ FirstVisit /\ Core

LEMMA StageFacts ==
  ASSUME Stage
  PROVE  /\ ViewerPart /\ BroadcasterPart /\ FramesOK /\ Numbers /\ connects = 1
         /\ 0 \in Link /\ 1 \in Link /\ 1 \in V!Connect
         /\ up[0] \in Seq(Frame) /\ up[1] \in Seq(Frame)
         /\ down[0] \in Seq(Frame) /\ down[1] \in Seq(Frame)
         /\ \A c \in Link : c \in {0, 1} \/ up[c] = <<>>
         /\ FewRounds /\ FreshIsFirst /\ OneName /\ LoneIsQuiet /\ CauseFirst /\ LeftIsLast
<1>1. ViewerPart /\ BroadcasterPart /\ FramesOK /\ Numbers /\ connects = 1
  BY ViewerFacts, BroadcasterFacts, NumbersNow DEF Stage, IInv, FirstVisit
<1>2. 0 \in Link /\ 1 \in Link
  BY <1>1, BoundAssumption DEF ViewerPart, Link
<1>3. \A c \in Link : c \in {0, 1} \/ up[c] = <<>>
  <2>1. \A c \in Link : c \in {0, 1} \/ c > connects
    BY <1>1, BoundAssumption DEF Link
  <2> QED
    BY <2>1 DEF Stage, Frugal
<1> QED
  BY <1>1, <1>2, <1>3 DEF FramesOK, ViewerPart, Stage, Core

(* What is asked for, when some frames and sockets change.                 *)
LEMMA AskingFewer ==
  ASSUME Numbers, Numbers',
         OnWay(up', down', Requests) <= OnWay(up, down, Requests),
         Unopened(socket'[1]) <= Unopened(socket[1]),
         Unopened(bsocket'[1]) <= Unopened(bsocket[1])
  PROVE  Asking' <= Asking
<1>1. OnWay(up', down', Requests) \in Nat /\ OnWay(up, down, Requests) \in Nat
  BY DEF Numbers
<1>2. /\ Unopened(socket'[1]) \in Nat /\ Unopened(bsocket'[1]) \in Nat
      /\ Unopened(socket[1]) \in Nat /\ Unopened(bsocket[1]) \in Nat
  BY DEF Unopened
<1>3. PICK a, b, c \in Nat : a = OnWay(up', down', Requests)
        /\ b = Unopened(socket'[1]) /\ c = Unopened(bsocket'[1])
  BY <1>1, <1>2
<1>4. Asking' = a + b + c
  BY <1>3 DEF Asking
<1>5. a <= OnWay(up, down, Requests) /\ b <= Unopened(socket[1]) /\ c <= Unopened(bsocket[1])
  BY <1>3
<1>6. a + b + c <= Asking
  BY <1>1, <1>2, <1>5 DEF Asking
<1> QED
  BY <1>4, <1>6

LEMMA HubKeeps ==
  ASSUME Stage, Numbers', NEW c \in Link, Admit(c) \/ Dispatch(c) \/ Evict(c)
  PROVE  Core'
<1> USE StageFacts
<1>1. UNCHANGED viewerVars /\ UNCHANGED broadcasterVars
  BY DEF Admit, Dispatch, Evict
<1>2. ASSUME NEW S PROVE OnWay(up', down', S) <= OnWay(up, down, S)
  <2>1. CASE Dispatch(c)
    <3>1. c \in {0, 1}
      BY <2>1 DEF Dispatch
    <3> QED
      BY <2>1, <3>1, DispatchCounts
  <2>2. CASE Admit(c) \/ Evict(c)
    <3>1. \A d \in {0, 1} : up'[d] \in {up[d], <<>>} /\ down'[d] \in {down[d], <<>>}
      BY <2>2 DEF Admit, Evict, FramesOK
    <3> QED
      BY <3>1, OnWayFewer DEF FramesOK
  <2> QED
    BY <2>1, <2>2
<1>3. Asking' <= Asking /\ Offers' <= Offers /\ Answers' <= Answers
  <2>1. /\ Unopened(socket'[1]) <= Unopened(socket[1])
        /\ Unopened(bsocket'[1]) <= Unopened(bsocket[1])
    BY <1>1, ViewerRests, BroadcasterRests DEF Unopened
  <2> QED
    BY <1>2, <2>1, AskingFewer DEF Offers, Answers
<1>4. Rounds' <= Rounds /\ Exchanged' <= Exchanged
  <2>1. Calling' <= Calling /\ Handling' <= Handling /\ Settling' <= Settling
    BY <1>1, ViewerRests, BroadcasterRests DEF Numbers
  <2> QED
    BY <1>3, <2>1, Fewer
<1>5. OneName'
  <2>1. CASE Serving = 0
    BY <1>1, <2>1, BroadcasterRests DEF OneName
  <2>2. CASE Serving # 0
    BY <1>1, <1>2, <2>2, NamesKept, ViewerRests, BroadcasterRests DEF OneName
  <2> QED
    BY <2>1, <2>2
<1>6. CauseFirst'
  BY <1>1, <1>3, ViewerRests, BroadcasterRests DEF CauseFirst, Numbers
<1>7. LeftIsLast'
  <2>1. CASE Admit(c) \/ Evict(c)
    <3>1. up'[1] \in {up[1], <<>>} /\ down'[0] \in {down[0], <<>>}
      BY <2>1 DEF Admit, Evict, FramesOK
    <3> QED
      BY <1>1, <3>1, ViewerRests, LeftKept
  <2>2. CASE Dispatch(0)
    <3>1. up'[1] = up[1] /\ down'[0] = down[0]
      BY <2>2 DEF Dispatch, FramesOK
    <3> QED
      BY <1>1, <3>1, ViewerRests, LeftKept
  <2>3. CASE Dispatch(1)
    BY <1>1, <2>3, LeftPassed, ViewerRests
  <2> QED
    BY <2>1, <2>2, <2>3 DEF Dispatch
<1> QED
  BY <1>1, <1>4, <1>5, <1>6, <1>7, CoreKept, ViewerRests, BroadcasterRests DEF Stage

(* The connections of both pages stay as they are.                         *)
LEMMA PagesRest ==
  ASSUME Stage, Numbers', LeftIsLast',
         bpcs' = bpcs, Serving' = Serving, pcs' = pcs,
         peerConnectionRef' = peerConnectionRef, broadcasterRef' = broadcasterRef,
         Watching' <=> Watching,
         Asking' <= Asking, Offers' <= Offers, Answers' <= Answers,
         Serving # 0 =>
           OnWay(up', down', Misnamed(Serving)) <= OnWay(up, down, Misnamed(Serving)),
         bpcs # <<>> => bsocket'[1] \notin {"none", "connecting"}
  PROVE  Core'
<1> USE StageFacts
<1>1. /\ Calling' = Calling /\ Settling' = Settling /\ Handling' = Handling
      /\ (Negotiated' <=> Negotiated) /\ (Fresh' <=> Fresh) /\ (Tried' <=> Tried)
      /\ (Failed' <=> Failed)
  BY DEF Calling, Settling, Handling, Negotiated, Fresh, Tried, Failed, B!Open, V!Open
<1>2. Rounds' <= Rounds /\ Exchanged' <= Exchanged
  BY <1>1, Fewer DEF Numbers
<1>3. OneName'
  <2>1. CASE Serving = 0
    BY <2>1 DEF OneName
  <2>2. CASE Serving # 0
    BY <2>2, NamesKept DEF OneName
  <2> QED
    BY <2>1, <2>2
<1>4. CauseFirst'
  BY <1>1 DEF CauseFirst, Numbers
<1> QED
  BY <1>1, <1>2, <1>3, <1>4, CoreKept DEF Stage

LEMMA BroadcastKeeps ==
  ASSUME Stage, Numbers', FirstVisit', Broadcast
  PROVE  Core'
<1> USE StageFacts
<1>1. UNCHANGED viewerVars /\ up' = up /\ down' = down
  BY DEF Broadcast, BroadcasterOnly
<1>2. /\ bpcs' = bpcs /\ Serving' = Serving
      /\ Unopened(bsocket'[1]) <= Unopened(bsocket[1])
      /\ bpcs # <<>> => bsocket'[1] \notin {"none", "connecting"}
  <2>1. CASE B!StartBroadcast
    BY <2>1 DEF B!StartBroadcast, B!socketVars, B!peerVars, CauseFirst, Serving, Unopened
  <2>2. CASE B!Granted(1)
    <3>1. bsocket[1] = "none" /\ bsocket'[1] = "connecting"
      BY <2>2 DEF B!Granted, Stage, IInv, BP!IInv, BP!SocketsOK, BP!Start
    <3> QED
      BY <2>2, <3>1 DEF B!Granted, B!peerVars, CauseFirst, Serving, Unopened
  <2>3. CASE B!Stop
    <3>1. bsocket[1] = "none"
      <4>1. bsocket[1] \in {"connecting", "open"} => bsocket'[1] = "closing"
        BY <2>3 DEF B!Stop, B!CloseSocket, B!Start, BroadcasterPart
      <4> QED
        BY <4>1 DEF BroadcasterPart, FirstVisit, Stage
    <3>2. bpcs = <<>> /\ Serving = 0
      BY <3>1 DEF CauseFirst, BroadcasterPart
    <3>3. bpcs' = <<>> /\ Serving' = 0 /\ bsocket'[1] = "none"
      BY <2>3, <3>1, <3>2 DEF B!Stop, B!ResetViewers, B!CloseSocket, B!Start, B!NoConn, Serving
    <3> QED
      BY <3>1, <3>2, <3>3 DEF Unopened
  <2> QED
    BY <2>1, <2>2, <2>3 DEF Broadcast
<1>3. OnWay(up', down', Requests) = OnWay(up, down, Requests)
      /\ Offers' = Offers /\ Answers' = Answers
  BY <1>1 DEF Offers, Answers
<1>4. Asking' <= Asking
  <2>1. Unopened(socket'[1]) <= Unopened(socket[1])
    BY <1>1, ViewerRests DEF Unopened
  <2> QED
    BY <1>2, <1>3, <2>1, AskingFewer DEF Numbers
<1>5. LeftIsLast'
  BY <1>1, ViewerRests, LeftKept
<1>6. Serving # 0 =>
        OnWay(up', down', Misnamed(Serving)) <= OnWay(up, down, Misnamed(Serving))
  BY <1>1 DEF Numbers
<1> QED
  BY <1>1, <1>2, <1>3, <1>4, <1>5, <1>6, PagesRest, ViewerRests DEF Numbers

(* A message that is no offer and no answer, sent on one of the links.     *)
LEMMA RequestSent ==
  ASSUME Stage, Numbers', NEW c \in {0, 1}, NEW m \in Requests, Send(c, <<m>>), down' = down
  PROVE  /\ OnWay(up', down', Requests) <= OnWay(up, down, Requests) + 1
         /\ Offers' <= Offers /\ Answers' <= Answers
         /\ \A n : OnWay(up', down', Misnamed(n)) <= OnWay(up, down, Misnamed(n))
<1> USE StageFacts
<1>1. /\ m \in Frame /\ m \notin Frames({"offer"}) /\ m \notin Frames({"answer"})
      /\ \A n : m \notin Misnamed(n)
  BY DEF Requests, Frames, Misnamed
<1>2. ASSUME NEW S
      PROVE  OnWay(up', down', S) <= OnWay(up, down, S) + (IF m \in S THEN 1 ELSE 0)
  BY <1>1, SendCounts
<1>3. ASSUME NEW S, m \notin S
      PROVE  OnWay(up', down', S) <= OnWay(up, down, S)
  <2>1. OnWay(up, down, S) \in Nat
    BY OnWayType DEF FramesOK
  <2> QED
    BY <1>2, <1>3, <2>1
<1>4. Offers' <= Offers /\ Answers' <= Answers
  BY <1>1, <1>3 DEF Offers, Answers
<1> QED
  BY <1>1, <1>2, <1>3, <1>4

LEMMA RequestsAre ==
  Msg("viewer-ready", 0) \in Requests /\ Msg("broadcaster-ready", 0) \in Requests
BY MessageType DEF Requests, Frames, Msg

(* The request that a socket owes when it opens.                           *)
LEMMA OpensKeep ==
  ASSUME Stage, Numbers', BroadcasterOpens \/ ViewerOpens(1)
  PROVE  Core'
<1> USE StageFacts
<1>1. CASE BroadcasterOpens
  <2>1. UNCHANGED viewerVars /\ down' = down /\ bpcs' = bpcs /\ Serving' = Serving
        /\ bsocket[1] = "connecting" /\ bsocket'[1] \in {"open", "closing"}
        /\ (up' = up \/ Send(0, <<Msg("broadcaster-ready", 0)>>))
    BY <1>1 DEF BroadcasterOpens, BroadcasterOnly, B!SocketOpen, B!peerVars, Serving,
       BroadcasterPart, Greeting
  <2>2. /\ OnWay(up', down', Requests) <= OnWay(up, down, Requests) + 1
        /\ Offers' <= Offers /\ Answers' <= Answers
        /\ Serving # 0 =>
             OnWay(up', down', Misnamed(Serving)) <= OnWay(up, down, Misnamed(Serving))
    <3>1. CASE up' = up
      BY <2>1, <3>1 DEF Numbers, Offers, Answers
    <3>2. CASE Send(0, <<Msg("broadcaster-ready", 0)>>)
      BY <2>1, <3>2, RequestSent, RequestsAre
    <3> QED
      BY <2>1, <3>1, <3>2
  <2>3. Asking' <= Asking
    <3>1. PICK a \in Nat : a = OnWay(up', down', Requests)
      BY DEF Numbers
    <3>2. Asking' = a + Unopened(socket[1]) + 0
      BY <2>1, <3>1, ViewerRests DEF Asking, Unopened
    <3>3. Asking = OnWay(up, down, Requests) + Unopened(socket[1]) + 1
      BY <2>1 DEF Asking, Unopened
    <3>4. a <= OnWay(up, down, Requests) + 1
      BY <2>2, <3>1
    <3>5. Unopened(socket[1]) \in Nat /\ OnWay(up, down, Requests) \in Nat
      BY DEF Unopened, Numbers
    <3>6. a + Unopened(socket[1]) + 0 <= OnWay(up, down, Requests) + Unopened(socket[1]) + 1
      BY <3>4, <3>5
    <3> QED
      BY <3>2, <3>3, <3>6
  <2>4. LeftIsLast'
    <3>1. up'[1] = up[1]
      BY <2>1, SendElsewhere
    <3> QED
      BY <2>1, <3>1, ViewerRests, LeftKept
  <2> QED
    BY <2>1, <2>2, <2>3, <2>4, PagesRest, ViewerRests
<1>2. CASE ViewerOpens(1)
  <2>1. UNCHANGED broadcasterVars /\ down' = down /\ pcs' = pcs
        /\ peerConnectionRef' = peerConnectionRef /\ broadcasterRef' = broadcasterRef
        /\ Watching /\ Watching'
        /\ socket[1] = "connecting" /\ socket'[1] = "open"
        /\ (up' = up \/ Send(1, <<Msg("viewer-ready", 0)>>))
    BY <1>2 DEF ViewerOpens, ViewerOnly, V!SocketOpen, V!peerVars, V!Set, Watching,
       ViewerPart
  <2>2. /\ OnWay(up', down', Requests) <= OnWay(up, down, Requests) + 1
        /\ Offers' <= Offers /\ Answers' <= Answers
        /\ Serving # 0 =>
             OnWay(up', down', Misnamed(Serving)) <= OnWay(up, down, Misnamed(Serving))
    <3>1. CASE up' = up
      BY <2>1, <3>1 DEF Numbers, Offers, Answers
    <3>2. CASE Send(1, <<Msg("viewer-ready", 0)>>)
      BY <2>1, <3>2, RequestSent, RequestsAre
    <3> QED
      BY <2>1, <3>1, <3>2
  <2>3. Asking' <= Asking
    <3>1. PICK a \in Nat : a = OnWay(up', down', Requests)
      BY DEF Numbers
    <3>2. Asking' = a + 0 + Unopened(bsocket[1])
      BY <2>1, <3>1, BroadcasterRests DEF Asking, Unopened
    <3>3. Asking = OnWay(up, down, Requests) + 1 + Unopened(bsocket[1])
      BY <2>1 DEF Asking, Unopened
    <3>4. a <= OnWay(up, down, Requests) + 1
      BY <2>2, <3>1
    <3>5. Unopened(bsocket[1]) \in Nat /\ OnWay(up, down, Requests) \in Nat
      BY DEF Unopened, Numbers
    <3>6. a + 0 + Unopened(bsocket[1]) <= OnWay(up, down, Requests) + 1 + Unopened(bsocket[1])
      BY <3>4, <3>5
    <3> QED
      BY <3>2, <3>3, <3>6
  <2>4. LeftIsLast'
    <3> DEFINE m == Msg("viewer-ready", 0)
    <3>1. m \in Frame /\ m.type # "viewer-left"
      BY MessageType DEF Msg
    <3> HIDE DEF m
    <3>2. up'[1] = up[1] \/ up'[1] = Append(up[1], m)
      BY <2>1, <3>1, SendAppends DEF m
    <3> QED
      BY <2>1, <3>1, <3>2, LeftAppended
  <2>5. bpcs # <<>> => bsocket'[1] \notin {"none", "connecting"}
    BY <2>1, BroadcasterRests DEF CauseFirst
  <2> QED
    BY <2>1, <2>2, <2>3, <2>4, <2>5, PagesRest, BroadcasterRests
<1> QED
  BY <1>1, <1>2
(* The viewer stops watching, or its socket is closed.                     *)
LEMMA PageLeaves ==
  ASSUME Stage, Numbers', LeftIsLast', UNCHANGED broadcasterVars,
         ~Watching', peerConnectionRef' = 0, pcs = <<>> <=> pcs' = <<>>,
         Asking' <= Asking, Offers' <= Offers, Answers' <= Answers,
         \A n : OnWay(up', down', Misnamed(n)) <= OnWay(up, down, Misnamed(n))
  PROVE  Core'
<1> USE StageFacts
<1>1. Handling' <= Handling
  BY DEF Handling, Numbers
<1>2. Calling' <= Calling /\ Settling' <= Settling
  BY BroadcasterRests DEF Numbers
<1>3. Rounds' <= Rounds /\ Exchanged' <= Exchanged
  BY <1>1, <1>2, Fewer
<1>4. OneName'
  <2>1. CASE Serving = 0
    BY <2>1, BroadcasterRests DEF OneName
  <2>2. CASE Serving # 0
    BY <2>2, NamesKept, BroadcasterRests
  <2> QED
    BY <2>1, <2>2
<1>5. CauseFirst'
  BY <1>2, BroadcasterRests DEF CauseFirst, Numbers
<1>6. ~Failed'
  BY DEF Failed
<1> QED
  BY <1>3, <1>4, <1>5, <1>6, CoreKept, BroadcasterRests DEF Stage

(* cleanupPeerConnection, when the page leaves.                            *)
LEMMA CleanupEmpty ==
  ASSUME NEW state, V!Cleanup(pcs, state), ViewerPart
  PROVE  peerConnectionRef' = 0 /\ (pcs = <<>> <=> pcs' = <<>>)
<1>1. /\ peerConnectionRef' = 0 /\ DOMAIN pcs' = DOMAIN pcs
      /\ pcs' = [i \in DOMAIN pcs |->
                   IF i = peerConnectionRef THEN V!Ended(pcs[i]) ELSE pcs[i]]
  BY DEF V!Cleanup
<1>2. CASE pcs = <<>>
  BY <1>1, <1>2
<1>3. CASE pcs # <<>>
  <2>1. 1 \in DOMAIN pcs
    BY <1>3 DEF ViewerPart
  <2> QED
    BY <1>1, <1>3, <2>1
<1> QED
  BY <1>1, <1>2, <1>3

LEMMA StopKeeps ==
  ASSUME Stage, Numbers', StopWatching
  PROVE  Core'
<1> USE StageFacts
<1> DEFINE m == Msg("viewer-left", 0)
<1>1. UNCHANGED broadcasterVars /\ down' = down /\ ~Watching'
      /\ (Watching' => Watching)
  BY DEF StopWatching, ViewerOnly, V!Disconnect, Watching
<1>2. peerConnectionRef' = 0 /\ (pcs = <<>> <=> pcs' = <<>>)
  BY CleanupEmpty DEF StopWatching, V!Disconnect
<1>3. Unopened(socket'[1]) <= Unopened(socket[1])
  BY DEF StopWatching, V!Disconnect, V!CloseSocket, V!Connect, Unopened
<1>4. /\ m \in Frame /\ m.type = "viewer-left"
      /\ m \notin Requests /\ m \notin Frames({"offer"}) /\ m \notin Frames({"answer"})
      /\ \A n : m \notin Misnamed(n)
  BY MessageType DEF Msg, Requests, Frames, Misnamed
<1>5. up' = up \/ (Watching /\ Send(1, <<m>>))
  <2>1. CASE V!CanSend
    BY <2>1 DEF StopWatching, Farewell, V!CanSend, ViewerPart
  <2>2. CASE ~V!CanSend
    BY <2>2, SendNothing DEF StopWatching, Farewell
  <2> QED
    BY <2>1, <2>2
<1> HIDE DEF m
<1>6. ASSUME NEW S, m \notin S
      PROVE  OnWay(up', down', S) <= OnWay(up, down, S)
  <2>1. OnWay(up, down, S) \in Nat
    BY OnWayType DEF FramesOK
  <2>2. CASE up' = up
    BY <1>1, <2>1, <2>2
  <2>3. CASE Send(1, <<m>>)
    <3>1. OnWay(up', down, S) <= OnWay(up, down, S) + (IF m \in S THEN 1 ELSE 0)
      BY <1>4, <2>3, SendCounts
    <3> QED
      BY <1>1, <1>6, <2>1, <3>1
  <2> QED
    BY <1>5, <2>2, <2>3
<1>7. /\ Asking' <= Asking /\ Offers' <= Offers /\ Answers' <= Answers
      /\ \A n : OnWay(up', down', Misnamed(n)) <= OnWay(up, down, Misnamed(n))
  <2>1. Unopened(bsocket'[1]) <= Unopened(bsocket[1])
    BY <1>1, BroadcasterRests DEF Unopened
  <2>2. OnWay(up', down', Requests) <= OnWay(up, down, Requests)
    BY <1>4, <1>6
  <2>3. Asking' <= Asking
    BY <1>3, <2>1, <2>2, AskingFewer
  <2> QED
    BY <1>4, <1>6, <2>3 DEF Offers, Answers
<1>8. LeftIsLast'
  <2>1. CASE up' = up
    BY <1>1, <2>1, LeftKept
  <2>2. CASE Watching /\ Send(1, <<m>>)
    <3>1. /\ \A i \in DOMAIN up[1] : up[1][i].type # "viewer-left"
          /\ \A i \in DOMAIN down[0] : down[0][i].type # "viewer-left"
      BY <2>2 DEF LeftIsLast
    <3>2. up'[1] = up[1] \/ up'[1] = Append(up[1], m)
      BY <1>4, <2>2, SendAppends
    <3>3. CASE up'[1] = up[1]
      BY <1>1, <3>1, <3>3 DEF LeftIsLast
    <3>4. CASE up'[1] = Append(up[1], m)
      <4>1. /\ DOMAIN up'[1] = 1..(Len(up[1]) + 1) /\ Len(up[1]) \in Nat
            /\ \A i \in 1..Len(up[1]) : up'[1][i] = up[1][i]
            /\ Len(up'[1]) = Len(up[1]) + 1
        BY <3>4, AppendFacts
      <4>2. ASSUME NEW i \in DOMAIN up'[1], up'[1][i].type = "viewer-left"
            PROVE  i = Len(up'[1])
        BY <3>1, <4>1, <4>2
      <4> QED
        BY <1>1, <3>1, <4>2 DEF LeftIsLast
    <3> QED
      BY <3>2, <3>3, <3>4
  <2> QED
    BY <1>5, <2>1, <2>2
<1> QED
  BY <1>1, <1>2, <1>7, <1>8, PageLeaves

LEMMA ClosingKeeps ==
  ASSUME Stage, Numbers', NEW c \in Link, SocketCloses(c)
  PROVE  Core'
<1> USE StageFacts
<1>1. up' = up /\ down' = down
  BY DEF SocketCloses, hubVars
<1>2. c = 1 /\ UNCHANGED broadcasterVars
      /\ (V!SocketClosing(1) \/ V!SocketClosed(1))
  <2>1. ~(c = 0 /\ bsocket[1] = "closing")
    BY DEF Stage, FirstVisit
  <2>2. c # 0 => c \in V!Connect
    BY BoundAssumption DEF Link, V!Connect
  <2>3. UNCHANGED broadcasterVars /\ c # 0 /\ (V!SocketClosing(c) \/ V!SocketClosed(c))
    BY <2>1 DEF SocketCloses
  <2>4. socket[c] # "none"
    BY <2>3 DEF V!SocketClosing, V!SocketClosed
  <2> QED
    BY <2>2, <2>3, <2>4 DEF ViewerPart
<1>3. /\ Asking' <= Asking /\ Offers' <= Offers /\ Answers' <= Answers
      /\ \A n : OnWay(up', down', Misnamed(n)) <= OnWay(up, down, Misnamed(n))
  <2>1. ASSUME NEW S PROVE OnWay(up', down', S) <= OnWay(up, down, S)
    <3>1. OnWay(up, down, S) \in Nat
      BY OnWayType DEF FramesOK
    <3> QED
      BY <1>1, <3>1
  <2>2. Unopened(bsocket'[1]) <= Unopened(bsocket[1])
    BY <1>2, BroadcasterRests DEF Unopened
  <2>3. socket'[1] \in {"closing", "closed"}
    BY <1>2 DEF V!SocketClosing, V!SocketClosed, ViewerPart
  <2>4. Unopened(socket'[1]) <= Unopened(socket[1])
    BY <2>3 DEF Unopened
  <2>5. Asking' <= Asking
    BY <2>1, <2>2, <2>4, AskingFewer
  <2> QED
    BY <2>1, <2>5 DEF Offers, Answers
<1>4. CASE UNCHANGED <<phase, pcs, peerConnectionRef, broadcasterRef>>
  <2>1. Watching' <=> Watching
    BY <1>4 DEF Watching
  <2>2. LeftIsLast'
    BY <1>1, <2>1, LeftKept
  <2>3. bpcs # <<>> => bsocket'[1] \notin {"none", "connecting"}
    BY <1>2, BroadcasterRests DEF CauseFirst
  <2> QED
    BY <1>2, <1>3, <1>4, <2>1, <2>2, <2>3, PagesRest, BroadcasterRests
<1>5. CASE V!Cleanup(pcs, connectionState) /\ phase' = "idle"
  <2>1. ~Watching'
    BY <1>5 DEF Watching
  <2>2. LeftIsLast'
    BY <1>1, <2>1, LeftKept
  <2> QED
    BY <1>2, <1>3, <1>5, <2>1, <2>2, PageLeaves, CleanupEmpty
<1> QED
  BY <1>2, <1>4, <1>5 DEF V!SocketClosing, V!SocketClosed, V!shownVars, V!peerVars,
     V!Set, V!AfterClose, ViewerPart
-----------------------------------------------------------------------------
(* What reaches the broadcaster.                                           *)

LEMMA CountNone ==
  ASSUME NEW s, NEW S, \A i \in DOMAIN s : s[i] \notin S
  PROVE  Count(s, S) = 0
<1>1. {i \in DOMAIN s : s[i] \in S} = {}
  OBVIOUS
<1> QED
  BY <1>1, FS_EmptySet DEF Count

(* Without offers and answers, none has a wrong name.                      *)
LEMMA NoNames ==
  ASSUME FramesOK, 0 \in Link, 1 \in Link, Offers = 0, Answers = 0, NEW n
  PROVE  OnWay(up, down, Misnamed(n)) = 0
<1>1. /\ up[0] \in Seq(Frame) /\ up[1] \in Seq(Frame)
      /\ down[0] \in Seq(Frame) /\ down[1] \in Seq(Frame)
  BY DEF FramesOK
<1>2. ASSUME NEW s \in Seq(Frame), Count(s, Frames({"offer"})) = 0,
             Count(s, Frames({"answer"})) = 0
      PROVE  Count(s, Misnamed(n)) = 0
  <2>1. ASSUME NEW i \in DOMAIN s PROVE s[i] \notin Misnamed(n)
    <3>1. s[i] \notin Frames({"offer"}) /\ s[i] \notin Frames({"answer"})
      BY <1>2, CountElement
    <3> QED
      BY <3>1 DEF Misnamed, Frames
  <2> QED
    BY <2>1, CountNone
<1>3. ASSUME NEW S, OnWay(up, down, S) = 0
      PROVE  /\ Count(up[0], S) = 0 /\ Count(up[1], S) = 0
             /\ Count(down[0], S) = 0 /\ Count(down[1], S) = 0
  <2>1. /\ Count(up[0], S) \in Nat /\ Count(up[1], S) \in Nat
        /\ Count(down[0], S) \in Nat /\ Count(down[1], S) \in Nat
    BY <1>1, CountType
  <2> QED
    BY <1>3, <2>1 DEF OnWay
<1>4. /\ Count(up[0], Misnamed(n)) = 0 /\ Count(up[1], Misnamed(n)) = 0
      /\ Count(down[0], Misnamed(n)) = 0 /\ Count(down[1], Misnamed(n)) = 0
  BY <1>1, <1>2, <1>3 DEF Offers, Answers
<1> QED
  BY <1>4 DEF OnWay

(* The broadcaster takes a message from its link.                          *)
LEMMA TakeLeft ==
  ASSUME Stage, TakeMessage(0), up' = up, UNCHANGED viewerVars
  PROVE  LeftIsLast' /\ (Head(down[0]).type = "viewer-left" => ~FirstVisit')
<1> USE StageFacts
<1>1. down[0] # <<>> /\ down'[0] = Tail(down[0]) /\ (Watching' <=> Watching)
  BY ViewerRests DEF TakeMessage, FramesOK
<1>2. /\ Len(down[0]) \in Nat \ {0} /\ DOMAIN down[0] = 1..Len(down[0])
      /\ Head(down[0]) = down[0][1] /\ Tail(down[0]) \in Seq(Frame)
      /\ DOMAIN down'[0] = 1..(Len(down[0]) - 1) /\ Len(down'[0]) = Len(down[0]) - 1
      /\ \A i \in 1..(Len(down[0]) - 1) : down'[0][i] = down[0][i + 1] /\ i + 1 \in DOMAIN down[0]
  BY <1>1, TailFacts
<1>3. LeftIsLast'
  <2>1. ASSUME NEW i \in DOMAIN down'[0], down'[0][i].type = "viewer-left"
        PROVE  ~Watching /\ i = Len(down'[0]) /\ up[1] = <<>>
    <3>1. i \in Nat /\ i + 1 \in DOMAIN down[0] /\ down[0][i + 1].type = "viewer-left"
      BY <1>2, <2>1
    <3>2. ~Watching /\ i + 1 = Len(down[0]) /\ up[1] = <<>>
      BY <3>1 DEF LeftIsLast
    <3> QED
      BY <1>2, <3>1, <3>2
  <2> QED
    BY <1>1, <2>1 DEF LeftIsLast
<1>4. ASSUME Head(down[0]).type = "viewer-left" PROVE ~FirstVisit'
  <2>0. 1 \in DOMAIN down[0] /\ down[0][1].type = "viewer-left"
    BY <1>2, <1>4
  <2>1. ~Watching /\ Len(down[0]) = 1 /\ up[1] = <<>>
    BY <2>0 DEF LeftIsLast
  <2>2. Tail(down[0]) = <<>>
    BY <1>1, <1>2, <2>1, NoneLeft
  <2> QED
    BY <1>1, <2>1, <2>2 DEF FirstVisit
<1> QED
  BY <1>3, <1>4

(* The present connection of the broadcaster is changed.                   *)
LEMMA ServingStep ==
  ASSUME BroadcasterPart, Serving # 0, Serving' = Serving, NEW pc, B!Open(pc),
         bpcs' = [bpcs EXCEPT ![Serving] = pc]
  PROVE  /\ Serving \in DOMAIN bpcs /\ bpcs[Serving] \in BP!PeerConnections
         /\ Offering(bpcs[Serving]) /\ B!Open(bpcs[Serving])
         /\ bpcs # <<>> /\ bpcs' # <<>>
         /\ Calling = Len(bpcs[Serving].chain) /\ Calling' = Len(pc.chain)
         /\ Settling = Count(bpcs[Serving].chain, AnswerCalls)
         /\ Settling' = Count(pc.chain, AnswerCalls)
         /\ Negotiated' <=> pc.negotiated
         /\ Fresh' <=> ~pc.negotiated /\ pc.signaling = "stable"
         /\ (pc.negotiated => bpcs[Serving].negotiated) => (Tried' => Tried)
<1>1. Serving \in DOMAIN bpcs /\ bpcs[Serving] \in BP!PeerConnections
      /\ Offering(bpcs[Serving]) /\ B!Open(bpcs[Serving])
  BY DEF BroadcasterPart
<1>2. bpcs # <<>> /\ bpcs' # <<>> /\ DOMAIN bpcs' = DOMAIN bpcs /\ bpcs'[Serving] = pc
      /\ \A i \in DOMAIN bpcs : i # Serving => bpcs'[i] = bpcs[i]
  BY <1>1
<1>3. Calling = Len(bpcs[Serving].chain) /\ Calling' = Len(pc.chain)
      /\ Settling = Count(bpcs[Serving].chain, AnswerCalls)
      /\ Settling' = Count(pc.chain, AnswerCalls)
  BY <1>2 DEF Calling, Settling, AnswerCalls
<1>4. (Negotiated' <=> pc.negotiated)
      /\ (Fresh' <=> ~pc.negotiated /\ pc.signaling = "stable")
  BY <1>2 DEF Negotiated, Fresh
<1>5. ASSUME pc.negotiated => bpcs[Serving].negotiated, Tried' PROVE Tried
  <2>1. PICK i \in DOMAIN bpcs : bpcs'[i].negotiated \/ ~B!Open(bpcs'[i])
    BY <1>2, <1>5 DEF Tried, B!Open
  <2> QED
    BY <1>1, <1>2, <1>5, <2>1 DEF Tried
<1> QED
  BY <1>1, <1>2, <1>3, <1>4, <1>5
(* What is under way, when a page takes a message from its link.           *)
LEMMA TakenCounts ==
  ASSUME Stage, NEW c \in {0, 1}, TakeMessage(c), up' = up, NEW S
  PROVE  /\ OnWay(up', down', S) <= OnWay(up, down, S)
         /\ Head(down[c]) \in S => OnWay(up, down, S) = OnWay(up', down', S) + 1
<1> USE StageFacts
<1> DEFINE m == Head(down[c])
<1>1. OnWay(up, down, S) = OnWay(up, down', S) + (IF m \in S THEN 1 ELSE 0)
  BY TakeCounts
<1>2. down' \in [Link -> Seq(Frame)]
  BY HeadOfLink DEF TakeMessage, FramesOK
<1>3. PICK n \in Nat : n = OnWay(up', down', S)
  BY <1>2, OnWayType DEF FramesOK
<1> HIDE DEF m
<1>4. OnWay(up, down, S) = n + (IF m \in S THEN 1 ELSE 0)
  BY <1>1, <1>3
<1>5. n <= OnWay(up, down, S) /\ (m \in S => OnWay(up, down, S) = n + 1)
  BY <1>4
<1> QED
  BY <1>3, <1>5 DEF m

LEMMA AskingTaken ==
  ASSUME Numbers, Numbers',
         OnWay(up, down, Requests) = OnWay(up', down', Requests) + 1,
         UNCHANGED <<socket, bsocket>>
  PROVE  Asking' + 1 <= Asking
<1>1. PICK a \in Nat : a = OnWay(up', down', Requests)
  BY DEF Numbers
<1>2. Asking' = a + Unopened(socket[1]) + Unopened(bsocket[1])
  BY <1>1 DEF Asking
<1>3. Unopened(socket[1]) \in Nat /\ Unopened(bsocket[1]) \in Nat
  BY DEF Unopened
<1>4. Asking = (a + 1) + Unopened(socket[1]) + Unopened(bsocket[1])
  BY <1>1 DEF Asking
<1>5. (a + Unopened(socket[1]) + Unopened(bsocket[1])) + 1 <= Asking
  BY <1>1, <1>3, <1>4
<1> QED
  BY <1>2, <1>5

(* A request, when there is a connection: it is offered anew.              *)
LEMMA RequestKeeps ==
  ASSUME Stage, Numbers', TakeMessage(0), UNCHANGED viewerVars, up' = up,
         Head(down[0]).type = "viewer-ready", B!ViewerReady(1, "viewer"), Serving # 0
  PROVE  Core'
<1> USE StageFacts
<1> DEFINE pc == bpcs[Serving]
           next == B!Call(pc, "createOffer", "viewer")
<1>1. /\ bpcs' = [bpcs EXCEPT ![Serving] = next] /\ Serving' = Serving
      /\ bsocket' = bsocket
  BY DEF B!ViewerReady, B!Existing, Serving, B!socketVars
<1>2. pc \in BP!PeerConnections /\ Offering(pc) /\ B!Open(pc) /\ Len(pc.chain) \in Nat
  <2>1. pc \in BP!PeerConnections /\ Offering(pc) /\ B!Open(pc)
    BY DEF BroadcasterPart
  <2> HIDE DEF pc
  <2> QED
    BY <2>1, ChainOf
<1> HIDE DEF pc
<1>3. /\ Len(next.chain) = Len(pc.chain) + 1 /\ B!Open(next)
      /\ Count(next.chain, AnswerCalls) = Count(pc.chain, AnswerCalls) + 0
      /\ next.signaling = pc.signaling /\ next.negotiated = pc.negotiated
  BY <1>2, CallLengthens DEF OfferOps
<1> HIDE DEF next
<1>4. /\ bpcs # <<>> /\ bpcs' # <<>>
      /\ Calling = Len(pc.chain) /\ Calling' = Len(next.chain)
      /\ Settling = Count(pc.chain, AnswerCalls)
      /\ Settling' = Count(next.chain, AnswerCalls)
      /\ Negotiated' <=> next.negotiated
      /\ Fresh' <=> ~next.negotiated /\ next.signaling = "stable"
      /\ (next.negotiated => pc.negotiated) => (Tried' => Tried)
  BY <1>1, <1>3, ServingStep DEF pc
<1>5. (Negotiated' <=> Negotiated) /\ (Fresh' <=> Fresh) /\ (Tried' => Tried)
  BY <1>3, <1>4 DEF Negotiated, Fresh, pc
<1>6. Calling' <= Calling + 1 /\ Settling' <= Settling
  BY <1>2, <1>3, <1>4 DEF Numbers
<1>7. /\ Asking' + 1 <= Asking /\ Offers' <= Offers /\ Answers' <= Answers
      /\ OnWay(up', down', Misnamed(Serving)) <= OnWay(up, down, Misnamed(Serving))
  <2> DEFINE m == Head(down[0])
  <2>1. m \in Requests
    BY HeadOfLink DEF Requests, Frames, TakeMessage
  <2> HIDE DEF m
  <2>2. Asking' + 1 <= Asking
    BY <1>1, <2>1, TakenCounts, AskingTaken, ViewerRests DEF m
  <2> QED
    BY <2>2, TakenCounts DEF Offers, Answers
<1>8. Rounds' <= Rounds /\ Exchanged' <= Exchanged
  <2>1. Handling' <= Handling
    BY ViewerRests DEF Numbers
  <2> QED
    BY <1>6, <1>7, <2>1, RequestMoves
<1>9. OneName'
  BY <1>1, <1>7, NamesKept, ViewerRests DEF OneName
<1>10. CauseFirst'
  <2>1. Settling' = Settling
    BY <1>3, <1>4 DEF Numbers
  <2>2. Answers' # 0 => Answers # 0
    BY <1>7 DEF Numbers
  <2> QED
    BY <1>1, <1>4, <2>1, <2>2, ViewerRests DEF CauseFirst
<1>11. LeftIsLast'
  BY TakeLeft
<1> QED
  BY <1>1, <1>4, <1>5, <1>8, <1>9, <1>10, <1>11, CoreKept, ViewerRests DEF Stage
(* A request, when there is none: nothing is left of the one before.       *)
LEMMA NewKeeps ==
  ASSUME Stage, Numbers', TakeMessage(0), UNCHANGED viewerVars, up' = up,
         Head(down[0]).type = "viewer-ready", B!ViewerReady(1, "viewer"), Serving = 0
  PROVE  Core'
<1> USE StageFacts
<1> DEFINE pc == B!New("viewer", bstreamRef)
           next == B!Call(pc, "createOffer", "viewer")
           n == Len(bpcs) + 1
<1>1. /\ bpcs' = Append(bpcs, next) /\ Serving' = n
      /\ bsocket' = bsocket /\ bsocket[1] = "open"
  BY DEF B!ViewerReady, B!Existing, Serving, B!socketVars, BroadcasterPart
<1>2. pc \in BP!PeerConnections /\ B!Open(pc) /\ pc.chain = <<>>
      /\ ~pc.negotiated /\ pc.signaling = "stable" /\ Offering(pc)
  <2>1. bstreamRef \in {1}
    BY DEF B!ViewerReady, Stage, IInv, BP!IInv, BP!MediaOK
  <2> QED
    BY <2>1, NewFacts
<1> HIDE DEF pc
<1>3. /\ Len(next.chain) = Len(pc.chain) + 1 /\ B!Open(next) /\ ~next.negotiated
      /\ Count(next.chain, AnswerCalls) = Count(pc.chain, AnswerCalls) + 0
  BY <1>2, CallLengthens DEF OfferOps
<1>4. Len(pc.chain) = 0 /\ Count(pc.chain, AnswerCalls) = 0
  BY <1>2, CountEmpty
<1> HIDE DEF next
<1>5. Len(next.chain) = 1 /\ Count(next.chain, AnswerCalls) = 0
  BY <1>3, <1>4
<1>6. /\ bpcs \in Seq(BP!PeerConnections) /\ Len(bpcs) \in Nat /\ DOMAIN bpcs = 1..Len(bpcs)
      /\ DOMAIN bpcs' = 1..n /\ bpcs'[n] = next /\ n # 0 /\ n \in DOMAIN bpcs'
      /\ \A i \in 1..Len(bpcs) : bpcs'[i] = bpcs[i]
  <2>1. bpcs \in Seq(BP!PeerConnections)
    BY DEF BroadcasterPart
  <2>2. Len(bpcs) \in Nat /\ DOMAIN bpcs = 1..Len(bpcs)
    BY <2>1
  <2>3. /\ DOMAIN bpcs' = 1..n /\ bpcs'[n] = next
        /\ \A i \in 1..Len(bpcs) : bpcs'[i] = bpcs[i]
    BY <1>1, <2>1, AppendFacts
  <2> QED
    BY <2>1, <2>2, <2>3
<1> HIDE DEF n
<1>7. Calling = 0 /\ Settling = 0 /\ Calling' = 1 /\ Settling' = 0
      /\ ~Negotiated' /\ bpcs' # <<>>
  <2>1. Calling' = Len(next.chain) /\ Settling' = Count(next.chain, AnswerCalls)
    BY <1>1, <1>6 DEF Calling, Settling, AnswerCalls
  <2> QED
    BY <1>1, <1>3, <1>5, <1>6, <2>1 DEF Calling, Settling, Negotiated
<1>8. Tried' => Tried
  <2> SUFFICES ASSUME NEW i \in DOMAIN bpcs', bpcs'[i].negotiated \/ ~B!Open(bpcs'[i])
               PROVE  Tried
    BY DEF Tried, B!Open
  <2>1. i # n
    BY <1>3, <1>6
  <2>2. i \in DOMAIN bpcs /\ bpcs'[i] = bpcs[i]
    BY <1>6, <2>1 DEF n
  <2> QED
    BY <2>2 DEF Tried
<1>9. Asking' + 1 <= Asking /\ Offers' <= Offers /\ Answers' <= Answers
  <2> DEFINE m == Head(down[0])
  <2>1. m \in Requests
    BY HeadOfLink DEF Requests, Frames, TakeMessage
  <2> HIDE DEF m
  <2>2. Asking' + 1 <= Asking
    BY <1>1, <2>1, TakenCounts, AskingTaken, ViewerRests DEF m
  <2> QED
    BY <2>2, TakenCounts DEF Offers, Answers
<1>10. Rounds' <= Rounds /\ Exchanged' <= Exchanged
  <2>1. Handling' <= Handling
    BY ViewerRests DEF Numbers
  <2>2. Calling' <= Calling + 1 /\ Settling' <= Settling
    BY <1>7
  <2> QED
    BY <1>9, <2>1, <2>2, RequestMoves
<1>11. /\ Rounds \in Nat /\ Exchanged \in Nat /\ Rounds' \in Nat /\ Exchanged' \in Nat
       /\ Asking # 0 /\ Rounds # 0
  <2>1. Rounds \in Nat /\ Exchanged \in Nat /\ Rounds' \in Nat /\ Exchanged' \in Nat
    BY Sums, NextSums
  <2>2. PICK a \in Nat : a = Asking'
    BY DEF Numbers
  <2>3. a + 1 <= Asking /\ Asking <= Rounds /\ Asking \in Nat
    BY <1>9, <2>2, Sums DEF Numbers
  <2> QED
    BY <2>1, <2>3
<1>12. peerConnectionRef = 0
  BY <1>11 DEF LoneIsQuiet
<1>13. Exchanged = 0
  <2>1. CASE bpcs = <<>>
    BY <2>1 DEF FreshIsFirst
  <2>2. CASE bpcs # <<>>
    <3>1. 1 \in DOMAIN bpcs
      BY <1>6, <2>2
    <3>2. Tried
      BY <3>1 DEF Tried, BroadcasterPart
    <3> QED
      BY <1>11, <3>2, Sums DEF FewRounds
  <2> QED
    BY <2>1, <2>2
<1>14. Offers = 0 /\ Answers = 0 /\ Offers' = 0 /\ Answers' = 0
  <2>1. Offers = 0 /\ Answers = 0
    BY <1>13, Sums DEF Numbers
  <2> QED
    BY <1>9, <2>1 DEF Numbers
<1>15. FewRounds'
  <2>1. Failed' => Failed
    BY ViewerRests
  <2> QED
    BY <1>8, <1>10, <1>11, <2>1 DEF FewRounds
<1>16. FreshIsFirst' /\ LoneIsQuiet'
  BY <1>7, <1>10, <1>11, <1>12, <1>13, ViewerRests DEF FreshIsFirst, LoneIsQuiet
<1>17. OneName'
  <2>1. OnWay(up, down, Misnamed(n)) = 0
    BY <1>14, NoNames
  <2>2. OnWay(up', down', Misnamed(n)) <= OnWay(up, down, Misnamed(n))
    BY TakenCounts
  <2>3. OnWay(up', down', Misnamed(Serving')) \in Nat
    BY <1>1, <1>6 DEF Numbers, n
  <2>4. OnWay(up', down', Misnamed(Serving')) <= 0
    BY <1>1, <2>1, <2>2 DEF n
  <2>5. OnWay(up', down', Misnamed(Serving')) = 0
    BY <2>3, <2>4
  <2> QED
    BY <1>12, <2>5, ViewerRests DEF OneName
<1>18. CauseFirst'
  BY <1>1, <1>7, <1>14, ViewerRests DEF CauseFirst
<1>19. LeftIsLast'
  BY TakeLeft
<1> QED
  BY <1>15, <1>16, <1>17, <1>18, <1>19 DEF Core

(* An answer comes to the connection whose offer it answers.               *)
LEMMA AnswerKeeps ==
  ASSUME Stage, Numbers', TakeMessage(0), UNCHANGED viewerVars, up' = up,
         Head(down[0]).type = "answer", B!AnswerFrom(1, "viewer")
  PROVE  Core'
<1> USE StageFacts
<1> DEFINE pc == bpcs[Serving]
           next == B!Call(pc, "setRemoteAnswer", "viewer")
<1>1. /\ bpcs' = [bpcs EXCEPT ![Serving] = next] /\ Serving' = Serving
      /\ bsocket' = bsocket /\ Serving # 0
  BY DEF B!AnswerFrom, Serving, B!socketVars
<1>2. pc \in BP!PeerConnections /\ Offering(pc) /\ B!Open(pc) /\ Len(pc.chain) \in Nat
  <2>1. pc \in BP!PeerConnections /\ Offering(pc) /\ B!Open(pc)
    BY <1>1 DEF BroadcasterPart
  <2> HIDE DEF pc
  <2> QED
    BY <2>1, ChainOf
<1> HIDE DEF pc
<1>3. /\ Len(next.chain) = Len(pc.chain) + 1 /\ B!Open(next)
      /\ Count(next.chain, AnswerCalls) = Count(pc.chain, AnswerCalls) + 1
      /\ next.signaling = pc.signaling /\ next.negotiated = pc.negotiated
  BY <1>2, CallLengthens DEF OfferOps
<1> HIDE DEF next
<1>4. /\ bpcs # <<>> /\ bpcs' # <<>>
      /\ Calling = Len(pc.chain) /\ Calling' = Len(next.chain)
      /\ Settling = Count(pc.chain, AnswerCalls)
      /\ Settling' = Count(next.chain, AnswerCalls)
      /\ Negotiated' <=> next.negotiated
      /\ Fresh' <=> ~next.negotiated /\ next.signaling = "stable"
      /\ (next.negotiated => pc.negotiated) => (Tried' => Tried)
  BY <1>1, <1>3, ServingStep DEF pc
<1>5. (Negotiated' <=> Negotiated) /\ (Fresh' <=> Fresh) /\ (Tried' => Tried)
  BY <1>1, <1>3, <1>4 DEF Negotiated, Fresh, pc
<1>6. Calling' <= Calling + 1 /\ Settling' <= Settling + 1
  BY <1>2, <1>3, <1>4 DEF Numbers
<1>7. /\ Asking' <= Asking /\ Offers' <= Offers /\ Answers' + 1 <= Answers
      /\ OnWay(up', down', Misnamed(Serving)) <= OnWay(up, down, Misnamed(Serving))
  <2> DEFINE m == Head(down[0])
  <2>1. m \in Frames({"answer"})
    BY HeadOfLink DEF Frames, TakeMessage
  <2> HIDE DEF m
  <2>2. Answers = Answers' + 1
    BY <2>1, TakenCounts DEF m, Answers
  <2>3. PICK w \in Nat : w = Answers'
    BY DEF Numbers
  <2>4. w + 1 <= Answers
    <3>1. Answers = w + 1
      BY <2>2, <2>3
    <3> QED
      BY <3>1
  <2>5. Asking' <= Asking
    <3>1. UNCHANGED <<socket, bsocket>>
      BY <1>1, ViewerRests
    <3> QED
      BY <3>1, TakenCounts, AskingFewer DEF Unopened
  <2> QED
    BY <2>3, <2>4, <2>5, TakenCounts DEF Offers
<1>8. Rounds' <= Rounds /\ Exchanged' <= Exchanged
  <2>1. Handling' <= Handling
    BY ViewerRests DEF Numbers
  <2> QED
    BY <1>6, <1>7, <2>1, AnswerMoves
<1>9. OneName'
  BY <1>1, <1>7, NamesKept, ViewerRests DEF OneName
<1>10. CauseFirst'
  <2>1. Answers # 0
    <3>1. PICK w \in Nat : w = Answers'
      BY DEF Numbers
    <3>2. w + 1 <= Answers
      BY <1>7, <3>1
    <3> QED
      BY <3>2
  <2> QED
    BY <1>1, <1>4, <2>1, ViewerRests DEF CauseFirst
<1>11. LeftIsLast'
  BY TakeLeft
<1> QED
  BY <1>1, <1>4, <1>5, <1>8, <1>9, <1>10, <1>11, CoreKept, ViewerRests DEF Stage

LEMMA BroadcasterHears ==
  ASSUME Stage, Numbers', FirstVisit', BroadcasterReceives
  PROVE  Core'
<1> USE StageFacts
<1>1. TakeMessage(0) /\ UNCHANGED viewerVars /\ up' = up
  BY DEF BroadcasterReceives
<1>2. Head(down[0]).type # "viewer-left"
  BY <1>1, TakeLeft
<1>3. CASE Head(down[0]).type = "viewer-ready" /\ B!ViewerReady(1, "viewer")
  BY <1>1, <1>3, RequestKeeps, NewKeeps
<1>4. CASE Head(down[0]).type = "answer" /\ B!AnswerFrom(1, "viewer")
  BY <1>1, <1>4, AnswerKeeps
<1>5. CASE Head(down[0]).type = "answer" /\ UNCHANGED broadcasterVars
  <2>1. /\ OnWay(up', down', Requests) <= OnWay(up, down, Requests)
        /\ Offers' <= Offers /\ Answers' <= Answers
        /\ OnWay(up', down', Misnamed(Serving)) <= OnWay(up, down, Misnamed(Serving))
    BY <1>1, TakenCounts DEF Offers, Answers
  <2>2. Asking' <= Asking
    <3>1. UNCHANGED <<socket, bsocket>>
      BY <1>1, <1>5, ViewerRests, BroadcasterRests
    <3> QED
      BY <2>1, <3>1, AskingFewer DEF Unopened
  <2>3. LeftIsLast'
    BY <1>1, TakeLeft
  <2>4. bpcs # <<>> => bsocket'[1] \notin {"none", "connecting"}
    BY <1>5, BroadcasterRests DEF CauseFirst
  <2> QED
    BY <1>1, <1>5, <2>1, <2>2, <2>3, <2>4, PagesRest, ViewerRests, BroadcasterRests
<1> QED
  BY <1>2, <1>3, <1>4, <1>5 DEF BroadcasterReceives
-----------------------------------------------------------------------------
(* The calls of the broadcaster.                                           *)

(* When nothing is under way.                                              *)
LEMMA QuietIsCore ==
  ASSUME Numbers', Rounds' = 0, OneName', LeftIsLast',
         pcs' # <<>> => bpcs' # <<>>,
         bpcs' # <<>> => bsocket'[1] \notin {"none", "connecting"}
  PROVE  Core'
<1>1. PICK a, c, o, h, w, s \in Nat :
        /\ a = Asking' /\ c = Calling' /\ o = Offers' /\ h = Handling'
        /\ w = Answers' /\ s = Settling'
        /\ Rounds' = a + c + o + h + w /\ Exchanged' = o + h + w + s
  BY NextSums
<1>2. a + c + o + h + w = 0
  BY <1>1
<1>3. c = 0 /\ o = 0 /\ h = 0 /\ w = 0
  BY <1>2
<1>4. s = 0
  BY <1>1, <1>3 DEF Numbers
<1>5. o + h + w + s = 0
  BY <1>3, <1>4
<1>6. Exchanged' = 0
  BY <1>1, <1>5
<1>7. FewRounds'
  BY DEF FewRounds
<1>8. FreshIsFirst' /\ LoneIsQuiet'
  BY <1>6 DEF FreshIsFirst, LoneIsQuiet
<1>9. CauseFirst'
  BY <1>1, <1>3, <1>4 DEF CauseFirst
<1> QED
  BY <1>7, <1>8, <1>9 DEF Core

(* removeViewer                                                            *)
LEMMA DropFacts ==
  ASSUME BroadcasterPart, Serving # 0, NEW ps, DOMAIN ps = DOMAIN bpcs,
         B!RemoveViewer(ps, "viewer")
  PROVE  /\ Serving' = 0 /\ bpcs' # <<>> /\ Calling' = 0 /\ Settling' = 0
         /\ ~Negotiated' /\ ~Fresh'
<1>1. Serving' = 0
  BY DEF B!RemoveViewer, Serving, BroadcasterPart
<1>2. DOMAIN bpcs' = DOMAIN bpcs /\ Serving \in DOMAIN bpcs
  BY DEF B!RemoveViewer, BroadcasterPart
<1> QED
  BY <1>1, <1>2 DEF Calling, Settling, Negotiated, Fresh

(* The present connection of the broadcaster is changed in its calls at    *)
(* most, and nothing else is but the frames under way.                     *)
LEMMA FramesRest ==
  ASSUME Stage, Numbers', UNCHANGED viewerVars, up' = up, down' = down, bsocket' = bsocket
  PROVE  /\ Asking' <= Asking /\ Offers' <= Offers /\ Answers' <= Answers
         /\ Handling' <= Handling /\ LeftIsLast'
         /\ \A n : OnWay(up', down', Misnamed(n)) <= OnWay(up, down, Misnamed(n))
<1> USE StageFacts
<1>1. ASSUME NEW S PROVE OnWay(up', down', S) <= OnWay(up, down, S)
  <2>1. OnWay(up, down, S) \in Nat
    BY OnWayType DEF FramesOK
  <2> QED
    BY <2>1
<1>2. Asking' <= Asking
  <2>1. socket' = socket
    BY ViewerRests
  <2> QED
    BY <1>1, <2>1, AskingFewer DEF Unopened
<1>3. Handling' <= Handling
  BY ViewerRests DEF Numbers
<1>4. LeftIsLast'
  BY ViewerRests, LeftKept
<1> QED
  BY <1>1, <1>2, <1>3, <1>4 DEF Offers, Answers

LEMMA CreateOfferKeeps ==
  ASSUME Stage, Numbers', UNCHANGED viewerVars, up' = up, down' = down,
         NEW i \in DOMAIN bpcs, B!CallResolves(i), B!First(bpcs[i]).op = "createOffer"
  PROVE  Core'
<1> USE StageFacts
<1> DEFINE pc == bpcs[i]
           mid == B!Resolve(pc)
           next == B!Call(mid, "setLocalOffer", "viewer")
<1>1. /\ i = Serving /\ Serving # 0 /\ B!Resolvable(pc) /\ B!First(pc).op = "createOffer"
      /\ pc \in BP!PeerConnections /\ Offering(pc) /\ B!Open(pc)
  BY DEF B!CallResolves, B!Resolvable, B!Pending, BroadcasterPart
<1>2. /\ bpcs' = [bpcs EXCEPT ![i] = B!Call(mid, "setLocalOffer", mid.owner)]
      /\ Serving' = Serving /\ bsocket' = bsocket
  BY DEF B!CallResolves, Serving, B!socketVars
<1> HIDE DEF pc
<1>3. /\ mid \in BP!PeerConnections /\ mid.owner = "viewer" /\ B!Open(mid) /\ Offering(mid)
      /\ Len(mid.chain) = Len(pc.chain) - 1
      /\ Count(pc.chain, AnswerCalls) = Count(mid.chain, AnswerCalls) + 0
      /\ mid.signaling = pc.signaling /\ mid.negotiated = pc.negotiated
  BY <1>1, ResolveOffer
<1> HIDE DEF mid
<1>4. /\ Len(next.chain) = Len(mid.chain) + 1 /\ B!Open(next)
      /\ Count(next.chain, AnswerCalls) = Count(mid.chain, AnswerCalls) + 0
      /\ next.signaling = mid.signaling /\ next.negotiated = mid.negotiated
  BY <1>3, CallLengthens DEF OfferOps
<1>5. bpcs' = [bpcs EXCEPT ![Serving] = next]
  BY <1>1, <1>2, <1>3
<1> HIDE DEF next
<1>6. /\ bpcs # <<>> /\ bpcs' # <<>>
      /\ Calling = Len(pc.chain) /\ Calling' = Len(next.chain)
      /\ Settling = Count(pc.chain, AnswerCalls)
      /\ Settling' = Count(next.chain, AnswerCalls)
      /\ Negotiated' <=> next.negotiated
      /\ Fresh' <=> ~next.negotiated /\ next.signaling = "stable"
      /\ (next.negotiated => pc.negotiated) => (Tried' => Tried)
  BY <1>1, <1>2, <1>4, <1>5, ServingStep DEF pc
<1>7. (Negotiated' <=> Negotiated) /\ (Fresh' <=> Fresh) /\ (Tried' => Tried)
  BY <1>1, <1>3, <1>4, <1>6 DEF Negotiated, Fresh, pc
<1>8. Calling' = Calling /\ Settling' = Settling
  <2>1. Len(mid.chain) \in Nat /\ Len(pc.chain) \in Nat
    BY <1>1, <1>3, ChainOf
  <2>2. Calling' = Calling
    BY <1>3, <1>4, <1>6, <2>1
  <2>3. Count(mid.chain, AnswerCalls) \in Nat
    <3>1. mid.chain \in Seq([op : BP!Operations, arg : {"viewer"}])
      BY <1>3, ChainOf
    <3> DEFINE T == [op : BP!Operations, arg : {"viewer"}]
    <3> HIDE DEF T
    <3>2. mid.chain \in Seq(T)
      BY <3>1 DEF T
    <3> QED
      BY <3>2, CountType
  <2> QED
    BY <1>3, <1>4, <1>6, <2>2, <2>3
<1>9. Rounds' <= Rounds /\ Exchanged' <= Exchanged
  BY <1>2, <1>8, FramesRest, Fewer DEF Numbers
<1>10. OneName'
  BY <1>1, <1>2, FramesRest, NamesKept, ViewerRests DEF OneName
<1>11. CauseFirst'
  BY <1>1, <1>2, <1>6, <1>8, FramesRest, ViewerRests DEF CauseFirst, Numbers
<1> QED
  BY <1>1, <1>2, <1>6, <1>7, <1>9, <1>10, <1>11, FramesRest, CoreKept, ViewerRests DEF Stage

LEMMA OfferSentKeeps ==
  ASSUME Stage, Numbers', UNCHANGED viewerVars, down' = down,
         NEW i \in DOMAIN bpcs, B!CallResolves(i), B!First(bpcs[i]).op = "setLocalOffer",
         up' = up \/ Send(0, <<Msg("offer", i)>>)
  PROVE  Core'
<1> USE StageFacts
<1> DEFINE pc == bpcs[i]
           next == B!Resolve(pc)
           m == Msg("offer", i)
<1>1. /\ i = Serving /\ Serving # 0 /\ B!Resolvable(pc) /\ B!First(pc).op = "setLocalOffer"
      /\ pc \in BP!PeerConnections /\ Offering(pc) /\ B!Open(pc) /\ i \in 1..MaxPcs
  BY BoundAssumption DEF B!CallResolves, B!Resolvable, B!Pending, BroadcasterPart
<1>2. /\ bpcs' = [bpcs EXCEPT ![Serving] = next]
      /\ Serving' = Serving /\ bsocket' = bsocket
  BY <1>1 DEF B!CallResolves, Serving, B!socketVars
<1> HIDE DEF pc
<1>3. /\ B!Open(next) /\ Len(next.chain) = Len(pc.chain) - 1 /\ Len(pc.chain) \in Nat
      /\ Count(pc.chain, AnswerCalls) = Count(next.chain, AnswerCalls) + 0
      /\ next.signaling = "have-local-offer" /\ next.negotiated = pc.negotiated
      /\ Len(next.chain) \in Nat
  BY <1>1, ResolveOffer, ChainOf
<1> HIDE DEF next
<1>4. /\ bpcs # <<>> /\ bpcs' # <<>>
      /\ Calling = Len(pc.chain) /\ Calling' = Len(next.chain)
      /\ Settling = Count(pc.chain, AnswerCalls)
      /\ Settling' = Count(next.chain, AnswerCalls)
      /\ Negotiated' <=> next.negotiated
      /\ Fresh' <=> ~next.negotiated /\ next.signaling = "stable"
      /\ (next.negotiated => pc.negotiated) => (Tried' => Tried)
  BY <1>1, <1>2, <1>3, ServingStep DEF pc
<1>5. (Negotiated' <=> Negotiated) /\ ~Fresh' /\ (Tried' => Tried)
  BY <1>1, <1>3, <1>4 DEF Negotiated, pc
<1>6. Calling' + 1 <= Calling /\ Settling' <= Settling
  <2>1. PICK s \in Nat : s = Settling'
    BY DEF Numbers
  <2>2. s <= Settling
    BY <1>3, <1>4, <2>1
  <2> QED
    BY <1>3, <1>4, <2>1, <2>2
<1>7. m \in Frame /\ m \notin Requests /\ m \notin Frames({"answer"}) /\ m \notin Misnamed(Serving)
  BY <1>1, MessageType DEF Msg, Requests, Frames, Misnamed
<1> HIDE DEF m
<1>8. ASSUME NEW S
      PROVE  OnWay(up', down', S) <= OnWay(up, down, S) + 1
             /\ (m \notin S => OnWay(up', down', S) <= OnWay(up, down, S))
  <2>1. OnWay(up, down, S) \in Nat
    BY OnWayType DEF FramesOK
  <2>2. CASE up' = up
    BY <2>1, <2>2
  <2>3. CASE Send(0, <<m>>)
    <3>1. OnWay(up', down, S) <= OnWay(up, down, S) + (IF m \in S THEN 1 ELSE 0)
      BY <1>7, <2>3, SendCounts
    <3>2. up' \in [Link -> Seq(Frame)]
      <4>1. <<m>> \in Seq(Frame)
        BY <1>7
      <4> QED
        BY <2>3, <4>1, SendType
    <3>3. PICK n \in Nat : n = OnWay(up', down', S)
      BY <3>2, OnWayType DEF FramesOK
    <3>4. n <= OnWay(up, down, S) + (IF m \in S THEN 1 ELSE 0)
      BY <3>1, <3>3
    <3>5. n <= OnWay(up, down, S) + 1 /\ (m \notin S => n <= OnWay(up, down, S))
      BY <2>1, <3>4
    <3> QED
      BY <3>3, <3>5
  <2> QED
    BY <2>2, <2>3 DEF m
<1>9. /\ Asking' <= Asking /\ Offers' <= Offers + 1 /\ Answers' <= Answers
      /\ OnWay(up', down', Misnamed(Serving)) <= OnWay(up, down, Misnamed(Serving))
  <2>1. socket' = socket /\ OnWay(up', down', Requests) <= OnWay(up, down, Requests)
    BY <1>7, <1>8, ViewerRests
  <2>2. Asking' <= Asking
    BY <1>2, <2>1, AskingFewer DEF Unopened
  <2> QED
    BY <1>7, <1>8, <2>2 DEF Offers, Answers
<1>10. Rounds' <= Rounds
  <2>1. Handling' <= Handling
    BY ViewerRests DEF Numbers
  <2> QED
    BY <1>6, <1>9, <2>1, CallMoves
<1>11. OneName'
  BY <1>1, <1>2, <1>9, NamesKept, ViewerRests DEF OneName
<1>12. CauseFirst'
  BY <1>1, <1>2, <1>4, <1>6, <1>9, ViewerRests DEF CauseFirst, Numbers
<1>13. LeftIsLast'
  <2>1. up'[1] = up[1]
    BY <1>7, SendElsewhere
  <2> QED
    BY <2>1, ViewerRests, LeftKept
<1> QED
  BY <1>1, <1>2, <1>4, <1>5, <1>10, <1>11, <1>12, <1>13, CoreKept, ViewerRests DEF Stage
(* The answer is applied.                                                  *)
LEMMA SettledKeeps ==
  ASSUME Stage, Numbers', UNCHANGED viewerVars, up' = up, down' = down,
         NEW i \in DOMAIN bpcs, B!CallResolves(i), B!First(bpcs[i]).op = "setRemoteAnswer"
  PROVE  Core'
<1> USE StageFacts
<1> DEFINE pc == bpcs[i]
           next == B!Resolve(pc)
<1>1. /\ i = Serving /\ Serving # 0 /\ B!Resolvable(pc)
      /\ B!First(pc).op = "setRemoteAnswer"
      /\ pc \in BP!PeerConnections /\ Offering(pc) /\ B!Open(pc)
  BY DEF B!CallResolves, B!Resolvable, B!Pending, BroadcasterPart
<1>2. /\ bpcs' = [bpcs EXCEPT ![Serving] = next]
      /\ Serving' = Serving /\ bsocket' = bsocket
  BY <1>1 DEF B!CallResolves, Serving, B!socketVars
<1> HIDE DEF pc
<1>3. /\ B!Open(next) /\ Len(next.chain) = Len(pc.chain) - 1 /\ Len(pc.chain) \in Nat
      /\ Count(pc.chain, AnswerCalls) = Count(next.chain, AnswerCalls) + 1
      /\ next.negotiated /\ Len(next.chain) \in Nat
  BY <1>1, ResolveOffer, ChainOf
<1> HIDE DEF next
<1>4. /\ bpcs # <<>> /\ bpcs' # <<>>
      /\ Calling = Len(pc.chain) /\ Calling' = Len(next.chain)
      /\ Settling = Count(pc.chain, AnswerCalls)
      /\ Settling' = Count(next.chain, AnswerCalls)
      /\ ~Fresh'
  BY <1>1, <1>2, <1>3, ServingStep DEF pc
<1>5. Calling' + 1 <= Calling /\ Settling' <= Settling /\ Settling # 0
  <2>1. PICK s \in Nat : s = Settling'
    BY DEF Numbers
  <2>2. Settling = s + 1
    BY <1>3, <1>4, <2>1
  <2>3. s <= Settling /\ Settling # 0
    BY <2>2
  <2> QED
    BY <1>3, <1>4, <2>1, <2>3
<1>6. Rounds' + 1 <= Rounds /\ Exchanged' <= Exchanged
  BY <1>2, <1>5, FramesRest, CallEnds
<1>7. pcs # <<>>
  BY <1>5 DEF CauseFirst
<1>8. Rounds' <= 1 /\ Rounds' \in Nat /\ Rounds \in Nat
      /\ (Rounds <= 1 => Rounds' = 0)
  <2>1. PICK r \in Nat : r = Rounds'
    BY NextSums
  <2>2. r + 1 <= Rounds /\ Rounds \in Nat /\ Rounds <= 2
    BY <1>6, <2>1, Sums DEF FewRounds
  <2>3. r <= 1 /\ (Rounds <= 1 => r = 0)
    BY <2>2
  <2> QED
    BY <2>1, <2>2, <2>3
<1>9. FewRounds'
  BY <1>8 DEF FewRounds
<1>10. FreshIsFirst'
  BY <1>4 DEF FreshIsFirst
<1>11. LoneIsQuiet'
  <2>1. ASSUME Watching, peerConnectionRef = 0 PROVE Rounds' = 0
    <3>1. 1 \in DOMAIN pcs
      BY <1>7 DEF ViewerPart
    <3>2. Failed
      BY <2>1, <3>1 DEF Failed, ViewerPart
    <3> QED
      BY <1>8, <3>2 DEF FewRounds
  <2> QED
    BY <1>1, <1>2, <2>1, ViewerRests DEF LoneIsQuiet
<1>12. OneName'
  BY <1>1, <1>2, FramesRest, NamesKept, ViewerRests DEF OneName
<1>13. CauseFirst'
  BY <1>1, <1>2, <1>4, <1>7, ViewerRests DEF CauseFirst
<1>14. LeftIsLast'
  BY <1>2, FramesRest
<1> QED
  BY <1>9, <1>10, <1>11, <1>12, <1>13, <1>14 DEF Core

(* An answer that came twice: the viewer is removed, and nothing is left.  *)
LEMMA RejectKeeps ==
  ASSUME Stage, Numbers', UNCHANGED viewerVars, up' = up, down' = down,
         NEW i \in DOMAIN bpcs, B!CallRejects(i), ~B!Resolvable(bpcs[i])
  PROVE  Core'
<1> USE StageFacts
<1> DEFINE pc == bpcs[i]
           ps == [bpcs EXCEPT ![i] = B!Reject(@)]
<1>1. /\ i = Serving /\ Serving # 0 /\ B!Pending(pc) /\ ~B!Resolvable(pc)
      /\ pc \in BP!PeerConnections /\ Offering(pc) /\ B!Open(pc)
  BY DEF B!CallRejects, B!Pending, BroadcasterPart
<1>2. B!RemoveViewer(ps, B!First(pc).arg) /\ bsocket' = bsocket /\ DOMAIN ps = DOMAIN bpcs
  BY DEF B!CallRejects, B!socketVars
<1> HIDE DEF pc, ps
<1>3. /\ B!First(pc).op = "setRemoteAnswer" /\ pc.signaling = "stable"
      /\ B!First(pc).arg = "viewer"
      /\ Count(pc.chain, AnswerCalls) = Count(Tail(pc.chain), AnswerCalls) + 1
      /\ Tail(pc.chain) \in Seq(OfferCalls)
  BY <1>1, OnlyAnswersFail, ChainTail
<1>4. /\ Serving' = 0 /\ bpcs' # <<>> /\ Calling' = 0 /\ Settling' = 0
  BY <1>1, <1>2, <1>3, DropFacts
<1>5. Settling # 0 /\ Calling # 0
  <2>1. Count(Tail(pc.chain), AnswerCalls) \in Nat
    BY <1>3, CountType
  <2>2. Settling = Count(pc.chain, AnswerCalls)
    BY <1>1 DEF Settling, AnswerCalls, pc
  <2>3. Settling # 0
    BY <1>3, <2>1, <2>2
  <2> QED
    BY <2>3 DEF Numbers
<1>6. Rounds <= 1
  <2>1. Exchanged # 0
    BY <1>5, Sums DEF Numbers
  <2>2. Tried
    BY <1>1, <1>3, <2>1 DEF FreshIsFirst, Fresh, Tried, pc
  <2> QED
    BY <2>2 DEF FewRounds
<1>7. Rounds' + 1 <= Rounds
  <2>1. Calling' + 1 <= Calling /\ Settling' <= Settling
    BY <1>4, <1>5 DEF Numbers
  <2> QED
    BY <1>2, <2>1, FramesRest, CallEnds
<1>8. Rounds' = 0
  <2>1. PICK r \in Nat : r = Rounds'
    BY NextSums
  <2>2. r + 1 <= Rounds /\ Rounds \in Nat
    BY <1>7, <2>1, Sums
  <2>3. r = 0
    BY <1>6, <2>2
  <2> QED
    BY <2>1, <2>3
<1>9. OneName'
  BY <1>4 DEF OneName
<1>10. bsocket'[1] \notin {"none", "connecting"}
  <2>1. bpcs # <<>>
    OBVIOUS
  <2> QED
    BY <1>2, <2>1 DEF CauseFirst
<1> QED
  BY <1>2, <1>4, <1>8, <1>9, <1>10, FramesRest, QuietIsCore

LEMMA BroadcasterCalls ==
  ASSUME Stage, Numbers', NEW i \in DOMAIN bpcs, BroadcasterCall(i)
  PROVE  Core'
<1>1. UNCHANGED viewerVars /\ down' = down
  BY DEF BroadcasterCall, BroadcasterOnly
<1>2. CASE B!CallResolves(i)
  <2>1. B!First(bpcs[i]).op \in OfferOps
    <3>1. bpcs[i] \in BP!PeerConnections /\ Offering(bpcs[i]) /\ B!Pending(bpcs[i])
      BY <1>2, StageFacts DEF BroadcasterPart, B!CallResolves, B!Resolvable
    <3> QED
      BY <3>1, ChainTail
  <2>2. \/ B!First(bpcs[i]).op = "setLocalOffer" /\ (up' = up \/ Send(0, <<Msg("offer", i)>>))
        \/ up' = up
    <3>1. ~(~B!Resolvable(bpcs[i]) /\ B!CallRejects(i))
      BY <1>2 DEF B!CallResolves
    <3> QED
      BY <3>1 DEF BroadcasterCall
  <2> QED
    BY <1>1, <1>2, <2>1, <2>2, CreateOfferKeeps, OfferSentKeeps, SettledKeeps DEF OfferOps
<1>3. CASE ~B!Resolvable(bpcs[i]) /\ B!CallRejects(i) /\ up' = up
  BY <1>1, <1>3, RejectKeeps
<1> QED
  BY <1>2, <1>3 DEF BroadcasterCall

-----------------------------------------------------------------------------
(* The connection states that the broadcaster sees.                        *)

LEMMA BroadcasterConnectKeeps ==
  ASSUME Stage, Numbers', NEW i \in DOMAIN bpcs, BroadcasterConnects(i)
  PROVE  Core'
<1> USE StageFacts
<1> DEFINE pc == bpcs[i]
<1>1. UNCHANGED viewerVars /\ up' = up /\ down' = down /\ bsocket' = bsocket
  BY DEF BroadcasterConnects, BroadcasterOnly, B!StateChange, B!socketVars
<1>2. i = Serving /\ Serving # 0 /\ pc \in BP!PeerConnections /\ B!Open(pc) /\ pc.owner = "viewer"
  BY DEF BroadcasterConnects, B!StateChange, B!MayBecome, BroadcasterPart
<1>3. PICK state :
        \/ B!RemoveViewer(bpcs, "viewer")
        \/ bpcs' = [bpcs EXCEPT ![i].connection = state] /\ conn' = conn
  BY <1>2 DEF BroadcasterConnects, B!StateChange
<1>4. ~B!RemoveViewer(bpcs, "viewer")
  <2>1. B!Close(pc).connection = "closed"
    <3> HIDE DEF pc
    <3> QED
      BY <1>2, CloseFacts
  <2>2. ASSUME B!RemoveViewer(bpcs, "viewer") PROVE bpcs'[i] = B!Close(pc)
    BY <1>2, <2>2 DEF B!RemoveViewer, Serving
  <2> QED
    BY <2>1, <2>2 DEF BroadcasterConnects
<1> DEFINE next == [pc EXCEPT !.connection = state]
<1>5. bpcs' = [bpcs EXCEPT ![Serving] = next] /\ Serving' = Serving
  BY <1>2, <1>3, <1>4 DEF Serving
<1> HIDE DEF pc
<1>6. /\ next.chain = pc.chain /\ next.signaling = pc.signaling
      /\ next.negotiated = pc.negotiated /\ B!Open(next)
  BY <1>2, BecomesOffering
<1> HIDE DEF next
<1>7. /\ bpcs # <<>> /\ bpcs' # <<>>
      /\ Calling = Len(pc.chain) /\ Calling' = Len(next.chain)
      /\ Settling = Count(pc.chain, AnswerCalls)
      /\ Settling' = Count(next.chain, AnswerCalls)
      /\ Negotiated' <=> next.negotiated
      /\ Fresh' <=> ~next.negotiated /\ next.signaling = "stable"
      /\ (next.negotiated => pc.negotiated) => (Tried' => Tried)
  BY <1>2, <1>5, <1>6, ServingStep DEF pc
<1>8. /\ (Negotiated' <=> Negotiated) /\ (Fresh' <=> Fresh) /\ (Tried' => Tried)
      /\ Calling' = Calling /\ Settling' = Settling
  BY <1>2, <1>6, <1>7 DEF Negotiated, Fresh, pc
<1>9. Rounds' <= Rounds /\ Exchanged' <= Exchanged
  BY <1>1, <1>8, FramesRest, Fewer DEF Numbers
<1>10. OneName'
  BY <1>1, <1>2, <1>5, FramesRest, NamesKept, ViewerRests DEF OneName
<1>11. CauseFirst'
  BY <1>1, <1>2, <1>5, <1>7, <1>8, FramesRest, ViewerRests DEF CauseFirst, Numbers
<1> QED
  BY <1>1, <1>2, <1>5, <1>7, <1>8, <1>9, <1>10, <1>11, FramesRest, CoreKept, ViewerRests
  DEF Stage

(* The broadcaster notices that the viewer has dropped its connection.     *)
LEMMA BroadcasterLossKeeps ==
  ASSUME Stage, Numbers', NEW i \in DOMAIN bpcs, BroadcasterLoses(i)
  PROVE  Core'
<1> USE StageFacts
<1>1. UNCHANGED viewerVars /\ up' = up /\ down' = down /\ bsocket' = bsocket
  BY DEF BroadcasterLoses, BroadcasterOnly, B!StateChange, B!socketVars
<1>2. /\ i = Serving /\ Serving # 0 /\ bpcs[i].negotiated /\ bpcs[i].owner = "viewer"
      /\ bpcs[i] \in BP!PeerConnections /\ B!Open(bpcs[i])
  BY DEF BroadcasterLoses, B!StateChange, B!MayBecome, BroadcasterPart
<1>3. B!RemoveViewer(bpcs, "viewer")
  <2>1. PICK state :
          \/ B!RemoveViewer(bpcs, "viewer")
          \/ bpcs' = [bpcs EXCEPT ![i].connection = state]
    BY <1>2 DEF BroadcasterLoses, B!StateChange
  <2>2. CASE bpcs' = [bpcs EXCEPT ![i].connection = state]
    <3> DEFINE pc == bpcs[i]
               next == [pc EXCEPT !.connection = state]
    <3>1. bpcs'[i] = next
      BY <2>2
    <3> HIDE DEF pc
    <3>2. B!Open(next)
      BY <1>2, BecomesOffering DEF pc
    <3> HIDE DEF next
    <3> QED
      BY <3>1, <3>2 DEF BroadcasterLoses
  <2> QED
    BY <2>1, <2>2
<1>4. /\ Serving' = 0 /\ bpcs # <<>> /\ bpcs' # <<>> /\ Calling' = 0 /\ Settling' = 0
      /\ ~Negotiated' /\ ~Fresh'
  BY <1>2, <1>3, DropFacts
<1>5. peerConnectionRef = 0
  BY <1>2 DEF BroadcasterLoses, OneName, ViewerPart
<1>6. Tried /\ Negotiated /\ Rounds <= 1 /\ (Watching => Rounds = 0)
  <2>1. Tried /\ Negotiated
    BY <1>2 DEF Tried, Negotiated
  <2> QED
    BY <1>5, <2>1 DEF FewRounds, LoneIsQuiet
<1>7. Rounds' <= Rounds
  <2>1. Calling' <= Calling /\ Settling' <= Settling
    BY <1>4 DEF Numbers
  <2> QED
    BY <1>1, <2>1, FramesRest, Fewer
<1>8. Rounds' <= 1 /\ Rounds' <= 2
  <2>1. PICK r \in Nat : r = Rounds'
    BY NextSums
  <2>2. r <= 1
    BY <1>6, <1>7, <2>1, Sums
  <2>3. r <= 2
    BY <2>2
  <2> QED
    BY <2>1, <2>2, <2>3
<1>9. FewRounds'
  BY <1>8 DEF FewRounds
<1>10. FreshIsFirst' /\ LoneIsQuiet' /\ OneName'
  BY <1>4, <1>5, ViewerRests, <1>1 DEF FreshIsFirst, LoneIsQuiet, OneName
<1>11. CauseFirst'
  <2>1. Watching => Offers = 0
    BY <1>6, Sums DEF Numbers
  <2> QED
    BY <1>1, <1>4, <2>1, ViewerRests, FramesRest DEF CauseFirst, Numbers
<1> QED
  BY <1>1, <1>9, <1>10, <1>11, FramesRest DEF Core
-----------------------------------------------------------------------------
(* What the calls do to a connection of the viewer, when all of them are   *)
(* for offers of the name s.                                               *)

Answering(s) == [op : V!Operations, arg : {s}]

LEMMA AnsweringAreCalls ==
  ASSUME NEW s \in 1..MaxPcs, NEW calls \in Seq(Answering(s))
  PROVE  calls \in Seq([op : VP!Operations, arg : 1..MaxPcs])
<1>1. Answering(s) \subseteq [op : VP!Operations, arg : 1..MaxPcs]
  BY DEF Answering, V!Operations, VP!Operations
<1> QED
  BY <1>1, VP!SeqWiden, NilAssumption, BoundAssumption

LEMMA ViewerPc ==
  ASSUME NEW pc \in VP!PeerConnections
  PROVE  /\ Len(pc.chain) \in Nat
         /\ pc = [owner |-> pc.owner, source |-> pc.source, signaling |-> pc.signaling,
                  connection |-> pc.connection, negotiated |-> pc.negotiated,
                  chain |-> pc.chain]
<1>1. pc.chain \in Seq([op : VP!Operations, arg : 1..MaxPcs])
  BY DEF VP!PeerConnections
<1>2. Len(pc.chain) \in Nat
  BY <1>1
<1> QED
  BY <1>2 DEF VP!PeerConnections

LEMMA ViewerCallLengthens ==
  ASSUME NEW pc \in VP!PeerConnections, NEW op \in V!Operations, NEW s,
         pc.chain \in Seq(Answering(s))
  PROVE  /\ Len(V!Call(pc, op, s).chain) = Len(pc.chain) + 1
         /\ V!Call(pc, op, s).chain \in Seq(Answering(s))
         /\ V!Open(V!Call(pc, op, s)) <=> V!Open(pc)
<1> DEFINE call == [op |-> op, arg |-> s]
           chain == Append(pc.chain, call)
<1>1. call \in Answering(s)
  BY DEF Answering
<1> HIDE DEF call
<1>2. chain \in Seq(Answering(s)) /\ Len(chain) = Len(pc.chain) + 1
  BY <1>1
<1>3. V!Call(pc, op, s) = [pc EXCEPT !.chain = chain]
  BY DEF V!Call, call
<1> HIDE DEF chain
<1>4. /\ V!Call(pc, op, s).chain = chain
      /\ V!Call(pc, op, s).signaling = pc.signaling
  BY <1>3, ViewerPc
<1> QED
  BY <1>2, <1>4 DEF V!Open

LEMMA ViewerChainTail ==
  ASSUME NEW pc, NEW s, pc.chain \in Seq(Answering(s)), pc.chain # <<>>
  PROVE  /\ V!First(pc).op \in V!Operations /\ V!First(pc).arg = s
         /\ Tail(pc.chain) \in Seq(Answering(s))
         /\ Len(Tail(pc.chain)) = Len(pc.chain) - 1 /\ Len(pc.chain) \in Nat \ {0}
<1>1. Head(pc.chain) \in Answering(s)
  BY HeadOfSeq
<1>2. Head(pc.chain).op \in V!Operations /\ Head(pc.chain).arg = s
  BY <1>1 DEF Answering
<1>3. /\ Tail(pc.chain) \in Seq(Answering(s))
      /\ Len(Tail(pc.chain)) = Len(pc.chain) - 1 /\ Len(pc.chain) \in Nat \ {0}
  OBVIOUS
<1> QED
  BY <1>2, <1>3 DEF V!First

LEMMA ViewerResolves ==
  ASSUME NEW pc \in VP!PeerConnections, NEW s \in 1..MaxPcs,
         pc.chain \in Seq(Answering(s)), V!Resolvable(pc)
  PROVE  LET next == V!Resolve(pc)
         IN  /\ next \in VP!PeerConnections /\ V!Open(next)
             /\ next.chain \in Seq(Answering(s))
             /\ Len(next.chain) + 1 = Len(pc.chain) /\ Len(next.chain) \in Nat
<1> DEFINE op == V!First(pc).op
           tail == Tail(pc.chain)
           sig == V!After(pc.signaling, op)
           neg == pc.negotiated \/ op \in {"setRemoteAnswer", "setLocalAnswer"}
           next == V!Resolve(pc)
<1>1. V!Pending(pc) /\ V!Open(pc) /\ pc.chain # <<>>
  BY DEF V!Resolvable, V!Pending
<1>2. op \in V!Operations /\ tail \in Seq(Answering(s))
      /\ Len(tail) = Len(pc.chain) - 1 /\ Len(pc.chain) \in Nat \ {0}
  BY <1>1, ViewerChainTail
<1>3. next = [pc EXCEPT !.signaling = sig, !.chain = tail, !.negotiated = neg]
  BY DEF V!Resolve
<1>4. sig \in VP!Signaling /\ sig # "closed"
  BY <1>1, <1>2 DEF V!After, V!Operations, VP!Signaling, V!Open, VP!PeerConnections
<1>5. neg \in BOOLEAN
  BY DEF VP!PeerConnections
<1>6. tail \in Seq([op : VP!Operations, arg : 1..MaxPcs])
  <2> HIDE DEF tail
  <2> QED
    BY <1>2, AnsweringAreCalls
<1> HIDE DEF sig, neg, tail, op
<1>7. next.signaling = sig /\ next.chain = tail
  BY <1>3, ViewerPc DEF next
<1>8. next \in VP!PeerConnections
  BY <1>3, <1>4, <1>5, <1>6 DEF VP!PeerConnections, next
<1> HIDE DEF next
<1>9. /\ V!Open(next) /\ next.chain \in Seq(Answering(s))
      /\ Len(next.chain) + 1 = Len(pc.chain) /\ Len(next.chain) \in Nat
  BY <1>2, <1>4, <1>7 DEF V!Open
<1> QED
  BY <1>8, <1>9 DEF next

LEMMA ViewerNewFacts ==
  LET pc == V!New(Nil, 0)
  IN  pc \in VP!PeerConnections /\ V!Open(pc) /\ pc.chain = <<>>
<1> DEFINE pc == V!New(Nil, 0)
<1>1. pc.chain \in Seq([op : VP!Operations, arg : 1..MaxPcs])
  BY DEF V!New
<1> QED
  BY <1>1 DEF V!New, VP!PeerConnections, VP!Signaling, VP!ConnectionState, V!Open
-----------------------------------------------------------------------------
(* What reaches the viewer.                                                *)

(* What is sent and what is taken count apart.                             *)
Carried(q, S) == Count(q[0], S) + Count(q[1], S)

LEMMA Parts ==
  ASSUME 0 \in Link, 1 \in Link, NEW S,
         NEW u \in [Link -> Seq(Frame)], NEW d \in [Link -> Seq(Frame)]
  PROVE  /\ Carried(u, S) \in Nat /\ Carried(d, S) \in Nat
         /\ OnWay(u, d, S) = Carried(u, S) + Carried(d, S)
<1>1. /\ u[0] \in Seq(Frame) /\ u[1] \in Seq(Frame)
      /\ d[0] \in Seq(Frame) /\ d[1] \in Seq(Frame)
  OBVIOUS
<1>2. /\ Count(u[0], S) \in Nat /\ Count(u[1], S) \in Nat
      /\ Count(d[0], S) \in Nat /\ Count(d[1], S) \in Nat
  BY <1>1, CountType
<1> QED
  BY <1>2 DEF OnWay, Carried

LEMMA Apart ==
  ASSUME 0 \in Link, 1 \in Link, NEW S,
         NEW u \in [Link -> Seq(Frame)], NEW d \in [Link -> Seq(Frame)],
         NEW u2 \in [Link -> Seq(Frame)], NEW d2 \in [Link -> Seq(Frame)]
  PROVE  OnWay(u2, d2, S) + OnWay(u, d, S) = OnWay(u2, d, S) + OnWay(u, d2, S)
<1>1. /\ Carried(u, S) \in Nat /\ Carried(d, S) \in Nat
      /\ Carried(u2, S) \in Nat /\ Carried(d2, S) \in Nat
      /\ OnWay(u, d, S) = Carried(u, S) + Carried(d, S)
      /\ OnWay(u2, d, S) = Carried(u2, S) + Carried(d, S)
      /\ OnWay(u, d2, S) = Carried(u, S) + Carried(d2, S)
      /\ OnWay(u2, d2, S) = Carried(u2, S) + Carried(d2, S)
  BY Parts
<1> QED
  BY <1>1

(* The viewer asks as soon as it hears that the broadcaster is ready.      *)
LEMMA ReadyKeeps ==
  ASSUME Stage, Numbers', ViewerReceives(1), Head(down[1]).type = "broadcaster-ready",
         V!BroadcasterReady(1), Send(1, OnReady)
  PROVE  Core'
<1> USE StageFacts
<1> DEFINE m == Head(down[1])
           r == Msg("viewer-ready", 0)
<1>1. /\ TakeMessage(1) /\ UNCHANGED broadcasterVars /\ Send(1, <<r>>)
      /\ UNCHANGED <<phase, pcs, peerConnectionRef, broadcasterRef, socket>>
      /\ Watching /\ (Watching' <=> Watching)
  BY DEF ViewerReceives, OnReady, V!BroadcasterReady, V!shownVars, V!socketVars, V!peerVars,
     V!Message, ViewerPart, Watching
<1>2. /\ m \in Requests /\ r \in Requests /\ r \in Frame /\ r.type # "viewer-left"
      /\ \A n : m \notin Misnamed(n) /\ r \notin Misnamed(n)
      /\ \A type \in {"offer", "answer"} : m \notin Frames({type}) /\ r \notin Frames({type})
  <2>1. m \in Requests
    BY <1>1, HeadOfLink DEF Requests, Frames, TakeMessage
  <2>2. r \in Requests
    BY RequestsAre
  <2> HIDE DEF m, r
  <2> QED
    BY <2>1, <2>2 DEF Requests, Frames, Misnamed
<1> HIDE DEF m, r
<1>3. up' \in [Link -> Seq(Frame)] /\ down' \in [Link -> Seq(Frame)]
  <2>1. <<r>> \in Seq(Frame)
    BY <1>2
  <2>2. up' \in [Link -> Seq(Frame)]
    BY <1>1, <2>1, SendType
  <2> QED
    BY <1>1, <2>2, HeadOfLink DEF TakeMessage, FramesOK
<1>4. ASSUME NEW S, m \in S <=> r \in S
      PROVE  OnWay(up', down', S) <= OnWay(up, down, S)
  <2>1. PICK x, a, b, n \in Nat : /\ x = OnWay(up', down', S) /\ a = OnWay(up', down, S)
                                  /\ b = OnWay(up, down', S) /\ n = OnWay(up, down, S)
    BY <1>3, OnWayType DEF FramesOK
  <2>2. x + n = a + b
    <3>1. OnWay(up', down', S) + OnWay(up, down, S) =
            OnWay(up', down, S) + OnWay(up, down', S)
      BY <1>3, Apart DEF FramesOK
    <3> QED
      BY <2>1, <3>1
  <2>3. a <= n + (IF r \in S THEN 1 ELSE 0)
    BY <1>1, <1>2, <2>1, SendCounts
  <2>4. n = b + (IF m \in S THEN 1 ELSE 0)
    BY <1>1, <2>1, TakeCounts DEF m
  <2>5. x <= n
    BY <1>4, <2>2, <2>3, <2>4
  <2> QED
    BY <2>1, <2>5
<1>5. /\ Asking' <= Asking /\ Offers' <= Offers /\ Answers' <= Answers
      /\ OnWay(up', down', Misnamed(Serving)) <= OnWay(up, down, Misnamed(Serving))
  <2>1. OnWay(up', down', Requests) <= OnWay(up, down, Requests)
    BY <1>2, <1>4
  <2>2. Asking' <= Asking
    <3>1. UNCHANGED <<socket, bsocket>>
      BY <1>1, BroadcasterRests
    <3> QED
      BY <2>1, <3>1, AskingFewer DEF Unopened
  <2> QED
    BY <1>2, <1>4, <2>2 DEF Offers, Answers
<1>6. LeftIsLast'
  <2>1. up'[1] = up[1] \/ up'[1] = Append(up[1], r)
    BY <1>1, <1>2, SendAppends
  <2>2. down'[0] = down[0]
    BY <1>1 DEF TakeMessage, FramesOK
  <2> QED
    BY <1>1, <1>2, <2>1, <2>2, LeftAppended
<1>7. bpcs # <<>> => bsocket'[1] \notin {"none", "connecting"}
  BY <1>1, BroadcasterRests DEF CauseFirst
<1> QED
  BY <1>1, <1>5, <1>6, <1>7, PagesRest, BroadcasterRests

(* An offer comes from the connection that serves the viewer.              *)
LEMMA OfferKeeps ==
  ASSUME Stage, Numbers', ViewerReceives(1), Head(down[1]).type = "offer",
         V!Offer(1, Head(down[1]).offer), up' = up
  PROVE  Core'
<1> USE StageFacts
<1> DEFINE m == Head(down[1])
<1>1. /\ TakeMessage(1) /\ UNCHANGED broadcasterVars /\ socket' = socket
      /\ Watching /\ Watching'
  BY DEF ViewerReceives, V!Offer, V!socketVars, V!Message, ViewerPart, Watching, V!Set
<1>2. m \in Frame /\ m \in Frames({"offer"})
  BY <1>1, HeadOfLink DEF Frames, TakeMessage
<1>3. Offers' + 1 <= Offers /\ Offers # 0 /\ Answers' <= Answers /\ Asking' <= Asking
  <2>1. PICK o \in Nat : o = Offers'
    BY DEF Numbers
  <2>2. Offers = o + 1
    BY <1>1, <1>2, <2>1, TakenCounts DEF Offers
  <2>3. o + 1 <= Offers /\ Offers # 0
    BY <2>2
  <2>4. Asking' <= Asking
    <3>1. UNCHANGED <<socket, bsocket>>
      BY <1>1, BroadcasterRests
    <3> QED
      BY <1>1, <3>1, TakenCounts, AskingFewer DEF Unopened
  <2> QED
    BY <1>1, <2>1, <2>3, <2>4, TakenCounts DEF Answers
<1>4. Serving # 0 /\ Serving' = Serving /\ Serving \in 1..MaxPcs /\ bpcs # <<>>
  <2>1. Serving # 0
    BY <1>1, <1>3 DEF CauseFirst
  <2> QED
    BY <1>1, <2>1, BroadcasterRests, BoundAssumption DEF BroadcasterPart
<1>5. /\ m.offer = Serving
      /\ OnWay(up', down', Misnamed(Serving)) <= OnWay(up, down, Misnamed(Serving))
  <2>1. OnWay(up, down, Misnamed(Serving)) = 0
    BY <1>4 DEF OneName
  <2>2. m \notin Misnamed(Serving)
    <3>1. PICK n \in Nat : n = OnWay(up', down', Misnamed(Serving))
      BY <1>4 DEF Numbers
    <3>2. m \in Misnamed(Serving) => 0 = n + 1
      BY <1>1, <2>1, <3>1, TakenCounts
    <3> QED
      BY <3>2
  <2> QED
    BY <1>1, <1>2, <2>2, TakenCounts DEF Misnamed, Frames
<1> DEFINE i == IF peerConnectionRef # 0 THEN peerConnectionRef ELSE Len(pcs) + 1
           ps == IF peerConnectionRef # 0 THEN pcs ELSE Append(pcs, V!New(Nil, 0))
           pc == ps[i]
           next == V!Call(pc, "setRemoteOffer", Serving)
<1>6. /\ pcs' = [ps EXCEPT ![i] = next] /\ peerConnectionRef' = i /\ broadcasterRef' = Serving
  BY <1>5 DEF V!Offer
<1>7. /\ pc \in VP!PeerConnections /\ V!Open(pc) /\ i \in DOMAIN ps /\ i # 0
      /\ pc.chain \in Seq(Answering(Serving)) /\ Handling = Len(pc.chain)
      /\ \A j \in DOMAIN ps : j = i \/ (j \in DOMAIN pcs /\ ps[j] = pcs[j])
  <2>1. CASE peerConnectionRef # 0
    <3>1. /\ peerConnectionRef \in DOMAIN pcs /\ V!Open(pcs[peerConnectionRef])
          /\ pcs[peerConnectionRef] \in VP!PeerConnections
      BY <2>1 DEF ViewerPart
    <3>2. pcs[peerConnectionRef].chain \in Seq(Answering(Serving))
      BY <1>4, <2>1 DEF OneName, Answering
    <3> QED
      BY <2>1, <3>1, <3>2 DEF Handling
  <2>2. CASE peerConnectionRef = 0
    <3> DEFINE new == V!New(Nil, 0)
    <3>1. new \in VP!PeerConnections /\ V!Open(new) /\ new.chain = <<>>
      BY ViewerNewFacts
    <3> HIDE DEF new
    <3>2. ps = Append(pcs, new) /\ i = Len(pcs) + 1
      BY <2>2 DEF new
    <3>3. pcs \in Seq(VP!PeerConnections)
      BY DEF ViewerPart
    <3> HIDE DEF ps, i
    <3>4. /\ DOMAIN ps = 1..i /\ Len(pcs) \in Nat /\ ps[i] = new /\ DOMAIN pcs = 1..Len(pcs)
          /\ \A j \in 1..Len(pcs) : ps[j] = pcs[j]
      BY <3>2, <3>3, AppendFacts
    <3>5. \A j \in DOMAIN ps : j = i \/ (j \in DOMAIN pcs /\ ps[j] = pcs[j])
      BY <3>2, <3>4
    <3>6. i \in DOMAIN ps /\ i # 0
      BY <3>2, <3>4
    <3>7. pc.chain \in Seq(Answering(Serving)) /\ Len(pc.chain) = 0
      <4>1. pc.chain = <<>>
        BY <3>1, <3>4
      <4> HIDE DEF pc
      <4>2. <<>> \in Seq(Answering(Serving)) /\ Len(<<>>) = 0
        OBVIOUS
      <4> QED
        BY <4>1, <4>2
    <3> QED
      BY <2>2, <3>1, <3>4, <3>5, <3>6, <3>7 DEF Handling
  <2> QED
    BY <2>1, <2>2
<1> HIDE DEF i, ps, pc, m
<1>8. /\ Len(next.chain) = Len(pc.chain) + 1 /\ next.chain \in Seq(Answering(Serving))
      /\ V!Open(next)
  BY <1>7, ViewerCallLengthens DEF V!Operations
<1> HIDE DEF next
<1>9. /\ pcs'[i] = next /\ DOMAIN pcs' = DOMAIN ps /\ pcs' # <<>>
      /\ \A j \in DOMAIN pcs' : j = i \/ (j \in DOMAIN pcs /\ pcs'[j] = pcs[j])
  BY <1>6, <1>7
<1>10. Handling' <= Handling + 1
  <2>1. Handling' = Len(next.chain)
    BY <1>6, <1>7, <1>9 DEF Handling
  <2> QED
    BY <1>7, <1>8, <2>1 DEF Numbers
<1>11. Failed' => Failed
  <2> SUFFICES ASSUME NEW j \in DOMAIN pcs', ~V!Open(pcs'[j]) PROVE Failed
    BY DEF Failed, V!Open
  <2>1. j # i
    BY <1>8, <1>9
  <2> QED
    BY <1>1, <1>9, <2>1 DEF Failed
<1>12. Rounds' <= Rounds /\ Exchanged' <= Exchanged
  <2>1. Calling' <= Calling /\ Settling' <= Settling
    BY <1>1, BroadcasterRests DEF Numbers
  <2> QED
    BY <1>3, <1>10, <2>1, OfferMoves
<1>13. OneName'
  <2>1. pcs'[peerConnectionRef'].chain \in Seq([op : V!Operations, arg : {Serving}])
    BY <1>6, <1>8, <1>9 DEF Answering
  <2> QED
    BY <1>4, <1>5, <1>6, <2>1, NamesKept
<1>14. CauseFirst'
  BY <1>1, <1>4, <1>9, BroadcasterRests DEF CauseFirst
<1>15. LeftIsLast'
  <2>1. down'[0] = down[0]
    BY <1>1 DEF TakeMessage, FramesOK
  <2> QED
    BY <1>1, <2>1, LeftKept
<1> QED
  BY <1>1, <1>4, <1>6, <1>7, <1>11, <1>12, <1>13, <1>14, <1>15, CoreKept, BroadcasterRests
  DEF Stage

LEMMA ViewerHears ==
  ASSUME Stage, Numbers', ViewerReceives(1)
  PROVE  Core'
BY OfferKeeps, ReadyKeeps DEF ViewerReceives
-----------------------------------------------------------------------------
(* The calls of the viewer.                                                *)

(* The present connection of the viewer is changed.                        *)
LEMMA PresentStep ==
  ASSUME ViewerPart, peerConnectionRef # 0, peerConnectionRef' = peerConnectionRef,
         NEW pc, V!Open(pc), pcs' = [pcs EXCEPT ![peerConnectionRef] = pc]
  PROVE  /\ pcs # <<>> /\ pcs' # <<>> /\ pcs'[peerConnectionRef'] = pc
         /\ Handling = Len(pcs[peerConnectionRef].chain) /\ Handling' = Len(pc.chain)
         /\ Watching /\ (Failed' => Failed)
<1>1. peerConnectionRef \in DOMAIN pcs /\ Watching
  BY DEF ViewerPart
<1>2. /\ pcs # <<>> /\ pcs' # <<>> /\ DOMAIN pcs' = DOMAIN pcs /\ pcs'[peerConnectionRef'] = pc
      /\ \A j \in DOMAIN pcs : j # peerConnectionRef => pcs'[j] = pcs[j]
  BY <1>1
<1>3. Failed' => Failed
  <2> SUFFICES ASSUME NEW j \in DOMAIN pcs', ~V!Open(pcs'[j]) PROVE Failed
    BY DEF Failed, V!Open
  <2> QED
    BY <1>1, <1>2 DEF Failed
<1> QED
  BY <1>1, <1>2, <1>3 DEF Handling

LEMMA PresentKeeps ==
  ASSUME Stage, Numbers', UNCHANGED broadcasterVars, down' = down, socket' = socket,
         peerConnectionRef # 0, peerConnectionRef' = peerConnectionRef,
         broadcasterRef' = broadcasterRef, Watching', Serving # 0,
         NEW pc, V!Open(pc), pc.chain \in Seq(Answering(Serving)),
         pcs' = [pcs EXCEPT ![peerConnectionRef] = pc],
         \/ up' = up /\ Handling' <= Handling
         \/ Send(1, <<Msg("answer", Serving)>>) /\ Handling' + 1 <= Handling
  PROVE  Core'
<1> USE StageFacts
<1> DEFINE m == Msg("answer", Serving)
<1>1. /\ pcs # <<>> /\ pcs' # <<>> /\ pcs'[peerConnectionRef'] = pc
      /\ Watching /\ (Failed' => Failed)
  BY PresentStep
<1>2. m \in Frame /\ m \notin Requests /\ m \notin Frames({"offer"})
      /\ m \notin Misnamed(Serving) /\ m.type # "viewer-left"
  <2>1. Serving \in 0..MaxPcs
    BY BoundAssumption DEF BroadcasterPart
  <2> QED
    BY <2>1, MessageType DEF Msg, Requests, Frames, Misnamed
<1>3. Handling \in Nat /\ Handling' \in Nat
  BY DEF Numbers
<1>4. OneName'
  <2>1. OnWay(up', down', Misnamed(Serving)) <= OnWay(up, down, Misnamed(Serving))
    <3>1. CASE up' = up
      BY <3>1 DEF Numbers
    <3>2. CASE Send(1, <<m>>)
      <4> HIDE DEF m
      <4>1. OnWay(up', down, Misnamed(Serving)) <=
              OnWay(up, down, Misnamed(Serving)) + (IF m \in Misnamed(Serving) THEN 1 ELSE 0)
        BY <1>2, <3>2, SendCounts
      <4> QED
        BY <1>2, <4>1 DEF Numbers
    <3> QED
      BY <3>1, <3>2
  <2>2. broadcasterRef = Serving
    BY DEF OneName
  <2>3. pcs'[peerConnectionRef'].chain \in Seq([op : V!Operations, arg : {Serving}])
    BY <1>1 DEF Answering
  <2> QED
    BY <2>1, <2>2, <2>3, NamesKept, BroadcasterRests
<1>5. CauseFirst'
  BY <1>1, BroadcasterRests DEF CauseFirst
<1>6. /\ Unopened(socket'[1]) <= Unopened(socket[1])
      /\ Unopened(bsocket'[1]) <= Unopened(bsocket[1])
      /\ Calling' <= Calling /\ Settling' <= Settling
  BY BroadcasterRests DEF Unopened, Numbers
<1>7. CASE up' = up /\ Handling' <= Handling
  <2>1. OnWay(up', down', Requests) <= OnWay(up, down, Requests)
        /\ Offers' <= Offers /\ Answers' <= Answers
    BY <1>7 DEF Numbers, Offers, Answers
  <2>2. Asking' <= Asking
    BY <1>6, <2>1, AskingFewer
  <2>3. Rounds' <= Rounds /\ Exchanged' <= Exchanged
    BY <1>6, <1>7, <2>1, <2>2, Fewer
  <2>4. LeftIsLast'
    BY <1>1, <1>7, LeftKept
  <2> QED
    BY <1>1, <1>4, <1>5, <2>3, <2>4, CoreKept, BroadcasterRests DEF Stage
<1>8. CASE Send(1, <<m>>) /\ Handling' + 1 <= Handling
  <2> HIDE DEF m
  <2>1. /\ OnWay(up', down', Requests) <= OnWay(up, down, Requests)
        /\ Offers' <= Offers /\ Answers' <= Answers + 1
    <3>1. ASSUME NEW S
          PROVE  OnWay(up', down', S) <= OnWay(up, down, S) + 1
                 /\ (m \notin S => OnWay(up', down', S) <= OnWay(up, down, S))
      <4>1. OnWay(up', down, S) <= OnWay(up, down, S) + (IF m \in S THEN 1 ELSE 0)
        BY <1>2, <1>8, SendCounts
      <4>2. up' \in [Link -> Seq(Frame)]
        <5>1. <<m>> \in Seq(Frame)
          BY <1>2
        <5> QED
          BY <1>8, <5>1, SendType
      <4>3. PICK x, n \in Nat : x = OnWay(up', down', S) /\ n = OnWay(up, down, S)
        BY <4>2, OnWayType DEF FramesOK
      <4>4. x <= n + (IF m \in S THEN 1 ELSE 0)
        BY <4>1, <4>3
      <4>5. x <= n + 1 /\ (m \notin S => x <= n)
        BY <4>4
      <4> QED
        BY <4>3, <4>5
    <3> QED
      BY <1>2, <3>1 DEF Offers, Answers
  <2>2. Asking' <= Asking
    BY <1>6, <2>1, AskingFewer
  <2>3. Rounds' <= Rounds /\ Exchanged' <= Exchanged
    BY <1>6, <1>8, <2>1, <2>2, HandlingMoves
  <2>4. LeftIsLast'
    <3>1. up'[1] = up[1] \/ up'[1] = Append(up[1], m)
      BY <1>2, <1>8, SendAppends
    <3> QED
      BY <1>1, <1>2, <3>1, LeftAppended
  <2> QED
    BY <1>1, <1>4, <1>5, <2>3, <2>4, CoreKept, BroadcasterRests DEF Stage
<1> QED
  BY <1>7, <1>8

LEMMA ViewerResolveKeeps ==
  ASSUME Stage, Numbers', NEW j \in DOMAIN pcs, ViewerCall(j), V!CallResolves(j)
  PROVE  Core'
<1> USE StageFacts
<1> DEFINE pc == pcs[j]
           mid == V!Resolve(pc)
           op == V!First(pc).op
           next == V!NextCall(mid, op, Serving)
<1>1. /\ j = peerConnectionRef /\ j # 0 /\ V!Resolvable(pc) /\ V!Pending(pc)
      /\ pc \in VP!PeerConnections /\ V!Open(pc) /\ pc.chain # <<>> /\ Watching
  BY DEF V!CallResolves, V!Resolvable, V!Pending, ViewerPart
<1>2. /\ UNCHANGED broadcasterVars /\ down' = down
      /\ UNCHANGED <<phase, socket, peerConnectionRef, broadcasterRef>>
  BY DEF ViewerCall, ViewerOnly, V!CallResolves, V!socketVars
<1>3. Handling = Len(pc.chain) /\ Handling # 0
  <2>1. Handling = Len(pc.chain)
    BY <1>1 DEF Handling
  <2> HIDE DEF pc
  <2>2. pc.chain \in Seq([op : VP!Operations, arg : 1..MaxPcs])
    BY <1>1 DEF VP!PeerConnections
  <2>3. Len(pc.chain) # 0
    BY <1>1, <2>2
  <2> QED
    BY <2>1, <2>3
<1>4. Serving # 0 /\ Serving \in 1..MaxPcs
  <2>1. Rounds # 0
    BY <1>3, Sums DEF Numbers
  <2>2. Serving # 0
    BY <1>1, <2>1 DEF LoneIsQuiet
  <2> QED
    BY <2>2, BoundAssumption DEF BroadcasterPart
<1>5. pc.chain \in Seq(Answering(Serving))
  BY <1>1, <1>4 DEF OneName, Answering
<1>6. op \in V!Operations /\ V!First(pc).arg = Serving
  <2> HIDE DEF pc
  <2> QED
    BY <1>1, <1>5, ViewerChainTail
<1>7. pcs' = [pcs EXCEPT ![peerConnectionRef] = next]
  BY <1>1, <1>6 DEF V!CallResolves
<1>8. \/ up' = up
      \/ op = "setLocalAnswer" /\ Send(1, <<Msg("answer", Serving)>>)
  <2>1. ~V!CallRejects(j)
    BY <1>1 DEF V!CallRejects
  <2> QED
    BY <1>6, <2>1 DEF ViewerCall, V!CanSend, ViewerPart, Reply
<1> HIDE DEF pc
<1>9. /\ mid \in VP!PeerConnections /\ V!Open(mid) /\ mid.chain \in Seq(Answering(Serving))
      /\ Len(mid.chain) + 1 = Len(pc.chain) /\ Len(mid.chain) \in Nat
  BY <1>1, <1>4, <1>5, ViewerResolves
<1> HIDE DEF mid, op
<1>10. /\ V!Open(next) /\ next.chain \in Seq(Answering(Serving))
       /\ Len(next.chain) = Len(mid.chain) \/ Len(next.chain) = Len(mid.chain) + 1
       /\ op = "setLocalAnswer" => Len(next.chain) = Len(mid.chain)
  <2>1. CASE op \in {"setRemoteOffer", "createAnswer"}
    <3>1. PICK more \in {"createAnswer", "setLocalAnswer"} : next = V!Call(mid, more, Serving)
      BY <2>1 DEF V!NextCall
    <3>2. more \in V!Operations
      BY DEF V!Operations
    <3> QED
      BY <1>9, <2>1, <3>1, <3>2, ViewerCallLengthens
  <2>2. CASE op \notin {"setRemoteOffer", "createAnswer"}
    BY <1>9, <2>2 DEF V!NextCall
  <2> QED
    BY <2>1, <2>2
<1> HIDE DEF next
<1>11. Handling' = Len(next.chain)
  BY <1>1, <1>2, <1>7, <1>10, PresentStep
<1>12. /\ Handling' <= Handling
       /\ op = "setLocalAnswer" => Handling' + 1 <= Handling
  <2>1. PICK h \in Nat : h = Handling'
    BY DEF Numbers
  <2>2. h <= Handling /\ (op = "setLocalAnswer" => h + 1 <= Handling)
    BY <1>3, <1>9, <1>10, <1>11, <2>1
  <2> QED
    BY <2>1, <2>2
<1>13. Watching'
  BY <1>1, <1>2 DEF Watching
<1> QED
  BY <1>1, <1>2, <1>4, <1>7, <1>8, <1>10, <1>12, <1>13, PresentKeeps

(* The viewer loses its connection, one way or the other.                  *)
LEMMA LossFacts ==
  ASSUME ViewerPart, peerConnectionRef # 0, NEW ps, DOMAIN ps = DOMAIN pcs, NEW state,
         V!Cleanup(ps, state),
         phase' = "waiting-offer"
  PROVE  /\ peerConnectionRef' = 0 /\ pcs # <<>> /\ pcs' # <<>> /\ Handling' = 0
         /\ Watching /\ Watching'
<1>1. peerConnectionRef \in DOMAIN pcs /\ Watching
  BY DEF ViewerPart
<1>2. peerConnectionRef' = 0 /\ DOMAIN pcs' = DOMAIN pcs
  BY DEF V!Cleanup
<1> QED
  BY <1>1, <1>2 DEF Handling, Watching
(* An offer that came twice: the viewer waits for another one.             *)
LEMMA ViewerRejectKeeps ==
  ASSUME Stage, Numbers', NEW j \in DOMAIN pcs, ViewerCall(j), V!CallRejects(j), up' = up
  PROVE  Core'
<1> USE StageFacts
<1> DEFINE pc == pcs[j]
           ps == [pcs EXCEPT ![j] = V!Reject(@)]
<1>1. /\ j = peerConnectionRef /\ peerConnectionRef # 0
      /\ pc \in VP!PeerConnections /\ V!Open(pc) /\ pc.chain # <<>>
  BY DEF V!CallRejects, V!Pending, ViewerPart
<1>2. /\ UNCHANGED broadcasterVars /\ down' = down /\ socket' = socket
      /\ V!Cleanup(ps, connectionState) /\ phase' = "waiting-offer"
  BY DEF ViewerCall, ViewerOnly, V!CallRejects, V!socketVars, V!Set, V!AfterFailure,
     ViewerPart
<1>3. DOMAIN ps = DOMAIN pcs
  OBVIOUS
<1>4. pcs'[j] = V!Ended(ps[j])
  BY <1>1, <1>2 DEF V!Cleanup
<1> HIDE DEF ps
<1>5. /\ peerConnectionRef' = 0 /\ pcs # <<>> /\ pcs' # <<>> /\ Handling' = 0
      /\ Watching /\ Watching'
  BY <1>1, <1>2, <1>3, LossFacts
<1>6. Handling' + 1 <= Handling
  <2>1. Handling = Len(pc.chain)
    BY <1>1 DEF Handling
  <2> HIDE DEF pc
  <2>2. pc.chain \in Seq([op : VP!Operations, arg : 1..MaxPcs])
    BY <1>1 DEF VP!PeerConnections
  <2>3. Len(pc.chain) \in Nat /\ Len(pc.chain) # 0
    BY <1>1, <2>2
  <2> QED
    BY <1>5, <2>1, <2>3
<1>7. /\ Asking' <= Asking /\ Offers' <= Offers /\ Answers' <= Answers
      /\ Calling' <= Calling /\ Settling' <= Settling
  <2>1. OnWay(up', down', Requests) <= OnWay(up, down, Requests)
        /\ Offers' <= Offers /\ Answers' <= Answers
    BY <1>2 DEF Numbers, Offers, Answers
  <2>2. UNCHANGED <<socket, bsocket>>
    BY <1>2, BroadcasterRests
  <2>3. Asking' <= Asking
    BY <2>1, <2>2, AskingFewer DEF Unopened
  <2> QED
    BY <1>2, <2>1, <2>3, BroadcasterRests DEF Numbers
<1>8. Rounds' + 1 <= Rounds /\ Exchanged' <= Exchanged
  BY <1>6, <1>7, HandlingEnds
<1>9. Rounds' <= 1 /\ Rounds' <= 2 /\ (Rounds <= 1 => Rounds' = 0)
  <2>1. PICK r \in Nat : r = Rounds'
    BY NextSums
  <2>2. r + 1 <= Rounds /\ Rounds \in Nat /\ Rounds <= 2
    BY <1>8, <2>1, Sums DEF FewRounds
  <2>3. r <= 1 /\ r <= 2 /\ (Rounds <= 1 => r = 0)
    BY <2>2
  <2> QED
    BY <2>1, <2>3
<1>10. FewRounds'
  BY <1>9 DEF FewRounds
<1>11. FreshIsFirst'
  <2>1. Exchanged \in Nat /\ Exchanged' \in Nat
    BY Sums, NextSums
  <2> QED
    BY <1>2, <1>8, <2>1, BroadcasterRests DEF FreshIsFirst
<1>12. LoneIsQuiet'
  <2>1. Negotiated => Rounds' = 0
    <3>1. Negotiated => Tried
      BY DEF Negotiated, Tried, BroadcasterPart
    <3> QED
      BY <1>9, <3>1 DEF FewRounds
  <2> QED
    BY <1>2, <1>5, <2>1, BroadcasterRests DEF LoneIsQuiet
<1>13. OneName'
  BY <1>2, <1>5, BroadcasterRests DEF OneName
<1>14. CauseFirst'
  BY <1>2, <1>5, <1>7, BroadcasterRests DEF CauseFirst, Numbers
<1>15. LeftIsLast'
  BY <1>2, <1>5, LeftKept
<1> QED
  BY <1>10, <1>11, <1>12, <1>13, <1>14, <1>15 DEF Core

LEMMA ViewerCalls ==
  ASSUME Stage, Numbers', NEW j \in DOMAIN pcs, ViewerCall(j)
  PROVE  Core'
BY ViewerResolveKeeps, ViewerRejectKeeps DEF ViewerCall

-----------------------------------------------------------------------------
(* The connection states that the viewer sees.                             *)

LEMMA ViewerConnectKeeps ==
  ASSUME Stage, Numbers', NEW j \in DOMAIN pcs, ViewerConnects(j)
  PROVE  Core'
<1> USE StageFacts
<1> DEFINE pc == pcs[j]
<1>1. /\ j = peerConnectionRef /\ peerConnectionRef # 0 /\ Watching
      /\ pc \in VP!PeerConnections /\ V!Open(pc)
  BY DEF ViewerConnects, V!StateChange, V!MayBecome, ViewerPart
<1>2. Serving # 0
  BY DEF ViewerConnects, Paired, BroadcasterPart
<1>3. PICK state :
        \/ /\ pcs' = [pcs EXCEPT ![j].connection = state] /\ phase' = "watching"
           /\ peerConnectionRef' = peerConnectionRef /\ broadcasterRef' = broadcasterRef
        \/ V!Cleanup([pcs EXCEPT ![j].connection = state], state)
  BY DEF ViewerConnects, V!StateChange, V!Set, ViewerPart
<1>4. ~V!Cleanup([pcs EXCEPT ![j].connection = state], state)
  <2> SUFFICES ASSUME V!Cleanup([pcs EXCEPT ![j].connection = state], state) PROVE FALSE
    OBVIOUS
  <2> DEFINE ps == [pcs EXCEPT ![j].connection = state]
             was == [pc EXCEPT !.connection = state]
  <2>1. ps[j] = was /\ j \in DOMAIN ps
    OBVIOUS
  <2> HIDE DEF ps
  <2>2. pcs'[j] = V!Ended(was)
    BY <1>1, <2>1 DEF V!Cleanup, ps
  <2> HIDE DEF pc
  <2>3. was = [owner |-> was.owner, source |-> was.source, signaling |-> was.signaling,
               connection |-> was.connection, negotiated |-> was.negotiated,
               chain |-> was.chain]
    BY <1>1, ViewerPc
  <2> HIDE DEF was
  <2>4. V!Ended(was).connection = "closed"
    BY <2>3 DEF V!Ended, V!Close
  <2> QED
    BY <2>2, <2>4 DEF ViewerConnects
<1> DEFINE next == [pc EXCEPT !.connection = state]
<1>5. /\ pcs' = [pcs EXCEPT ![peerConnectionRef] = next] /\ phase' = "watching"
      /\ peerConnectionRef' = peerConnectionRef /\ broadcasterRef' = broadcasterRef
  BY <1>1, <1>3, <1>4
<1>6. pc.chain \in Seq(Answering(Serving))
  BY <1>1, <1>2 DEF OneName, Answering
<1>7. Handling = Len(pc.chain)
  BY <1>1 DEF Handling
<1> HIDE DEF pc
<1>8. next.chain = pc.chain /\ next.signaling = pc.signaling
  BY <1>1, ViewerPc
<1> HIDE DEF next
<1>9. V!Open(next) /\ next.chain \in Seq(Answering(Serving))
  BY <1>1, <1>6, <1>8 DEF V!Open
<1>10. Handling' <= Handling
  <2>1. Handling' = Len(next.chain)
    BY <1>1, <1>5, <1>9, PresentStep
  <2> QED
    BY <1>7, <1>8, <2>1 DEF Numbers
<1>11. /\ UNCHANGED broadcasterVars /\ down' = down /\ up' = up /\ socket' = socket
       /\ Watching'
  BY <1>5 DEF ViewerConnects, ViewerOnly, V!StateChange, V!socketVars, Watching
<1> QED
  BY <1>1, <1>2, <1>5, <1>9, <1>10, <1>11, PresentKeeps

(* The viewer notices that the broadcaster has dropped its connection, and *)
(* asks again.                                                             *)
LEMMA ViewerLossKeeps ==
  ASSUME Stage, Numbers', NEW j \in DOMAIN pcs, ViewerLoses(j)
  PROVE  Core'
<1> USE StageFacts
<1> DEFINE pc == pcs[j]
           m == Msg("viewer-ready", 0)
<1>1. /\ j = peerConnectionRef /\ peerConnectionRef # 0 /\ Watching /\ socketRef = 1
      /\ pc \in VP!PeerConnections /\ V!Open(pc)
  BY DEF ViewerLoses, V!StateChange, V!MayBecome, ViewerPart
<1>2. /\ UNCHANGED broadcasterVars /\ down' = down /\ socket' = socket
      /\ (up' = up \/ Send(1, <<m>>))
  BY <1>1 DEF ViewerLoses, ViewerOnly, V!StateChange, V!socketVars, Request
<1>3. PICK state :
        \/ pcs' = [pcs EXCEPT ![j].connection = state]
        \/ /\ V!Cleanup([pcs EXCEPT ![j].connection = state], state)
           /\ phase' = "waiting-offer"
  BY DEF ViewerLoses, V!StateChange, V!Set, ViewerPart
<1>4. pcs' # [pcs EXCEPT ![j].connection = state]
  <2> SUFFICES ASSUME pcs' = [pcs EXCEPT ![j].connection = state] PROVE FALSE
    OBVIOUS
  <2> DEFINE next == [pc EXCEPT !.connection = state]
  <2>1. pcs'[j] = next
    OBVIOUS
  <2> HIDE DEF pc
  <2>2. next.signaling = pc.signaling
    BY <1>1, ViewerPc
  <2> HIDE DEF next
  <2> QED
    BY <1>1, <2>1, <2>2 DEF ViewerLoses, V!Open
<1> DEFINE ps == [pcs EXCEPT ![j].connection = state]
<1>5. V!Cleanup(ps, state) /\ phase' = "waiting-offer" /\ DOMAIN ps = DOMAIN pcs
  BY <1>3, <1>4
<1> HIDE DEF ps
<1>6. /\ peerConnectionRef' = 0 /\ pcs # <<>> /\ pcs' # <<>> /\ Handling' = 0
      /\ Watching /\ Watching'
  BY <1>1, <1>5, LossFacts
<1>7. Serving = 0
  <2> SUFFICES ASSUME Serving # 0 PROVE FALSE
    OBVIOUS
  <2>1. broadcasterRef = Serving /\ Serving \in 1..MaxPcs /\ B!Open(bpcs[Serving])
    BY <1>1, BoundAssumption DEF OneName, BroadcasterPart
  <2> QED
    BY <2>1, NilAssumption DEF ViewerLoses
<1>8. Rounds = 0 /\ Exchanged = 0
  BY <1>1, <1>7, Sums DEF LoneIsQuiet
<1>9. /\ OnWay(up', down', Requests) <= OnWay(up, down, Requests) + 1
      /\ Offers' <= Offers /\ Answers' <= Answers
  <2>1. CASE up' = up
    BY <1>2, <2>1 DEF Numbers, Offers, Answers
  <2>2. CASE Send(1, <<m>>)
    BY <1>2, <2>2, RequestSent, RequestsAre
  <2> QED
    BY <1>2, <2>1, <2>2
<1> HIDE DEF m
<1>10. Asking' <= Asking + 1
  <2>1. PICK a \in Nat : a = OnWay(up', down', Requests)
    BY DEF Numbers
  <2>2. Asking' = a + Unopened(socket[1]) + Unopened(bsocket[1])
    BY <1>2, <2>1, BroadcasterRests DEF Asking
  <2>3. Unopened(socket[1]) \in Nat /\ Unopened(bsocket[1]) \in Nat
    BY DEF Unopened
  <2>4. a <= OnWay(up, down, Requests) + 1 /\ OnWay(up, down, Requests) \in Nat
    BY <1>9, <2>1 DEF Numbers
  <2>5. Asking = OnWay(up, down, Requests) + Unopened(socket[1]) + Unopened(bsocket[1])
    BY DEF Asking
  <2>6. a + Unopened(socket[1]) + Unopened(bsocket[1]) <= Asking + 1
    BY <2>3, <2>4, <2>5
  <2> QED
    BY <2>2, <2>6
<1>11. Rounds' <= Rounds + 1 /\ Exchanged' <= Exchanged
  <2>1. Calling' <= Calling /\ Settling' <= Settling /\ Handling' <= Handling
    BY <1>2, <1>6, BroadcasterRests DEF Numbers
  <2> QED
    BY <1>9, <1>10, <2>1, AsksAgain
<1>12. Rounds' <= 1 /\ Rounds' <= 2 /\ Exchanged' = 0
  <2>0. Rounds' \in Nat /\ Exchanged' \in Nat
    BY NextSums
  <2>1. PICK r, e \in Nat : r = Rounds' /\ e = Exchanged'
    BY <2>0
  <2>2. r <= 1 /\ r <= 2 /\ e = 0
    BY <1>8, <1>11, <2>1
  <2> QED
    BY <2>1, <2>2
<1>13. FewRounds' /\ FreshIsFirst'
  BY <1>12 DEF FewRounds, FreshIsFirst
<1>14. Serving' = 0 /\ ~Negotiated'
  BY <1>2, <1>7, BroadcasterRests DEF Negotiated
<1>15. OneName' /\ LoneIsQuiet'
  BY <1>6, <1>14 DEF OneName, LoneIsQuiet
<1>16. CauseFirst'
  <2>1. Offers = 0
    BY <1>8, Sums DEF Numbers
  <2>2. Offers' = 0
    BY <1>9, <2>1 DEF Numbers
  <2> QED
    BY <1>2, <1>6, <2>2, BroadcasterRests DEF CauseFirst
<1>17. LeftIsLast'
  <2>1. CASE up' = up
    BY <1>2, <1>6, <2>1, LeftKept
  <2>2. CASE Send(1, <<m>>)
    <3>1. m \in Frame /\ m.type # "viewer-left"
      BY MessageType DEF m, Msg
    <3>2. up'[1] = up[1] \/ up'[1] = Append(up[1], m)
      BY <2>2, <3>1, SendAppends
    <3> QED
      BY <1>1, <1>2, <3>1, <3>2, LeftAppended
  <2> QED
    BY <1>2, <2>1, <2>2 DEF m
<1> QED
  BY <1>13, <1>15, <1>16, <1>17 DEF Core

-----------------------------------------------------------------------------
(* All of it together.                                                     *)

LEMMA StageStep ==
  ASSUME Stage, Numbers', FirstVisit', Next
  PROVE  Core'
<1> USE StageFacts
<1>1. ~Watch
  <2>1. connects' = 1
    BY DEF FirstVisit
  <2> QED
    BY <2>1 DEF Watch, V!ConnectSocket
<1>2. ASSUME NEW k \in 1..MaxConnects, ViewerOpens(k) \/ ViewerReceives(k)
      PROVE  k = 1
  <2>1. k \in V!Connect
    BY DEF V!Connect
  <2>2. socket[k] # "none"
    BY <1>2, BoundAssumption DEF ViewerOpens, V!SocketOpen, ViewerReceives, TakeMessage, Sock
  <2> QED
    BY <2>1, <2>2 DEF ViewerPart
<1>3. CASE User
  BY <1>1, <1>3, BroadcastKeeps, StopKeeps DEF User
<1>4. ASSUME NEW c \in Link, Admit(c) \/ Dispatch(c) \/ Evict(c) \/ SocketCloses(c)
      PROVE  Core'
  BY <1>4, HubKeeps, ClosingKeeps
<1>5. CASE BroadcasterOpens \/ BroadcasterReceives
  BY <1>5, OpensKeep, BroadcasterHears
<1>6. ASSUME NEW k \in 1..MaxConnects, ViewerOpens(k) \/ ViewerReceives(k)
      PROVE  Core'
  <2>1. k = 1
    BY <1>2, <1>6
  <2> QED
    BY <1>6, <2>1, OpensKeep, ViewerHears
<1>7. ASSUME NEW i \in DOMAIN bpcs,
             BroadcasterCall(i) \/ BroadcasterConnects(i) \/ BroadcasterLoses(i)
      PROVE  Core'
  BY <1>7, BroadcasterCalls, BroadcasterConnectKeeps, BroadcasterLossKeeps
<1>8. ASSUME NEW j \in DOMAIN pcs, ViewerCall(j) \/ ViewerConnects(j) \/ ViewerLoses(j)
      PROVE  Core'
  BY <1>8, ViewerCalls, ViewerConnectKeeps, ViewerLossKeeps
<1> QED
  BY <1>3, <1>4, <1>5, <1>6, <1>7, <1>8 DEF Next, System

LEMMA CoreRests ==
  ASSUME UNCHANGED vars, FirstVisit => Core, FirstVisit'
  PROVE  Core'
<1>1. UNCHANGED viewerVars /\ UNCHANGED broadcasterVars /\ UNCHANGED hubVars
  BY DEF vars
<1>2. up' = up /\ down' = down
  BY <1>1 DEF hubVars
<1>3. connects' = connects
  BY <1>1 DEF viewerVars
<1>4. Core
  BY <1>1, <1>2, <1>3, ViewerRests, BroadcasterRests DEF FirstVisit
<1>5. /\ Asking' = Asking /\ Offers' = Offers /\ Answers' = Answers
      /\ Handling' = Handling /\ Calling' = Calling /\ Settling' = Settling
  BY <1>1, <1>2, ViewerRests, BroadcasterRests DEF Asking, Offers, Answers
<1>6. Rounds' = Rounds /\ Exchanged' = Exchanged
  BY <1>5 DEF Rounds, Exchanged
<1>7. FewRounds' /\ FreshIsFirst' /\ LoneIsQuiet'
  BY <1>1, <1>4, <1>6, ViewerRests, BroadcasterRests
     DEF Core, FewRounds, FreshIsFirst, LoneIsQuiet
<1>8. OneName'
  BY <1>1, <1>2, <1>4, ViewerRests, BroadcasterRests DEF Core, OneName
<1>9. CauseFirst' /\ LeftIsLast'
  BY <1>1, <1>2, <1>4, <1>5, ViewerRests, BroadcasterRests DEF Core, CauseFirst, LeftIsLast
<1> QED
  BY <1>7, <1>8, <1>9 DEF Core

LEMMA RInvStarts == Init => RInv
<1> SUFFICES ASSUME Init PROVE RInv
  OBVIOUS
<1>1. /\ mounted /\ bmounted /\ connects = 0 /\ pcs = <<>> /\ bpcs = <<>>
      /\ member = [c \in Link |-> "new"]
      /\ up = [c \in Link |-> <<>>] /\ down = [c \in Link |-> <<>>]
  BY DEF Init, V!Init, B!Init
<1>2. 0 \in Link /\ DOMAIN bpcs = {}
  BY <1>1, BoundAssumption DEF Link
<1>3. Frugal
  BY <1>1, <1>2 DEF Frugal
<1>4. Before
  BY <1>1, <1>2 DEF Before
<1>5. ~FirstVisit
  BY <1>1 DEF FirstVisit
<1> QED
  BY <1>3, <1>4, <1>5 DEF RInv

LEMMA RInvStep == IInv /\ RInv /\ [Next]_vars /\ IInv' => RInv'
<1> SUFFICES ASSUME IInv, RInv, [Next]_vars, IInv' PROVE RInv'
  OBVIOUS
<1> USE DEF RInv
<1>1. Frugal'
  BY FrugalStep
<1>2. Before'
  BY BeforeStep
<1>3. ASSUME FirstVisit' PROVE Core'
  <2>1. CASE UNCHANGED vars
    BY <1>3, <2>1, CoreRests
  <2>2. CASE Next
    <3>1. connects \in {0, 1}
      <4>1. connects \in Nat
        BY BoundAssumption DEF IInv, VP!IInv, VP!SocketsOK
      <4>2. connects' = 1 /\ connects' \in {connects, connects + 1}
        BY <1>3, <2>2, StaysMounted DEF FirstVisit
      <4> QED
        BY <4>1, <4>2
    <3>2. CASE connects = 0
      BY <1>1, <1>3, <2>2, <3>2, WatchStarts
    <3>3. CASE connects = 1
      <4>1. FirstVisit
        BY <1>3, <2>2, <3>3, FirstVisitGoesOn
      <4>2. Stage
        BY <4>1 DEF Stage
      <4>3. Numbers'
        BY <1>1, <1>3, NumbersNext
      <4> QED
        BY <1>3, <2>2, <4>2, <4>3, StageStep
    <3> QED
      BY <3>1, <3>2, <3>3
  <2> QED
    BY <2>1, <2>2
<1> QED
  BY <1>1, <1>2, <1>3

LEMMA AlwaysRInv == Spec => [](IInv /\ RInv)
<1> QED
  BY InitHolds, RInvStarts, StepKeeps, RInvStep, PTL DEF Spec

(* An answer (handleSignalMessage, "answer") reaches the connection that   *)
(* made its offer, or none: no connection takes the place of an older one  *)
(* in the map of useBroadcaster.ts while an answer for that one is on its  *)
(* way.  It holds of the first visit, of any number of connections.        *)
THEOREM AnswersMeetOffers == Spec => []AnswersFit
<1>1. ASSUME IInv, RInv PROVE AnswersFit
  <2> DEFINE m == Head(down[0])
  <2> SUFFICES ASSUME connects = 1, Sock(0) = "open", down[0] # <<>>, m.type = "answer",
                      Serving # 0
               PROVE  Serving = m.offer
    BY DEF AnswersFit, Serving
  <2>1. Stage
    BY <1>1 DEF Stage, RInv, FirstVisit, Sock
  <2>2. down[0] \in Seq(Frame) /\ 1 \in DOMAIN down[0] /\ m = down[0][1] /\ m \in Frame
    BY <2>1, StageFacts, TailFacts, HeadOfLink
  <2>3. OnWay(up, down, Misnamed(Serving)) = 0
    BY <2>1, StageFacts DEF OneName
  <2>4. Count(down[0], Misnamed(Serving)) = 0
    <3>1. PICK a, b, c, d \in Nat :
            /\ a = Count(up[0], Misnamed(Serving)) /\ b = Count(up[1], Misnamed(Serving))
            /\ c = Count(down[0], Misnamed(Serving)) /\ d = Count(down[1], Misnamed(Serving))
      BY <2>1, StageFacts, CountType
    <3>2. a + b + c + d = 0
      BY <2>3, <3>1 DEF OnWay
    <3> QED
      BY <3>1, <3>2
  <2>5. m \notin Misnamed(Serving)
    BY <2>2, <2>4, CountElement
  <2> QED
    BY <2>2, <2>5 DEF Misnamed, Frames
<1> QED
  BY <1>1, AlwaysRInv, PTL

(* In the first visit, a connection of the viewer is one with the          *)
(* connection that the broadcaster keeps for it, if both have one          *)
(* (handleOffer, createPeerConnection): neither page ever negotiates with  *)
(* a connection that the other has given up while it has another.          *)
THEOREM PagesMeet == Spec => []ConnectionsMeet
<1>1. ASSUME IInv, RInv PROVE ConnectionsMeet
  <2> SUFFICES ASSUME connects = 1, Sock(0) = "open", peerConnectionRef # 0, Serving # 0
               PROVE  broadcasterRef = Serving
    BY DEF ConnectionsMeet, Serving
  <2>1. Watching
    BY <1>1, ViewerFacts DEF RInv, IInv, ViewerPart
  <2>2. FirstVisit
    BY <2>1 DEF FirstVisit, Sock
  <2> QED
    BY <1>1, <2>2 DEF RInv, Core, OneName
<1> QED
  BY <1>1, AlwaysRInv, PTL

-----------------------------------------------------------------------------
(* Each page hears only what the other one says.                           *)

Said(c) == Frames(IF c = 0 THEN {"broadcaster-ready", "offer"}
                  ELSE {"viewer-ready", "answer", "viewer-left"})
Heard(c) == Said(IF c = 0 THEN 1 ELSE 0)

Directed ==
  /\ \A c \in Link : up[c] \in Seq(Said(c))
  /\ \A c \in Link : down[c] \in Seq(Heard(c))

LEMMA MessageSaid ==
  /\ Msg("broadcaster-ready", 0) \in Said(0)
  /\ \A i \in 1..MaxPcs : Msg("offer", i) \in Said(0)
  /\ \A c : c # 0 =>
       /\ Msg("viewer-ready", 0) \in Said(c) /\ Msg("viewer-left", 0) \in Said(c)
       /\ \A o \in 0..MaxPcs : Msg("answer", o) \in Said(c)
BY MessageType DEF Said, Frames, Msg

LEMMA OneSaid ==
  ASSUME NEW T, NEW m \in T
  PROVE  <<m>> \in Seq(T) /\ <<>> \in Seq(T)
OBVIOUS

LEMMA MoreSaid ==
  ASSUME NEW T, NEW s \in Seq(T), NEW r \in Seq(T)
  PROVE  s \o r \in Seq(T)
OBVIOUS

LEMMA SendDirected ==
  ASSUME FramesOK, Directed, NEW c, NEW ms \in Seq(Said(c)), Send(c, ms), down' = down
  PROVE  Directed'
<1>1. \A d \in Link : d # c => up'[d] = up[d]
  BY DEF Send, FramesOK
<1>2. ASSUME c \in Link PROVE up'[c] \in Seq(Said(c))
  <2> DEFINE T == Said(c)
  <2>1. up[c] \in Seq(T) /\ ms \in Seq(T) /\ (up'[c] = up[c] \/ up'[c] = up[c] \o ms)
    BY <1>2 DEF Directed, Send, FramesOK
  <2> HIDE DEF T
  <2>2. up'[c] \in Seq(T)
    BY <2>1, MoreSaid
  <2> QED
    BY <2>2 DEF T
<1> QED
  BY <1>1, <1>2 DEF Directed

LEMMA DirectedStarts == Init => Directed
<1>1. \A T : <<>> \in Seq(T)
  OBVIOUS
<1> QED
  BY <1>1 DEF Init, Directed

LEMMA Emptied ==
  ASSUME FramesOK, Directed,
         \A c \in Link : up'[c] \in {up[c], <<>>} /\ down'[c] \in {down[c], <<>>}
  PROVE  Directed'
<1>1. \A T : <<>> \in Seq(T)
  OBVIOUS
<1> QED
  BY <1>1 DEF Directed

LEMMA PassedOn ==
  ASSUME FramesOK, Directed, NEW c \in Link, Dispatch(c)
  PROVE  Directed'
<1> DEFINE m == Head(up[c])
           T == Said(c)
<1>1. up[c] \in Seq(T) /\ up[c] # <<>> /\ (\A d \in Link : down[d] \in Seq(Heard(d)))
      /\ \A d \in Link : up[d] \in Seq(Said(d))
  BY DEF Dispatch, Directed
<1> HIDE DEF T
<1>2. m \in T /\ Tail(up[c]) \in Seq(T)
  BY <1>1
<1> HIDE DEF m
<1>3. \A d \in Link : up'[d] \in Seq(Said(d))
  BY <1>1, <1>2 DEF Dispatch, FramesOK, T
<1>4. ASSUME NEW d \in Link PROVE down'[d] \in Seq(Heard(d))
  <2> DEFINE S == Heard(d)
  <2>1. down'[d] = down[d] \/ ((d = 0) # (c = 0) /\ down'[d] = Append(down[d], m))
    BY DEF Dispatch, m
  <2>2. (d = 0) # (c = 0) => m \in S
    BY <1>2 DEF T, Heard, Said
  <2>3. down[d] \in Seq(S)
    BY <1>1
  <2> HIDE DEF S
  <2>4. down'[d] \in Seq(S)
    BY <2>1, <2>2, <2>3
  <2> QED
    BY <2>4 DEF S
<1> QED
  BY <1>3, <1>4 DEF Directed

LEMMA Taken ==
  ASSUME FramesOK, Directed, NEW c \in Link, TakeMessage(c)
  PROVE  \A d \in Link : down'[d] \in Seq(Heard(d))
<1> DEFINE T == Heard(c)
<1>1. down[c] \in Seq(T) /\ down[c] # <<>>
  BY DEF TakeMessage, Directed
<1> HIDE DEF T
<1>2. Tail(down[c]) \in Seq(T)
  BY <1>1
<1> QED
  BY <1>2 DEF TakeMessage, FramesOK, Directed, T

LEMMA DirectedStep ==
  ASSUME IInv, Directed, [Next]_vars
  PROVE  Directed'
<1> USE DEF IInv
<1>0. 0 \in Link /\ \A k \in 1..MaxConnects : k \in Link /\ k # 0
  BY BoundAssumption DEF Link
<1>1. CASE UNCHANGED <<up, down>>
  BY <1>1 DEF Directed
<1>2. CASE StopWatching
  <2>1. V!CanSend => socketRef # 0
    BY DEF V!CanSend
  <2>2. Farewell \in Seq(Said(socketRef))
    BY <2>1, MessageSaid, OneSaid DEF Farewell
  <2> QED
    BY <1>2, <2>2, SendDirected DEF StopWatching, ViewerOnly
<1>3. ASSUME NEW c \in Link, Admit(c) \/ Evict(c) PROVE Directed'
  BY <1>3, Emptied DEF Admit, Evict, FramesOK
<1>4. ASSUME NEW c \in Link, Dispatch(c) PROVE Directed'
  BY <1>4, PassedOn
<1>5. CASE BroadcasterOpens
  <2>1. Greeting \in Seq(Said(0))
    BY MessageSaid, OneSaid DEF Greeting
  <2> QED
    BY <1>1, <1>5, <2>1, SendDirected DEF BroadcasterOpens, BroadcasterOnly
<1>6. CASE BroadcasterReceives
  BY <1>0, <1>6, Taken DEF BroadcasterReceives, Directed
<1>7. ASSUME NEW k \in 1..MaxConnects, ViewerOpens(k) PROVE Directed'
  <2>1. <<Msg("viewer-ready", 0)>> \in Seq(Said(k))
    BY <1>0, MessageSaid, OneSaid
  <2> QED
    BY <1>1, <1>7, <2>1, SendDirected DEF ViewerOpens, ViewerOnly
<1>8. ASSUME NEW k \in 1..MaxConnects, ViewerReceives(k) PROVE Directed'
  <2>1. \A d \in Link : down'[d] \in Seq(Heard(d))
    BY <1>0, <1>8, Taken DEF ViewerReceives
  <2>2. CASE up' = up
    BY <2>1, <2>2 DEF Directed
  <2>3. CASE Send(k, OnReady)
    <3> DEFINE T == Said(k)
    <3>1. OnReady \in Seq(T)
      BY <1>0, MessageSaid, OneSaid DEF OnReady
    <3>2. up[k] \in Seq(T) /\ (up'[k] = up[k] \/ up'[k] = up[k] \o OnReady)
          /\ \A d \in Link : d # k => up'[d] = up[d]
      BY <1>0, <2>3 DEF Directed, Send, FramesOK
    <3> HIDE DEF T
    <3>3. up'[k] \in Seq(T)
      BY <3>1, <3>2, MoreSaid
    <3> QED
      BY <2>1, <3>2, <3>3 DEF Directed, T
  <2> QED
    BY <1>8, <2>2, <2>3 DEF ViewerReceives
<1>9. ASSUME NEW i \in DOMAIN bpcs, BroadcasterCall(i) PROVE Directed'
  <2>1. i \in 1..MaxPcs
    BY BoundAssumption DEF BP!IInv, BP!PeersOK
  <2>2. <<Msg("offer", i)>> \in Seq(Said(0))
    BY <2>1, MessageSaid, OneSaid
  <2> QED
    BY <1>1, <1>9, <2>2, SendDirected DEF BroadcasterCall, BroadcasterOnly
<1>10. ASSUME NEW j \in DOMAIN pcs, ViewerCall(j) PROVE Directed'
  <2>1. ASSUME V!CallResolves(j), V!CanSend PROVE Reply(V!First(pcs[j]).arg) \in Seq(Said(socketRef))
    <3>1. V!First(pcs[j]).arg \in 0..MaxPcs
      BY <2>1, AnswerNamed
    <3>2. socketRef # 0
      BY <2>1 DEF V!CanSend
    <3> QED
      BY <3>1, <3>2, MessageSaid, OneSaid DEF Reply
  <2> QED
    BY <1>1, <1>10, <2>1, SendDirected DEF ViewerCall, ViewerOnly
<1>11. ASSUME NEW j \in DOMAIN pcs, ViewerLoses(j) PROVE Directed'
  <2>1. V!CanSend => <<Msg("viewer-ready", 0)>> \in Seq(Said(socketRef))
    BY MessageSaid, OneSaid DEF V!CanSend
  <2> QED
    BY <1>1, <1>11, <2>1, SendDirected DEF ViewerLoses, ViewerOnly, Request
<1> QED
  BY <1>1, <1>2, <1>3, <1>4, <1>5, <1>6, <1>7, <1>8, <1>9, <1>10, <1>11
     DEF Next, System, User, Broadcast, Watch, BroadcasterOnly, ViewerOnly, SocketCloses,
     hubVars, vars, BroadcasterConnects, BroadcasterLoses, ViewerConnects

LEMMA AlwaysDirected == Spec => []Directed
<1>1. IInv /\ Directed /\ [Next]_vars => Directed'
  BY DirectedStep
<1> QED
  BY <1>1, DirectedStarts, AlwaysIInv, PTL DEF Spec

(* Frames of disjoint kinds.                                               *)
LEMMA CountEither ==
  ASSUME NEW T, NEW s \in Seq(T), NEW S, NEW R, S \cap R = {}
  PROVE  Count(s, S \cup R) = Count(s, S) + Count(s, R)
<1> DEFINE A == {i \in DOMAIN s : s[i] \in S}
           C == {i \in DOMAIN s : s[i] \in R}
           D == {i \in DOMAIN s : s[i] \in S \cup R}
<1>1. IsFiniteSet(A) /\ IsFiniteSet(C) /\ Cardinality(A) \in Nat /\ Cardinality(C) \in Nat
  BY CountType DEF Count
<1>2. D = A \cup C /\ A \cap C = {}
  OBVIOUS
<1> HIDE DEF A, C, D
<1>3. Cardinality(D) = Cardinality(A) + Cardinality(C) - Cardinality(A \cap C)
  BY <1>1, <1>2, FS_Union
<1>4. Cardinality(A \cap C) = 0
  BY <1>2, FS_EmptySet
<1>5. Cardinality(D) = Cardinality(A) + Cardinality(C)
  BY <1>1, <1>3, <1>4
<1> QED
  BY <1>5 DEF Count, A, C, D

LEMMA CountAll ==
  ASSUME NEW T, NEW s \in Seq(T), NEW S, \A i \in DOMAIN s : s[i] \in S
  PROVE  Count(s, S) = Len(s)
<1>1. DOMAIN s = 1..Len(s) /\ Len(s) \in Nat
  OBVIOUS
<1>2. {i \in DOMAIN s : s[i] \in S} = 1..Len(s)
  BY <1>1
<1>3. Cardinality(1..Len(s)) = Len(s)
  BY <1>1, FS_Interval
<1> QED
  BY <1>2, <1>3 DEF Count

LEMMA LenCounts ==
  ASSUME NEW s \in Seq(Frame), \A i \in DOMAIN s : s[i].type # "viewer-left"
  PROVE  Len(s) = Count(s, Requests) + Count(s, Frames({"offer"})) + Count(s, Frames({"answer"}))
<1> DEFINE O == Frames({"offer"})
           A == Frames({"answer"})
<1>1. Requests \cap O = {} /\ (Requests \cup O) \cap A = {}
  BY DEF Requests, Frames
<1>2. \A i \in DOMAIN s : s[i] \in (Requests \cup O) \cup A
  <2> SUFFICES ASSUME NEW i \in DOMAIN s PROVE s[i] \in (Requests \cup O) \cup A
    OBVIOUS
  <2>1. s[i] \in Frame /\ s[i].type # "viewer-left"
    OBVIOUS
  <2>2. s[i].type \in {"viewer-ready", "broadcaster-ready", "viewer-left", "offer", "answer"}
    BY <2>1 DEF Frame
  <2> QED
    BY <2>1, <2>2 DEF Requests, Frames
<1> HIDE DEF O, A
<1>3. Count(s, (Requests \cup O) \cup A) = Len(s)
  BY <1>2, CountAll
<1>4. Count(s, (Requests \cup O) \cup A) = Count(s, Requests \cup O) + Count(s, A)
  BY <1>1, CountEither
<1>5. Count(s, Requests \cup O) = Count(s, Requests) + Count(s, O)
  BY <1>1, CountEither
<1> QED
  BY <1>3, <1>4, <1>5 DEF O, A

(* Frames on their way between the pages.                                  *)
FewUnderWay ==
  connects = 1 /\ Watching /\ bsocket[1] \notin {"closing", "closed"} =>
    Len(up[0]) + Len(up[1]) + Len(down[0]) + Len(down[1]) <= 2

(* In the first visit, no more than two requests, offers and answers are   *)
(* on their way at the same time, in both directions together (useViewer.ts*)
(* and useBroadcaster.ts: each asks or answers once per message or event): *)
(* overlapping negotiations do not add up in a send queue (client.go).     *)
(* ICE candidates take places of their own in it and are not counted.      *)
THEOREM TwoUnderWay == Spec => []FewUnderWay
<1>1. ASSUME IInv, RInv, Directed PROVE FewUnderWay
  <2> SUFFICES ASSUME connects = 1, Watching, bsocket[1] \notin {"closing", "closed"}
               PROVE  Len(up[0]) + Len(up[1]) + Len(down[0]) + Len(down[1]) <= 2
    BY DEF FewUnderWay
  <2>1. Stage
    BY <1>1 DEF Stage, RInv, FirstVisit
  <2> USE <2>1, StageFacts
  <2>2. /\ \A i \in DOMAIN up[0] : up[0][i].type # "viewer-left"
        /\ \A i \in DOMAIN down[1] : down[1][i].type # "viewer-left"
    <3>1. up[0] \in Seq(Said(0)) /\ down[1] \in Seq(Said(0))
      BY <1>1 DEF Directed, Heard
    <3>2. \A m \in Said(0) : m.type # "viewer-left"
      BY DEF Said, Frames
    <3> HIDE DEF Said
    <3> QED
      BY <3>1, <3>2
  <2>3. /\ \A i \in DOMAIN up[1] : up[1][i].type # "viewer-left"
        /\ \A i \in DOMAIN down[0] : down[0][i].type # "viewer-left"
    BY DEF LeftIsLast
  <2> DEFINE R(s) == Count(s, Requests)
             O(s) == Count(s, Frames({"offer"}))
             A(s) == Count(s, Frames({"answer"}))
  <2>4. ASSUME NEW s \in {up[0], up[1], down[0], down[1]}
        PROVE  /\ R(s) \in Nat /\ O(s) \in Nat /\ A(s) \in Nat
               /\ Len(s) = R(s) + O(s) + A(s)
    <3>1. s \in Seq(Frame) /\ \A i \in DOMAIN s : s[i].type # "viewer-left"
      BY <2>2, <2>3
    <3> QED
      BY <3>1, LenCounts, CountType
  <2>5. /\ OnWay(up, down, Requests) = R(up[0]) + R(up[1]) + R(down[0]) + R(down[1])
        /\ Offers = O(up[0]) + O(up[1]) + O(down[0]) + O(down[1])
        /\ Answers = A(up[0]) + A(up[1]) + A(down[0]) + A(down[1])
    BY DEF OnWay, Offers, Answers
  <2> HIDE DEF R, O, A
  <2>6. Len(up[0]) + Len(up[1]) + Len(down[0]) + Len(down[1])
          = OnWay(up, down, Requests) + Offers + Answers
    <3>1. PICK r1, r2, r3, r4, o1, o2, o3, o4, a1, a2, a3, a4 \in Nat :
            /\ r1 = R(up[0]) /\ r2 = R(up[1]) /\ r3 = R(down[0]) /\ r4 = R(down[1])
            /\ o1 = O(up[0]) /\ o2 = O(up[1]) /\ o3 = O(down[0]) /\ o4 = O(down[1])
            /\ a1 = A(up[0]) /\ a2 = A(up[1]) /\ a3 = A(down[0]) /\ a4 = A(down[1])
      BY <2>4
    <3>2. /\ Len(up[0]) = r1 + o1 + a1 /\ Len(up[1]) = r2 + o2 + a2
          /\ Len(down[0]) = r3 + o3 + a3 /\ Len(down[1]) = r4 + o4 + a4
      BY <2>4, <3>1
    <3>3. /\ OnWay(up, down, Requests) = r1 + r2 + r3 + r4
          /\ Offers = o1 + o2 + o3 + o4 /\ Answers = a1 + a2 + a3 + a4
      BY <2>5, <3>1
    <3> QED
      BY <3>2, <3>3
  <2>7. OnWay(up, down, Requests) + Offers + Answers <= Rounds
    <3>1. /\ OnWay(up, down, Requests) \in Nat /\ Offers \in Nat /\ Answers \in Nat
          /\ Calling \in Nat /\ Handling \in Nat
          /\ Unopened(socket[1]) \in Nat /\ Unopened(bsocket[1]) \in Nat
      BY DEF Numbers, Unopened
    <3>2. Rounds = OnWay(up, down, Requests) + Unopened(socket[1]) + Unopened(bsocket[1])
                     + Calling + Offers + Handling + Answers
      BY DEF Rounds, Asking
    <3> QED
      BY <3>1, <3>2
  <2>8. Rounds <= 2 /\ Rounds \in Nat
    BY Sums DEF FewRounds
  <2>9. OnWay(up, down, Requests) + Offers + Answers \in Nat
    BY DEF Numbers
  <2>10. PICK n \in Nat : n = OnWay(up, down, Requests) + Offers + Answers
    BY <2>9
  <2>11. n <= 2
    BY <2>7, <2>8, <2>10
  <2> QED
    BY <2>6, <2>10, <2>11
<1> QED
  BY <1>1, AlwaysRInv, AlwaysDirected, PTL
=============================================================================
