----------------------------- MODULE ViewerProofs -----------------------------
(***************************************************************************)
(* Proofs about the viewer's hook: the invariants that the run ViewerPage  *)
(* checks, for any number of connects, connections and senders.            *)
(***************************************************************************)
EXTENDS Viewer, PeerConnectionProofs

(* The inductive invariant, in three parts: the connections, the sockets,  *)
(* and the page with what it knows of both.                                *)

PeersOK ==
  /\ pcs \in Seq(PeerConnections) /\ Len(pcs) <= MaxPcs
  /\ \A i \in DOMAIN pcs : Len(pcs[i].chain) <= MaxOps
  /\ peerConnectionRef \in 0..Len(pcs)
  /\ remoteStream \in 0..Len(pcs) /\ streamRef \in 0..Len(pcs)
  /\ broadcasterRef \in Sender \cup {Nil}
  /\ SingleConnection
  /\ BroadcasterKnown
  /\ NoStalePicture

(* Only the socket of socketRef can still be used, and only its handlers   *)
(* can still run; the sockets of later calls do not exist.                 *)
SocketsOK ==
  /\ connects \in 0..MaxConnects /\ socketRef \in 0..connects
  /\ socket \in [Connect -> {"none", "connecting", "open", "closing", "closed"}]
  /\ attached \in [Connect -> BOOLEAN]
  /\ \A k \in Connect :
       /\ attached[k] /\ socket[k] # "closed" => k = socketRef
       /\ socket[k] \in {"connecting", "open"} => k = socketRef
       /\ k > connects => socket[k] = "none" /\ ~attached[k]

(* The phase is idle as long as there is no socket, and a connection       *)
(* exists only after the socket has opened.                                *)
PageOK ==
  /\ phase \in {"idle", "connecting", "waiting-offer", "answering", "watching"}
  /\ connectionState \in {Nil, "connected"}
  /\ mounted \in BOOLEAN /\ asked \in BOOLEAN
  /\ PhaseMatchesConnection
  /\ ~mounted => socketRef = 0
  /\ mounted => (phase = "idle" <=> socketRef = 0)
  /\ peerConnectionRef # 0 => socketRef # 0 /\ socket[socketRef] # "connecting"

IInv == PeersOK /\ SocketsOK /\ PageOK

-----------------------------------------------------------------------------
(* Helpers.                                                                *)

LEMMA PcsAreTyped == PeerConnections = PcType({Nil}, {0}, Sender)
BY DEF PeerConnections, PcType, Calls

LEMMA FrameOfPeers ==
  ASSUME PeersOK, UNCHANGED <<peerVars, remoteStream, mounted>>
  PROVE  PeersOK'
BY DEF PeersOK, peerVars, SingleConnection, BroadcasterKnown, NoStalePicture

LEMMA FrameOfSockets ==
  ASSUME SocketsOK, UNCHANGED <<socketVars, connects>>
  PROVE  SocketsOK'
BY DEF SocketsOK, socketVars

(* Wherever the connection of peerConnectionRef is closed and the refs are *)
(* reset, no connection is open afterwards.                                *)
LEMMA EndPresent ==
  ASSUME PeersOK,
         NEW ps \in Seq(PeerConnections), Len(ps) = Len(pcs),
         \A i \in DOMAIN ps : Len(ps[i].chain) <= MaxOps
                              /\ (Open(ps[i]) => Open(pcs[i])),
         pcs' = [i \in DOMAIN ps |-> IF i = peerConnectionRef THEN Ended(ps[i]) ELSE ps[i]],
         peerConnectionRef' = 0, broadcasterRef' = Forgotten, streamRef' = 0,
         remoteStream' \in {0, remoteStream},
         mounted' => remoteStream' = 0
  PROVE  PeersOK'
<1> DEFINE pc(i) == IF i = peerConnectionRef THEN Ended(ps[i]) ELSE ps[i]
<1> USE BoundAssumption
<1>1. Len(ps) \in Nat /\ DOMAIN ps = 1..Len(ps) /\ DOMAIN pcs = 1..Len(ps)
  BY DEF PeersOK
<1>2. ASSUME NEW i \in 1..Len(ps)
      PROVE  pc(i) \in PeerConnections /\ Len(pc(i).chain) <= MaxOps /\ ~Open(pc(i))
  <2>1. ps[i] \in PeerConnections /\ Len(ps[i].chain) <= MaxOps
    BY <1>1, <1>2
  <2>2. CASE i = peerConnectionRef
    <3>1. ps[i] \in PcType({Nil}, {0}, Sender)
      BY <2>1, PcsAreTyped
    <3>2. Close(ps[i]) \in PeerConnections /\ Close(ps[i]).chain = <<>> /\ ~Open(Close(ps[i]))
      BY <3>1, CloseType, PcsAreTyped
    <3>3. pc(i) = Close(ps[i])
      BY <2>2 DEF Ended
    <3> HIDE DEF pc
    <3> QED
      BY <3>2, <3>3
  <2>3. CASE i # peerConnectionRef
    <3>1. ~Open(pcs[i])
      BY <1>1, <2>3 DEF PeersOK, SingleConnection
    <3> QED
      BY <1>1, <2>1, <2>3, <3>1
  <2> QED
    BY <2>2, <2>3
<1>3. pcs' = [i \in 1..Len(ps) |-> pc(i)]
  BY <1>1
<1> HIDE DEF pc
<1>4. pcs' \in Seq(PeerConnections) /\ Len(pcs') = Len(ps)
  <2>1. [i \in 1..Len(ps) |-> pc(i)] \in [1..Len(ps) -> PeerConnections]
    BY <1>2
  <2> QED
    BY <1>1, <1>3, <2>1, SeqOfFunction
<1>5. \A i \in DOMAIN pcs' : Len(pcs'[i].chain) <= MaxOps /\ ~Open(pcs'[i])
  BY <1>1, <1>2, <1>3
<1>6. Len(pcs') <= MaxPcs /\ remoteStream' \in 0..Len(pcs')
  BY <1>1, <1>4 DEF PeersOK
<1>7. SingleConnection'
  <2>1. SUFFICES ASSUME NEW i \in DOMAIN pcs'
                 PROVE  Open(pcs'[i]) <=> peerConnectionRef' = i
    BY DEF SingleConnection, Open
  <2>2. i # 0
    BY <1>1, <1>3
  <2> QED
    BY <1>5, <2>2
<1>8. BroadcasterKnown' /\ NoStalePicture'
  BY DEF BroadcasterKnown, NoStalePicture, Forgotten
<1> QED
  BY <1>1, <1>4, <1>5, <1>6, <1>7, <1>8 DEF PeersOK, Forgotten

(* cleanupPeerConnection, as the hook calls it.                            *)
LEMMA CleanupPeers ==
  ASSUME PeersOK, UNCHANGED mounted, mounted \in BOOLEAN, NEW state,
         NEW ps \in Seq(PeerConnections), Len(ps) = Len(pcs),
         \A i \in DOMAIN ps : Len(ps[i].chain) <= MaxOps
                              /\ (Open(ps[i]) => Open(pcs[i])),
         Cleanup(ps, state)
  PROVE  PeersOK' /\ peerConnectionRef' = 0
<1>1. remoteStream' \in {0, remoteStream} /\ (mounted' => remoteStream' = 0)
  BY DEF Cleanup, Set, NoStream
<1>2. /\ pcs' = [i \in DOMAIN ps |-> IF i = peerConnectionRef THEN Ended(ps[i]) ELSE ps[i]]
      /\ peerConnectionRef' = 0 /\ broadcasterRef' = Forgotten /\ streamRef' = 0
  BY DEF Cleanup
<1> QED
  BY <1>1, <1>2, EndPresent

(* ... on the connections as they are.                                     *)
LEMMA CleanupPresent ==
  ASSUME PeersOK, UNCHANGED mounted, mounted \in BOOLEAN, NEW state, Cleanup(pcs, state)
  PROVE  PeersOK' /\ peerConnectionRef' = 0
<1>1. pcs \in Seq(PeerConnections) /\ \A i \in DOMAIN pcs : Len(pcs[i].chain) <= MaxOps
  BY DEF PeersOK
<1> QED
  BY <1>1, CleanupPeers

(* The page after cleanupPeerConnection shows no connection state.         *)
LEMMA CleanupPage ==
  ASSUME PageOK, NEW ps, NEW state, Cleanup(ps, state)
  PROVE  connectionState' \in {Nil, "connected"}
BY DEF PageOK, Cleanup, Set, NoState

(* closeSocket leaves no socket in use.                                    *)
LEMMA CloseSocketKeeps ==
  ASSUME SocketsOK, CloseSocket, UNCHANGED connects
  PROVE  SocketsOK' /\ socketRef' = 0
<1> USE BoundAssumption
<1>1. connects' \in 0..MaxConnects /\ socketRef' = 0
  BY DEF SocketsOK, CloseSocket
<1>2. socket' \in [Connect -> {"none", "connecting", "open", "closing", "closed"}]
  BY DEF SocketsOK, CloseSocket
<1>3. attached' \in [Connect -> BOOLEAN]
  BY DEF SocketsOK, CloseSocket
<1>4. ASSUME NEW k \in Connect
      PROVE  /\ ~(attached'[k] /\ socket'[k] # "closed")
             /\ socket'[k] \notin {"connecting", "open"}
             /\ k > connects' => socket'[k] = "none" /\ ~attached'[k]
  <2>1. CASE k = socketRef
    BY <2>1, <1>4 DEF SocketsOK, CloseSocket, Closable, Connect
  <2>2. CASE k # socketRef
    BY <2>2, <1>4 DEF SocketsOK, CloseSocket, Closable
  <2> QED
    BY <2>1, <2>2
<1> QED
  BY <1>1, <1>2, <1>3, <1>4 DEF SocketsOK

(* A connection is open only with a page, a socket and a connection ref.   *)
LEMMA OpenIsPresent ==
  ASSUME IInv, NEW i \in DOMAIN pcs, Open(pcs[i])
  PROVE  /\ i = peerConnectionRef /\ i # 0 /\ socketRef # 0 /\ mounted
         /\ i \in 1..Len(pcs) /\ pcs[i] \in PeerConnections
         /\ Len(pcs[i].chain) <= MaxOps
<1>1. i \in 1..Len(pcs) /\ pcs[i] \in PeerConnections /\ Len(pcs[i].chain) <= MaxOps
  BY DEF IInv, PeersOK
<1>2. i = peerConnectionRef
  BY DEF IInv, PeersOK, SingleConnection
<1> QED
  BY <1>1, <1>2 DEF IInv, PageOK

-----------------------------------------------------------------------------
(* The steps of the user.                                                  *)

LEMMA InitHolds == Init => IInv
<1> SUFFICES ASSUME Init PROVE IInv
  OBVIOUS
<1> USE BoundAssumption
<1>1. PeersOK
  BY DEF Init, PeersOK, SingleConnection, BroadcasterKnown, NoStalePicture
<1>2. SocketsOK
  BY DEF Init, SocketsOK, Connect
<1>3. PageOK
  BY DEF Init, PageOK, PhaseMatchesConnection
<1> QED
  BY <1>1, <1>2, <1>3 DEF IInv

LEMMA ConnectSocketKeeps == ASSUME IInv, ConnectSocket PROVE IInv'
<1> USE BoundAssumption
<1>1. PeersOK'
  BY FrameOfPeers DEF IInv, ConnectSocket, peerVars
<1>2. /\ socketRef = 0 /\ peerConnectionRef = 0 /\ connects + 1 \in Connect
      /\ connects \in Nat
  BY DEF IInv, PageOK, SocketsOK, ConnectSocket, Connect
<1>3. SocketsOK'
  <2>1. ASSUME NEW k \in Connect
        PROVE  /\ attached'[k] /\ socket'[k] # "closed" => k = socketRef'
               /\ socket'[k] \in {"connecting", "open"} => k = socketRef'
               /\ k > connects' => socket'[k] = "none" /\ ~attached'[k]
    <3>1. CASE k = connects + 1
      BY <3>1, <1>2, <2>1 DEF ConnectSocket
    <3>2. CASE k # connects + 1
      <4>1. socket'[k] = socket[k] /\ attached'[k] = attached[k]
        BY <3>2, <1>2, <2>1 DEF IInv, SocketsOK, ConnectSocket
      <4>2. k # 0 /\ connects' = connects + 1
        BY <2>1 DEF Connect, ConnectSocket
      <4>3. /\ attached[k] /\ socket[k] # "closed" => k = 0
            /\ socket[k] \in {"connecting", "open"} => k = 0
            /\ k > connects => socket[k] = "none" /\ ~attached[k]
        BY <1>2, <2>1 DEF IInv, SocketsOK
      <4> QED
        BY <1>2, <2>1, <4>1, <4>2, <4>3 DEF Connect
    <3> QED
      BY <3>1, <3>2
  <2>2. /\ connects' \in 0..MaxConnects /\ socketRef' \in 0..connects'
        /\ socket' \in [Connect -> {"none", "connecting", "open", "closing", "closed"}]
        /\ attached' \in [Connect -> BOOLEAN]
    BY <1>2 DEF IInv, SocketsOK, ConnectSocket
  <2> QED
    BY <2>1, <2>2 DEF SocketsOK
<1>4. PageOK'
  <2>1. /\ mounted /\ mounted' = mounted /\ phase' = "connecting" /\ asked' = FALSE
        /\ connectionState' = Nil
    BY DEF ConnectSocket
  <2>2. peerConnectionRef' = 0 /\ socketRef' # 0
    BY <1>2 DEF ConnectSocket, peerVars, Connect
  <2> QED
    BY <2>1, <2>2 DEF IInv, PageOK, PhaseMatchesConnection
<1> QED
  BY <1>1, <1>3, <1>4 DEF IInv

LEMMA DisconnectKeeps == ASSUME IInv, Disconnect PROVE IInv'
<1>1. mounted \in BOOLEAN /\ UNCHANGED <<mounted, connects, asked>>
  BY DEF IInv, PageOK, Disconnect
<1>2. PeersOK' /\ peerConnectionRef' = 0
  BY <1>1, CleanupPresent DEF IInv, Disconnect
<1>3. SocketsOK' /\ socketRef' = 0
  BY <1>1, CloseSocketKeeps DEF IInv, Disconnect
<1>4. connectionState' \in {Nil, "connected"}
  BY CleanupPage DEF IInv, Disconnect
<1>5. PageOK'
  BY <1>1, <1>2, <1>3, <1>4 DEF IInv, PageOK, Disconnect, PhaseMatchesConnection
<1> QED
  BY <1>2, <1>3, <1>5 DEF IInv

LEMMA UnmountKeeps == ASSUME IInv, Unmount PROVE IInv'
<1>1. ~mounted' /\ UNCHANGED <<phase, connectionState, remoteStream, connects, asked>>
  BY DEF Unmount, shownVars
<1>2. PeersOK' /\ peerConnectionRef' = 0
  <2>1. /\ pcs \in Seq(PeerConnections) /\ PeersOK
        /\ \A i \in DOMAIN pcs : Len(pcs[i].chain) <= MaxOps
    BY DEF IInv, PeersOK
  <2>2. /\ pcs' = [i \in DOMAIN pcs |-> IF i = peerConnectionRef THEN Ended(pcs[i])
                                                                ELSE pcs[i]]
        /\ peerConnectionRef' = 0 /\ broadcasterRef' = Forgotten /\ streamRef' = 0
        /\ remoteStream' \in {0, remoteStream} /\ (mounted' => remoteStream' = 0)
    BY <1>1 DEF Unmount
  <2> QED
    BY <2>1, <2>2, EndPresent
<1>3. SocketsOK' /\ socketRef' = 0
  BY <1>1, CloseSocketKeeps DEF IInv, Unmount
<1>4. PageOK'
  BY <1>1, <1>2, <1>3 DEF IInv, PageOK, Unmount, PhaseMatchesConnection
<1> QED
  BY <1>2, <1>3, <1>4 DEF IInv

-----------------------------------------------------------------------------
(* The events of a socket.                                                 *)

(* A socket whose state changes remains the socket of socketRef, or goes   *)
(* out of use.                                                             *)
LEMMA SocketChanges ==
  ASSUME SocketsOK, NEW k \in Connect,
         NEW state \in {"open", "closing", "closed"},
         socket[k] \in {"connecting", "open", "closing"},
         state = "open" => socket[k] = "connecting",
         socket' = [socket EXCEPT ![k] = state],
         UNCHANGED <<connects, attached>>,
         socketRef' = socketRef
           \/ (state = "closed" /\ (attached[k] => k = socketRef)
               /\ socketRef' = 0 /\ (socketRef # 0 => socketRef = k))
  PROVE  SocketsOK'
<1> USE BoundAssumption
<1>1. ASSUME NEW m \in Connect
      PROVE  /\ attached'[m] /\ socket'[m] # "closed" => m = socketRef'
             /\ socket'[m] \in {"connecting", "open"} => m = socketRef'
             /\ m > connects' => socket'[m] = "none" /\ ~attached'[m]
  <2>1. m # 0
    BY <1>1 DEF Connect
  <2>2. CASE m = k
    BY <2>1, <2>2, <1>1 DEF SocketsOK
  <2>3. CASE m # k
    BY <2>1, <2>3, <1>1 DEF SocketsOK
  <2> QED
    BY <2>2, <2>3
<1>2. /\ connects' \in 0..MaxConnects /\ socketRef' \in 0..connects'
      /\ socket' \in [Connect -> {"none", "connecting", "open", "closing", "closed"}]
      /\ attached' \in [Connect -> BOOLEAN]
  BY DEF SocketsOK
<1> QED
  BY <1>1, <1>2 DEF SocketsOK

LEMMA SocketOpenKeeps == ASSUME IInv, NEW k \in Connect, SocketOpen(k) PROVE IInv'
<1>1. /\ socket[k] = "connecting" /\ socket' = [socket EXCEPT ![k] = "open"]
      /\ UNCHANGED <<connectionState, remoteStream, mounted, connects, socketRef,
                     attached, peerVars>>
  BY DEF SocketOpen
<1>2. k = socketRef /\ socket \in [Connect -> {"none", "connecting", "open", "closing", "closed"}]
  BY <1>1 DEF IInv, SocketsOK
<1>3. socketRef # 0 /\ peerConnectionRef = 0
  BY <1>1, <1>2 DEF IInv, PageOK, Connect
<1>4. PeersOK'
  BY <1>1, FrameOfPeers DEF IInv
<1>5. SocketsOK'
  BY <1>1, SocketChanges DEF IInv
<1>6. peerConnectionRef' = 0 /\ socketRef' # 0 /\ connectionState' = connectionState
      /\ mounted' = mounted /\ mounted \in BOOLEAN /\ asked \in BOOLEAN /\ mounted
  BY <1>1, <1>3 DEF peerVars, IInv, PageOK
<1>7. CASE attached[k]
  <2>1. phase' = "waiting-offer"
    BY <1>6, <1>7 DEF SocketOpen, Set
  <2>2. asked' \in BOOLEAN
    BY <1>7, <1>6 DEF SocketOpen
  <2> QED
    BY <1>4, <1>5, <1>6, <2>1, <2>2 DEF IInv, PageOK, PhaseMatchesConnection
<1>8. CASE ~attached[k]
  <2>1. UNCHANGED <<phase, asked>>
    BY <1>8 DEF SocketOpen
  <2> QED
    BY <1>1, <1>3, <1>4, <1>5, <1>6, <2>1 DEF IInv, PageOK, PhaseMatchesConnection
<1> QED
  BY <1>7, <1>8

LEMMA SocketClosingKeeps == ASSUME IInv, NEW k \in Connect, SocketClosing(k) PROVE IInv'
<1>1. /\ socket[k] = "open" /\ socket' = [socket EXCEPT ![k] = "closing"]
      /\ UNCHANGED <<phase, connectionState, remoteStream, mounted, connects, socketRef,
                     attached, peerVars, asked>>
  BY DEF SocketClosing, shownVars
<1>2. k = socketRef /\ socket \in [Connect -> {"none", "connecting", "open", "closing", "closed"}]
  BY <1>1 DEF IInv, SocketsOK
<1>3. PeersOK'
  BY <1>1, FrameOfPeers DEF IInv
<1>4. SocketsOK'
  BY <1>1, SocketChanges DEF IInv
<1>5. PageOK'
  BY <1>1, <1>2 DEF IInv, PageOK, PhaseMatchesConnection, peerVars
<1> QED
  BY <1>3, <1>4, <1>5 DEF IInv

LEMMA SocketClosedKeeps == ASSUME IInv, NEW k \in Connect, SocketClosed(k) PROVE IInv'
<1>1. /\ socket[k] \in {"connecting", "open", "closing"}
      /\ socket' = [socket EXCEPT ![k] = "closed"]
      /\ UNCHANGED <<mounted, connects, attached, asked>> /\ mounted \in BOOLEAN
  BY DEF SocketClosed, IInv, PageOK
<1>2. attached[k] => k = socketRef /\ socketRef # 0 /\ mounted
  BY <1>1 DEF IInv, SocketsOK, PageOK, Connect
<1>3. CASE attached[k]
  <2>1. Cleanup(pcs, connectionState) /\ socketRef' = 0 /\ phase' = "idle"
    BY <1>2, <1>3 DEF SocketClosed, Set, AfterClose
  <2>2. PeersOK' /\ peerConnectionRef' = 0
    BY <1>1, <2>1, CleanupPresent DEF IInv
  <2>3. connectionState' \in {Nil, "connected"}
    BY <2>1, CleanupPage DEF IInv
  <2>4. SocketsOK'
    BY <1>1, <1>2, <1>3, <2>1, SocketChanges DEF IInv
  <2>5. PageOK'
    BY <1>1, <2>1, <2>2, <2>3 DEF IInv, PageOK, PhaseMatchesConnection
  <2> QED
    BY <2>2, <2>4, <2>5 DEF IInv
<1>4. CASE ~attached[k]
  <2>1. UNCHANGED <<phase, connectionState, remoteStream, socketRef, peerVars>>
    BY <1>4 DEF SocketClosed, shownVars
  <2>2. PeersOK'
    BY <1>1, <2>1, FrameOfPeers DEF IInv
  <2>3. SocketsOK'
    BY <1>1, <1>4, <2>1, SocketChanges DEF IInv
  <2>4. socket \in [Connect -> {"none", "connecting", "open", "closing", "closed"}]
        /\ (socketRef # 0 => socketRef \in Connect)
    BY BoundAssumption DEF IInv, SocketsOK, Connect
  <2>5. PageOK'
    BY <1>1, <2>1, <2>4 DEF IInv, PageOK, PhaseMatchesConnection, peerVars
  <2> QED
    BY <2>2, <2>3, <2>5 DEF IInv
<1> QED
  BY <1>3, <1>4

(* A message comes only to a mounted page, on the socket of socketRef.     *)
LEMMA MessageIsCurrent ==
  ASSUME IInv, NEW k \in Connect, Message(k)
  PROVE  /\ k = socketRef /\ socketRef # 0 /\ mounted
         /\ socket[socketRef] = "open"
<1>1. k = socketRef /\ socket[k] = "open"
  BY DEF IInv, SocketsOK, Message
<1> QED
  BY <1>1 DEF IInv, PageOK, Connect

LEMMA OfferKeeps == ASSUME IInv, NEW k \in Connect, NEW s \in Sender, Offer(k, s) PROVE IInv'
<1> USE BoundAssumption
<1> DEFINE i  == IF peerConnectionRef # 0 THEN peerConnectionRef ELSE Len(pcs) + 1
           ps == IF peerConnectionRef # 0 THEN pcs ELSE Append(pcs, New(Nil, 0))
           pc == Call(ps[i], "setRemoteOffer", s)
<1>1. /\ Message(k) /\ i <= MaxPcs /\ Len(ps[i].chain) < MaxOps
      /\ pcs' = [ps EXCEPT ![i] = pc]
      /\ peerConnectionRef' = i /\ broadcasterRef' = s /\ asked' = FALSE
      /\ phase' = Set(phase, "answering")
      /\ UNCHANGED <<connectionState, remoteStream, mounted, connects, socketVars, streamRef>>
  BY DEF Offer
<1>2. /\ socketRef # 0 /\ mounted /\ socket[socketRef] = "open"
      /\ s # Nil
  BY <1>1, MessageIsCurrent, SenderAssumption
<1>3. pcs \in Seq(PeerConnections) /\ Len(pcs) \in Nat /\ peerConnectionRef \in 0..Len(pcs)
      /\ DOMAIN pcs = 1..Len(pcs) /\ Len(pcs) <= MaxPcs
      /\ \A m \in DOMAIN pcs :
           /\ Len(pcs[m].chain) <= MaxOps
           /\ Open(pcs[m]) <=> peerConnectionRef = m
  BY DEF IInv, PeersOK, SingleConnection
<1>4. New(Nil, 0) \in PeerConnections /\ New(Nil, 0).chain = <<>> /\ Open(New(Nil, 0))
  BY NewType, PcsAreTyped
<1>5. /\ ps \in Seq(PeerConnections) /\ Len(ps) <= MaxPcs /\ Len(pcs) <= Len(ps)
      /\ DOMAIN ps = 1..Len(ps) /\ Len(ps) \in Nat
      /\ \A m \in DOMAIN ps : m # i => Len(ps[m].chain) <= MaxOps
      /\ \A m \in DOMAIN ps : Open(ps[m]) <=> i = m
      /\ i \in 1..Len(ps)
  <2>1. CASE peerConnectionRef # 0
    BY <2>1, <1>3
  <2>2. CASE peerConnectionRef = 0
    <3> DEFINE new == New(Nil, 0)
    <3>1. new \in PeerConnections /\ Open(new)
      BY <1>4
    <3>2. ps = Append(pcs, new) /\ i = Len(pcs) + 1
      BY <2>2
    <3> HIDE DEF new
    <3>3. ps \in Seq(PeerConnections) /\ Len(ps) = Len(pcs) + 1 /\ DOMAIN ps = 1..(Len(pcs) + 1)
          /\ ps[Len(pcs) + 1] = new
          /\ \A m \in 1..Len(pcs) : ps[m] = pcs[m]
      <4> HIDE DEF ps
      <4> QED
        BY <1>3, <3>1, <3>2
    <3>4. i <= MaxPcs
      BY <1>1
    <3> HIDE DEF ps, i
    <3> QED
      BY <2>2, <1>3, <3>1, <3>2, <3>3, <3>4
  <2> QED
    BY <2>1, <2>2
<1> HIDE DEF i, ps
<1>6. ps[i] \in PcType({Nil}, {0}, Sender)
  BY <1>5, PcsAreTyped
<1>7. "setRemoteOffer" \in Operations
  BY DEF Operations
<1>8. /\ pc \in PeerConnections /\ Len(pc.chain) = Len(ps[i].chain) + 1
      /\ Open(pc)
  BY <1>5, <1>6, <1>7, CallType, PcsAreTyped DEF Open
<1>9. Len(ps[i].chain) \in Nat
  BY <1>6 DEF PcType
<1> HIDE DEF pc
<1>10. pcs' \in Seq(PeerConnections) /\ Len(pcs') = Len(ps) /\ DOMAIN pcs' = 1..Len(ps)
       /\ \A m \in DOMAIN pcs' : pcs'[m] = IF m = i THEN pc ELSE ps[m]
  BY <1>1, <1>5, <1>8
<1>11. PeersOK'
  <2>1. SingleConnection'
    BY <1>1, <1>5, <1>8, <1>10 DEF SingleConnection, Open
  <2>2. BroadcasterKnown' /\ NoStalePicture'
    <3>1. remoteStream \in {0, peerConnectionRef} /\ (peerConnectionRef # 0 => i = peerConnectionRef)
      BY <1>2 DEF IInv, PeersOK, NoStalePicture, i
    <3> QED
      BY <1>1, <1>2, <1>5, <3>1 DEF BroadcasterKnown, NoStalePicture
  <2>3. \A m \in DOMAIN pcs' : Len(pcs'[m].chain) <= MaxOps
    BY <1>1, <1>5, <1>8, <1>9, <1>10
  <2>4. remoteStream' \in 0..Len(pcs') /\ streamRef' \in 0..Len(pcs')
    BY <1>1, <1>3, <1>5, <1>10 DEF IInv, PeersOK
  <2> QED
    BY <1>1, <1>5, <1>10, <2>1, <2>2, <2>3, <2>4 DEF PeersOK
<1>12. SocketsOK'
  BY <1>1, FrameOfSockets DEF IInv
<1>13. PageOK'
  <2>1. phase' = "answering" /\ mounted' = mounted /\ UNCHANGED <<socket, socketRef, connectionState>>
        /\ peerConnectionRef' # 0 /\ asked' = FALSE
    BY <1>1, <1>2, <1>5 DEF Set, socketVars
  <2> QED
    BY <1>2, <2>1 DEF IInv, PageOK, PhaseMatchesConnection
<1> QED
  BY <1>11, <1>12, <1>13 DEF IInv

LEMMA BroadcasterReadyKeeps ==
  ASSUME IInv, NEW k \in Connect, BroadcasterReady(k) PROVE IInv'
<1>1. /\ UNCHANGED <<phase, connectionState, remoteStream, mounted, connects, socketVars,
                     peerVars>>
      /\ asked' = (asked \/ CanSend)
  BY DEF BroadcasterReady, RequestOffer, shownVars
<1>2. PeersOK' /\ SocketsOK'
  BY <1>1, FrameOfPeers, FrameOfSockets DEF IInv
<1>3. PageOK'
  BY <1>1 DEF IInv, PageOK, PhaseMatchesConnection, socketVars, peerVars
<1> QED
  BY <1>2, <1>3 DEF IInv

(* The handlers that clean up while the socket stays open, and show that   *)
(* the page waits for an offer.                                            *)
LEMMA WaitingKeeps ==
  ASSUME IInv, socketRef # 0, NEW ps, NEW state, Cleanup(ps, state), PeersOK',
         peerConnectionRef' = 0, phase' = Set(phase, "waiting-offer"),
         asked' \in BOOLEAN, UNCHANGED <<mounted, connects, socketVars>>
  PROVE  IInv'
<1>1. SocketsOK'
  BY FrameOfSockets DEF IInv
<1>2. connectionState' \in {Nil, "connected"}
  BY CleanupPage DEF IInv
<1>3. mounted /\ mounted' /\ phase' = "waiting-offer" /\ socketRef' # 0
  BY DEF IInv, PageOK, Set, socketVars
<1>4. PageOK'
  BY <1>2, <1>3 DEF PageOK, PhaseMatchesConnection
<1> QED
  BY <1>1, <1>4 DEF IInv

LEMMA BroadcasterLeftKeeps ==
  ASSUME IInv, NEW k \in Connect, BroadcasterLeft(k) PROVE IInv'
<1>1. /\ Message(k) /\ Cleanup(pcs, connectionState) /\ phase' = Set(phase, "waiting-offer")
      /\ UNCHANGED <<mounted, connects, socketVars, asked>>
      /\ mounted \in BOOLEAN /\ asked \in BOOLEAN
  BY DEF BroadcasterLeft, IInv, PageOK
<1>2. PeersOK' /\ peerConnectionRef' = 0
  BY <1>1, CleanupPresent DEF IInv
<1>3. socketRef # 0
  BY <1>1, MessageIsCurrent
<1> QED
  BY <1>1, <1>2, <1>3, WaitingKeeps

-----------------------------------------------------------------------------
(* The events of a connection.                                             *)

LEMMA NextCallType ==
  ASSUME NEW pc \in PcType({Nil}, {0}, Sender), NEW op, NEW s \in Sender, Open(pc)
  PROVE  /\ NextCall(pc, op, s) \in PcType({Nil}, {0}, Sender)
         /\ Len(NextCall(pc, op, s).chain) <= Len(pc.chain) + 1
         /\ Open(NextCall(pc, op, s))
<1>1. "createAnswer" \in Operations /\ "setLocalAnswer" \in Operations
  BY DEF Operations
<1>2. CASE op = "setRemoteOffer"
  <2>1. NextCall(pc, op, s) = Call(pc, "createAnswer", s)
    BY <1>2 DEF NextCall
  <2>2. Len(pc.chain) \in Nat
    BY DEF PcType
  <2> QED
    BY <1>1, <2>1, <2>2, CallType DEF Open
<1>3. CASE op = "createAnswer"
  <2>1. NextCall(pc, op, s) = Call(pc, "setLocalAnswer", s)
    BY <1>3 DEF NextCall
  <2>2. Len(pc.chain) \in Nat
    BY DEF PcType
  <2> QED
    BY <1>1, <2>1, <2>2, CallType DEF Open
<1>4. CASE op \notin {"setRemoteOffer", "createAnswer"}
  <2>1. NextCall(pc, op, s) = pc
    BY <1>4 DEF NextCall
  <2>2. Len(pc.chain) \in Nat
    BY DEF PcType
  <2> QED
    BY <2>1, <2>2
<1> QED
  BY <1>2, <1>3, <1>4

(* The present connection changes, and stays open.                         *)
LEMMA PresentChanges ==
  ASSUME PeersOK, NEW i \in DOMAIN pcs, i = peerConnectionRef,
         NEW pc \in PeerConnections, Open(pc), Len(pc.chain) <= MaxOps,
         pcs' = [pcs EXCEPT ![i] = pc],
         UNCHANGED <<mounted, peerConnectionRef, broadcasterRef>>,
         streamRef' \in {streamRef, i}, remoteStream' \in {remoteStream, i}
  PROVE  PeersOK'
<1>1. pcs \in Seq(PeerConnections) /\ Len(pcs) \in Nat /\ DOMAIN pcs = 1..Len(pcs)
  BY DEF PeersOK
<1>2. pcs' \in Seq(PeerConnections) /\ Len(pcs') = Len(pcs) /\ DOMAIN pcs' = DOMAIN pcs
      /\ \A m \in DOMAIN pcs : pcs'[m] = IF m = i THEN pc ELSE pcs[m]
  BY <1>1
<1>3. SingleConnection'
  <2>1. SUFFICES ASSUME NEW m \in DOMAIN pcs
                 PROVE  Open(pcs'[m]) <=> peerConnectionRef = m
    BY <1>2 DEF SingleConnection, Open
  <2> QED
    BY <1>2 DEF PeersOK, SingleConnection
<1>4. BroadcasterKnown' /\ NoStalePicture'
  BY DEF PeersOK, BroadcasterKnown, NoStalePicture
<1>5. \A m \in DOMAIN pcs' : Len(pcs'[m].chain) <= MaxOps
  BY <1>2 DEF PeersOK
<1>6. Len(pcs') <= MaxPcs /\ peerConnectionRef' \in 0..Len(pcs')
      /\ streamRef' \in 0..Len(pcs') /\ remoteStream' \in 0..Len(pcs')
      /\ broadcasterRef' \in Sender \cup {Nil}
  BY <1>1, <1>2 DEF PeersOK
<1> QED
  BY <1>2, <1>3, <1>4, <1>5, <1>6 DEF PeersOK

LEMMA CallResolvesKeeps ==
  ASSUME IInv, NEW i \in DOMAIN pcs, CallResolves(i) PROVE IInv'
<1> USE BoundAssumption
<1> DEFINE call == First(pcs[i])
           old  == Resolve(pcs[i])
           pc   == NextCall(old, call.op, call.arg)
<1>1. /\ Resolvable(pcs[i]) /\ pcs' = [pcs EXCEPT ![i] = pc]
      /\ UNCHANGED <<phase, connectionState, mounted, connects, socketVars,
                     peerConnectionRef, broadcasterRef, asked>>
  BY DEF CallResolves
<1>2. streamRef' \in {streamRef, i} /\ remoteStream' \in {remoteStream, i}
  BY DEF CallResolves, Track, Set
<1>3. Pending(pcs[i]) /\ Open(pcs[i])
  BY <1>1 DEF Resolvable, Pending
<1>4. /\ i = peerConnectionRef /\ pcs[i] \in PcType({Nil}, {0}, Sender)
      /\ Len(pcs[i].chain) <= MaxOps
  BY <1>3, OpenIsPresent, PcsAreTyped
<1>5. call.arg \in Sender /\ Len(pcs[i].chain) \in Nat \ {0}
  BY <1>3, <1>4, FirstType
<1>6. old \in PcType({Nil}, {0}, Sender) /\ Len(old.chain) = Len(pcs[i].chain) - 1
      /\ Open(old)
  BY <1>3, <1>4, ResolveType
<1> HIDE DEF old, call
<1>7. pc \in PcType({Nil}, {0}, Sender) /\ Len(pc.chain) <= Len(old.chain) + 1 /\ Open(pc)
  BY <1>5, <1>6, NextCallType
<1> HIDE DEF pc
<1>8. Len(pc.chain) <= MaxOps
  <2>1. Len(pc.chain) \in Nat
    BY <1>7 DEF PcType
  <2> QED
    BY <1>4, <1>5, <1>6, <1>7, <2>1
<1>9. PeersOK'
  BY <1>1, <1>2, <1>4, <1>7, <1>8, PresentChanges, PcsAreTyped DEF IInv
<1>10. SocketsOK'
  BY <1>1, FrameOfSockets DEF IInv
<1>11. PageOK'
  BY <1>1 DEF IInv, PageOK, PhaseMatchesConnection, socketVars
<1> QED
  BY <1>9, <1>10, <1>11 DEF IInv

LEMMA CallRejectsKeeps ==
  ASSUME IInv, NEW i \in DOMAIN pcs, CallRejects(i) PROVE IInv'
<1> DEFINE pc == Reject(pcs[i])
           ps == [pcs EXCEPT ![i] = pc]
<1>1. /\ Pending(pcs[i]) /\ Cleanup(ps, connectionState)
      /\ phase' = Set(phase, "waiting-offer")
      /\ UNCHANGED <<mounted, connects, socketVars, asked>>
      /\ mounted \in BOOLEAN /\ asked \in BOOLEAN
  BY DEF CallRejects, AfterFailure, IInv, PageOK
<1>2. /\ pcs[i] \in PcType({Nil}, {0}, Sender) /\ Open(pcs[i])
      /\ Len(pcs[i].chain) <= MaxOps /\ socketRef # 0
  <2>1. Open(pcs[i])
    BY <1>1 DEF Pending
  <2> QED
    BY <2>1, OpenIsPresent, PcsAreTyped
<1>3. pc \in PeerConnections /\ Len(pc.chain) <= MaxOps
  <2>1. pc \in PcType({Nil}, {0}, Sender) /\ Len(pc.chain) = Len(pcs[i].chain) - 1
        /\ Len(pcs[i].chain) \in Nat
    BY <1>1, <1>2, RejectType, FirstType
  <2> QED
    BY <1>2, <2>1, BoundAssumption, PcsAreTyped
<1> HIDE DEF pc
<1>4. pcs \in Seq(PeerConnections) /\ \A m \in DOMAIN pcs : Len(pcs[m].chain) <= MaxOps
  BY DEF IInv, PeersOK
<1>5. ps \in Seq(PeerConnections) /\ Len(ps) = Len(pcs) /\ DOMAIN ps = DOMAIN pcs
      /\ \A m \in DOMAIN ps : ps[m] = IF m = i THEN pc ELSE pcs[m]
  BY <1>3, <1>4
<1> HIDE DEF ps
<1>6. \A m \in DOMAIN ps : Len(ps[m].chain) <= MaxOps /\ (Open(ps[m]) => Open(pcs[m]))
  BY <1>2, <1>3, <1>4, <1>5
<1>7. PeersOK' /\ peerConnectionRef' = 0
  BY <1>1, <1>5, <1>6, CleanupPeers DEF IInv
<1> QED
  BY <1>1, <1>2, <1>7, WaitingKeeps

LEMMA StateChangeKeeps ==
  ASSUME IInv, NEW i \in DOMAIN pcs, StateChange(i) PROVE IInv'
<1>1. PICK state \in ConnectionState :
        /\ MayBecome(pcs[i], state)
        /\ \/ /\ state = "connected"
              /\ pcs' = [pcs EXCEPT ![i].connection = state]
              /\ connectionState' = Set(connectionState, state)
              /\ phase' = Set(phase, "watching")
              /\ UNCHANGED <<remoteStream, peerConnectionRef, broadcasterRef,
                             streamRef, asked>>
           \/ /\ state # "connected"
              /\ Cleanup([pcs EXCEPT ![i].connection = state], state)
              /\ phase' = Set(phase, "waiting-offer")
              /\ RequestOffer
        /\ UNCHANGED <<mounted, connects, socketVars>>
  BY DEF StateChange
<1> DEFINE pc == [pcs[i] EXCEPT !.connection = state]
           ps == [pcs EXCEPT ![i] = pc]
<1>2. Open(pcs[i])
  BY <1>1 DEF MayBecome
<1>3. /\ i = peerConnectionRef /\ i # 0 /\ socketRef # 0 /\ mounted
      /\ pcs[i] \in PcType({Nil}, {0}, Sender) /\ Len(pcs[i].chain) <= MaxOps
  BY <1>2, OpenIsPresent, PcsAreTyped
<1>4. pc \in PeerConnections /\ Len(pc.chain) <= MaxOps /\ Open(pc)
  BY <1>2, <1>3, BecomesType, PcsAreTyped DEF Open
<1>5. [pcs EXCEPT ![i].connection = state] = ps
  OBVIOUS
<1> HIDE DEF pc
<1>6. CASE state = "connected"
  <2>1. /\ pcs' = ps /\ connectionState' = "connected" /\ phase' = "watching"
        /\ UNCHANGED <<remoteStream, peerConnectionRef, broadcasterRef, streamRef, asked,
                       mounted, connects, socketVars>>
    BY <1>1, <1>3, <1>5, <1>6 DEF Set
  <2>2. PeersOK'
    BY <1>3, <1>4, <2>1, PresentChanges DEF IInv
  <2>3. SocketsOK'
    BY <2>1, FrameOfSockets DEF IInv
  <2>4. PageOK'
    BY <1>3, <2>1 DEF IInv, PageOK, PhaseMatchesConnection, socketVars
  <2> QED
    BY <2>2, <2>3, <2>4 DEF IInv
<1>7. CASE state # "connected"
  <2>1. Cleanup(ps, state) /\ phase' = Set(phase, "waiting-offer")
        /\ asked' = (asked \/ CanSend) /\ UNCHANGED <<mounted, connects, socketVars>>
        /\ mounted \in BOOLEAN
    BY <1>1, <1>5, <1>7 DEF RequestOffer, IInv, PageOK
  <2>2. pcs \in Seq(PeerConnections) /\ \A m \in DOMAIN pcs : Len(pcs[m].chain) <= MaxOps
    BY DEF IInv, PeersOK
  <2>3. ps \in Seq(PeerConnections) /\ Len(ps) = Len(pcs) /\ DOMAIN ps = DOMAIN pcs
        /\ \A m \in DOMAIN ps : ps[m] = IF m = i THEN pc ELSE pcs[m]
    BY <1>4, <2>2
  <2> HIDE DEF ps
  <2>4. \A m \in DOMAIN ps : Len(ps[m].chain) <= MaxOps /\ (Open(ps[m]) => Open(pcs[m]))
    BY <1>2, <1>4, <2>2, <2>3
  <2>5. PeersOK' /\ peerConnectionRef' = 0
    BY <2>1, <2>3, <2>4, CleanupPeers DEF IInv
  <2>6. asked' \in BOOLEAN
    BY <2>1
  <2> QED
    BY <1>3, <2>1, <2>5, <2>6, WaitingKeeps
<1> QED
  BY <1>6, <1>7

-----------------------------------------------------------------------------
(* The specification.                                                      *)

LEMMA StutterKeeps == ASSUME IInv, UNCHANGED vars PROVE IInv'
<1>1. PeersOK'
  BY FrameOfPeers DEF IInv, vars, shownVars
<1>2. SocketsOK'
  BY FrameOfSockets DEF IInv, vars
<1>3. PageOK'
  BY DEF IInv, PageOK, PhaseMatchesConnection, vars, shownVars, socketVars, peerVars
<1> QED
  BY <1>1, <1>2, <1>3 DEF IInv

LEMMA StepKeeps == IInv /\ [Next]_vars => IInv'
<1> SUFFICES ASSUME IInv, [Next]_vars PROVE IInv'
  OBVIOUS
<1>1. CASE User
  BY <1>1, ConnectSocketKeeps, DisconnectKeeps, UnmountKeeps DEF User
<1>2. ASSUME NEW k \in Connect, SocketEvent(k) PROVE IInv'
  BY <1>2, SocketOpenKeeps, SocketClosingKeeps, SocketClosedKeeps, OfferKeeps,
     BroadcasterReadyKeeps, BroadcasterLeftKeeps DEF SocketEvent
<1>3. ASSUME NEW i \in DOMAIN pcs, ConnectionEvent(i) PROVE IInv'
  BY <1>3, CallResolvesKeeps, CallRejectsKeeps, StateChangeKeeps DEF ConnectionEvent
<1>4. CASE UNCHANGED vars
  BY <1>4, StutterKeeps
<1> QED
  BY <1>1, <1>2, <1>3, <1>4 DEF Next

LEMMA AlwaysIInv == Spec => []IInv
<1> QED
  BY InitHolds, StepKeeps, PTL DEF Spec

(* The variables of the hook keep their types: in particular, the page     *)
(* never rests on a connection state that ends a connection, and no more   *)
(* calls are pending on a connection than the handlers start.              *)
THEOREM ViewerTyped == Spec => []TypeOK
<1>1. IInv => TypeOK
  BY DEF IInv, PeersOK, SocketsOK, PageOK, TypeOK
<1> QED
  BY <1>1, AlwaysIInv, PTL

(* At most one RTCPeerConnection is open, the one of peerConnectionRef,    *)
(* and it is not closed as long as the ref names it: overlapping offers,   *)
(* failures and disconnects leak none (cleanupPeerConnection and           *)
(* createPeerConnection in useViewer.ts).                                  *)
THEOREM OneConnection == Spec => []SingleConnection
<1>1. IInv => SingleConnection
  BY DEF IInv, PeersOK
<1> QED
  BY <1>1, AlwaysIInv, PTL

(* The addressee of local ICE candidates is known exactly as long as there *)
(* is a connection that gathers them (broadcasterRef in useViewer.ts).     *)
THEOREM AddresseeKnown == Spec => []BroadcasterKnown
<1>1. IInv => BroadcasterKnown
  BY DEF IInv, PeersOK
<1> QED
  BY <1>1, AlwaysIInv, PTL

(* The phase on the page says "answering" or "watching" exactly while the  *)
(* hook has a connection, whatever overlaps or fails (setPhase in          *)
(* useViewer.ts).                                                          *)
THEOREM PhaseIsTrue == Spec => []PhaseMatchesConnection
<1>1. IInv => PhaseMatchesConnection
  BY DEF IInv, PageOK
<1> QED
  BY <1>1, AlwaysIInv, PTL

(* The page never shows the stream of a connection that has ended          *)
(* (safeSetRemoteStream in useViewer.ts).                                  *)
THEOREM PictureIsPresent == Spec => []NoStalePicture
<1>1. IInv => NoStalePicture
  BY DEF IInv, PeersOK
<1> QED
  BY <1>1, AlwaysIInv, PTL

(* When the page is idle or gone, the hook holds neither a socket nor a    *)
(* connection, and no socket of an earlier connect is connecting or open   *)
(* (disconnect, closeSocket and the effect that unmounts in useViewer.ts). *)
THEOREM IdleHoldsNothing == Spec => []DisconnectedIsQuiet
<1>1. ASSUME IInv PROVE DisconnectedIsQuiet
  <2>1. SUFFICES ASSUME ~mounted \/ phase = "idle"
                 PROVE  /\ socketRef = 0 /\ peerConnectionRef = 0
                        /\ \A k \in Connect : socket[k] \notin {"connecting", "open"}
    BY DEF DisconnectedIsQuiet
  <2>2. socketRef = 0 /\ peerConnectionRef = 0
    BY <1>1, <2>1 DEF IInv, PageOK
  <2> QED
    BY <1>1, <2>2 DEF IInv, SocketsOK, Connect
<1> QED
  BY <1>1, AlwaysIInv, PTL
===============================================================================
