-------------------------- MODULE BroadcasterProofs --------------------------
(***************************************************************************)
(* Proofs about the broadcaster's hook: the invariants that the runs       *)
(* BroadcastMesh and BroadcastRestart check, for any number of viewers,    *)
(* starts and connections.                                                 *)
(***************************************************************************)
EXTENDS Broadcaster, PeerConnectionProofs

(* The inductive invariant, in five parts: the connections, the list of    *)
(* viewers, the streams, the sockets with the phase, and what holds only   *)
(* up to the second start.                                                 *)

(* The calls pending on a connection are about its own viewer: the catch   *)
(* of an await removes the viewer that it was called for.                  *)
OwnConnection(v) == PcType({v}, Start, {v})
Own(pc) == pc \in OwnConnection(pc.owner)

PeersOK ==
  /\ pcs \in Seq(PeerConnections) /\ Len(pcs) <= MaxPcs
  /\ \A i \in DOMAIN pcs : Own(pcs[i]) /\ Len(pcs[i].chain) <= MaxOps
  /\ conn \in [Viewer -> 0..Len(pcs)]
  /\ ConnectionsTracked

ShownOK ==
  /\ mounted \in BOOLEAN
  /\ shown \in [Viewer -> {"absent", "new", "connected"}]
  /\ ViewersShown

(* The button tells the truth about the present stream; the streams of     *)
(* later starts do not exist.                                              *)
MediaOK ==
  /\ starts \in 0..MaxStarts /\ streamRef \in 0..starts
  /\ media \in [Start -> {"none", "asking", "live", "stopped", "denied"}]
  /\ enabled \in [Start -> BOOLEAN]
  /\ indicated \in BOOLEAN /\ wanted \in BOOLEAN
  /\ \A k \in Start : k > starts => media[k] = "none"
  /\ mounted /\ streamRef # 0 => indicated = enabled[streamRef]

(* The first half of ReadyHasSocket, which holds after any number of       *)
(* starts.                                                                 *)
ReadyIsOpen ==
  mounted /\ phase = "ready" => \E k \in Start : socket[k] \in {"open", "closing"}

(* A socket comes after its stream, and socketRef names an existing one.   *)
SocketsOK ==
  /\ socketRef \in 0..starts
  /\ phase \in {"idle", "preparing-media", "connecting", "ready"}
  /\ socket \in [Start -> {"none", "connecting", "open", "closing", "closed"}]
  /\ announced \in [Start -> BOOLEAN]
  /\ ReadyIsOpen
  /\ \A k \in Start : media[k] \in {"none", "asking", "denied"} => socket[k] = "none"
  /\ socketRef # 0 => socket[socketRef] # "none"

(* As long as there was one start, socketRef is the only socket in use,    *)
(* there is none while the page is idle, no viewer without it, and the     *)
(* viewers have been told of it when the page says "ready".                *)
OnceOK ==
  starts <= 1 /\ mounted =>
    /\ phase = "idle" => socketRef = 0
    /\ phase = "ready" => socketRef # 0 /\ announced[socketRef]
    /\ socketRef = 0 => conn = NoConn
    /\ \A k \in Start : socket[k] \in {"connecting", "open"} => socketRef = k

IInv == PeersOK /\ ShownOK /\ MediaOK /\ SocketsOK /\ OnceOK

-----------------------------------------------------------------------------
(* Connections.                                                            *)

LEMMA PcsAreTyped == PeerConnections = PcType(Viewer, Start, Viewer)
BY DEF PeerConnections, PcType, Calls

LEMMA OwnIsTyped ==
  ASSUME NEW v \in Viewer, NEW pc \in OwnConnection(v)
  PROVE  pc \in PeerConnections /\ pc.owner = v /\ Own(pc) /\ Len(pc.chain) \in Nat
<1>1. /\ pc.owner = v /\ pc.chain \in Seq(Calls({v}))
      /\ pc = [owner |-> pc.owner, source |-> pc.source, signaling |-> pc.signaling,
               connection |-> pc.connection, negotiated |-> pc.negotiated,
               chain |-> pc.chain]
      /\ pc.source \in Start /\ pc.signaling \in Signaling
      /\ pc.connection \in ConnectionState /\ pc.negotiated \in BOOLEAN
  BY DEF OwnConnection, PcType
<1>2. Calls({v}) \subseteq Calls(Viewer)
  BY DEF Calls
<1>3. pc.chain \in Seq(Calls(Viewer)) /\ Len(pc.chain) \in Nat
  BY <1>1, <1>2, SeqWiden
<1>4. pc \in PcType(Viewer, Start, Viewer)
  BY <1>1, <1>3 DEF PcType
<1>5. Own(pc)
  BY <1>1 DEF Own
<1> QED
  BY <1>1, <1>3, <1>4, <1>5, PcsAreTyped

(* What is known of a connection that exists.                              *)
LEMMA PcFacts ==
  ASSUME PeersOK, NEW i \in DOMAIN pcs
  PROVE  /\ pcs[i].owner \in Viewer /\ pcs[i] \in OwnConnection(pcs[i].owner)
         /\ pcs[i] \in PeerConnections
         /\ Len(pcs[i].chain) \in Nat /\ Len(pcs[i].chain) <= MaxOps
         /\ i \in 1..Len(pcs) /\ Len(pcs) \in Nat
         /\ Open(pcs[i]) => conn[pcs[i].owner] = i
<1>1. pcs[i] \in PeerConnections /\ Own(pcs[i]) /\ Len(pcs[i].chain) <= MaxOps
      /\ i \in 1..Len(pcs) /\ Len(pcs) \in Nat
  BY DEF PeersOK
<1>2. pcs[i].owner \in Viewer
  BY <1>1 DEF PeerConnections
<1> QED
  BY <1>1, <1>2, OwnIsTyped DEF Own, PeersOK, ConnectionsTracked

(* ... and of a viewer's entry in connectionsRef.                          *)
LEMMA EntryFacts ==
  ASSUME PeersOK, NEW v \in Viewer, conn[v] # 0
  PROVE  /\ conn[v] \in DOMAIN pcs /\ Open(pcs[conn[v]]) /\ pcs[conn[v]].owner = v
BY DEF PeersOK, ConnectionsTracked

LEMMA FrameOfPeers ==
  ASSUME PeersOK, UNCHANGED peerVars
  PROVE  PeersOK'
BY DEF PeersOK, peerVars, ConnectionsTracked, Own, Open

LEMMA FrameOfShown ==
  ASSUME ShownOK, UNCHANGED <<peerVars, shown, mounted>>
  PROVE  ShownOK'
BY DEF ShownOK, peerVars, ViewersShown

(* A function from indices to connections of their own is a list of typed  *)
(* connections.                                                            *)
LEMMA ListOfOwn ==
  ASSUME NEW n \in Nat, NEW f, f = [i \in 1..n |-> f[i]],
         \A i \in 1..n : Own(f[i]) /\ f[i].owner \in Viewer
  PROVE  f \in Seq(PeerConnections) /\ Len(f) = n /\ DOMAIN f = 1..n
<1>1. \A i \in 1..n : f[i] \in PeerConnections
  BY OwnIsTyped DEF Own
<1>2. f \in [1..n -> PeerConnections]
  BY <1>1
<1> QED
  BY <1>2, SeqOfFunction

(* An open connection changes, and stays open.                             *)
LEMMA OneChanges ==
  ASSUME PeersOK, NEW i \in DOMAIN pcs, Open(pcs[i]),
         NEW pc \in OwnConnection(pcs[i].owner), Open(pc), Len(pc.chain) <= MaxOps,
         pcs' = [pcs EXCEPT ![i] = pc], UNCHANGED conn
  PROVE  PeersOK'
<1>1. pcs[i].owner \in Viewer /\ pc \in PeerConnections /\ Own(pc) /\ pc.owner = pcs[i].owner
  BY PcFacts, OwnIsTyped
<1>2. pcs \in Seq(PeerConnections) /\ Len(pcs) \in Nat
  BY DEF PeersOK
<1>3. /\ pcs' \in Seq(PeerConnections) /\ Len(pcs') = Len(pcs) /\ DOMAIN pcs' = DOMAIN pcs
      /\ \A m \in DOMAIN pcs : pcs'[m] = IF m = i THEN pc ELSE pcs[m]
  BY <1>1, <1>2
<1>4. \A m \in DOMAIN pcs' : Own(pcs'[m]) /\ Len(pcs'[m].chain) <= MaxOps
  BY <1>1, <1>3 DEF PeersOK
<1>5. ConnectionsTracked'
  <2>1. ASSUME NEW m \in DOMAIN pcs', Open(pcs'[m])
        PROVE  conn[pcs'[m].owner] = m
    BY <1>1, <1>3, <2>1 DEF PeersOK, ConnectionsTracked
  <2>2. ASSUME NEW v \in Viewer, conn[v] # 0
        PROVE  Open(pcs'[conn[v]]) /\ pcs'[conn[v]].owner = v
    BY <1>1, <1>3, <2>2, EntryFacts
  <2> QED
    BY <2>1, <2>2 DEF ConnectionsTracked, Open
<1> QED
  BY <1>3, <1>4, <1>5 DEF PeersOK

(* ... while its connection state is what the page shows of it.            *)
LEMMA OneShown ==
  ASSUME PeersOK, ShownOK, NEW i \in DOMAIN pcs, Open(pcs[i]), NEW pc,
         pcs' = [pcs EXCEPT ![i] = pc], UNCHANGED <<conn, mounted>>,
         NEW state \in {"absent", "new", "connected"}, pc.connection = state,
         \/ shown' = Set(shown, [shown EXCEPT ![pcs[i].owner] = state])
         \/ UNCHANGED shown /\ state = pcs[i].connection
  PROVE  ShownOK'
<1>1. pcs[i].owner \in Viewer /\ conn[pcs[i].owner] = i
  BY PcFacts
<1>2. shown' \in [Viewer -> {"absent", "new", "connected"}] /\ mounted' \in BOOLEAN
  BY DEF ShownOK, Set
<1>3. ASSUME mounted', NEW v \in Viewer
      PROVE  shown'[v] = IF conn[v] = 0 THEN "absent" ELSE pcs'[conn[v]].connection
  <2>1. shown[v] = IF conn[v] = 0 THEN "absent" ELSE pcs[conn[v]].connection
    BY <1>3 DEF ShownOK, ViewersShown
  <2>2. i # 0
    BY PcFacts
  <2>3. CASE v = pcs[i].owner
    <3>1. pcs'[conn[v]] = pc /\ conn[v] # 0
      BY <1>1, <2>2, <2>3
    <3> QED
      BY <1>1, <1>3, <2>1, <2>3, <3>1 DEF ShownOK, Set
  <2>4. CASE v # pcs[i].owner
    <3>1. shown'[v] = shown[v]
      BY <2>4 DEF ShownOK, Set
    <3>2. conn[v] # 0 => pcs'[conn[v]] = pcs[conn[v]]
      BY <1>3, <2>4, EntryFacts
    <3> QED
      BY <2>1, <3>1, <3>2
  <2> QED
    BY <2>3, <2>4
<1> QED
  BY <1>2, <1>3 DEF ShownOK, ViewersShown

(* removeViewer, whether or not the viewer has a connection, on a list ps  *)
(* that differs from the connections only in what is pending.              *)
LEMMA RemoveKeeps ==
  ASSUME PeersOK, ShownOK, NEW ps \in Seq(PeerConnections), Len(ps) = Len(pcs),
         \A m \in DOMAIN ps :
           /\ Own(ps[m]) /\ Len(ps[m].chain) <= MaxOps
           /\ ps[m].owner = pcs[m].owner /\ ps[m].connection = pcs[m].connection
           /\ Open(ps[m]) <=> Open(pcs[m]),
         NEW v \in Viewer, RemoveViewer(ps, v), UNCHANGED mounted
  PROVE  PeersOK' /\ ShownOK' /\ conn' = [conn EXCEPT ![v] = 0]
<1> DEFINE pc(m) == IF m = conn[v] THEN Close(ps[m]) ELSE ps[m]
           n     == Len(ps)
<1> USE BoundAssumption
<1>1. /\ n \in Nat /\ DOMAIN ps = 1..n /\ DOMAIN pcs = 1..n /\ Len(pcs) = n
      /\ conn \in [Viewer -> 0..n] /\ n <= MaxPcs
  BY DEF PeersOK
<1>2. ASSUME NEW m \in 1..n
      PROVE  /\ Own(pc(m)) /\ pc(m).owner = pcs[m].owner /\ pcs[m].owner \in Viewer
             /\ Len(pc(m).chain) <= MaxOps
             /\ Open(pc(m)) <=> (Open(pcs[m]) /\ m # conn[v])
             /\ m # conn[v] => pc(m).connection = pcs[m].connection
  <2>1. pcs[m].owner \in Viewer
    BY <1>1, PcFacts
  <2>2. /\ Own(ps[m]) /\ ps[m].owner = pcs[m].owner /\ Len(ps[m].chain) <= MaxOps
        /\ ps[m].connection = pcs[m].connection
        /\ Open(ps[m]) <=> Open(pcs[m])
    BY <1>1
  <2>3. CASE m = conn[v]
    <3>1. ps[m] \in PcType({ps[m].owner}, Start, {ps[m].owner})
      BY <2>2 DEF Own, OwnConnection
    <3>2. /\ Close(ps[m]) \in OwnConnection(ps[m].owner) /\ ~Open(Close(ps[m]))
          /\ Close(ps[m]).chain = <<>>
      BY <3>1, CloseType DEF OwnConnection
    <3>3. pc(m) = Close(ps[m])
      BY <2>3
    <3> HIDE DEF pc
    <3>4. Len(pc(m).chain) <= MaxOps
      BY <3>2, <3>3
    <3>5. Own(pc(m)) /\ pc(m).owner = ps[m].owner /\ ~Open(pc(m))
      BY <2>1, <2>2, <3>2, <3>3, OwnIsTyped
    <3> QED
      BY <2>1, <2>2, <2>3, <3>4, <3>5
  <2>4. CASE m # conn[v]
    <3>1. pc(m) = ps[m]
      BY <2>4
    <3> HIDE DEF pc
    <3> QED
      BY <2>1, <2>2, <2>4, <3>1
  <2> QED
    BY <2>3, <2>4
<1>3. pcs' = [m \in 1..n |-> pc(m)] /\ conn' = [conn EXCEPT ![v] = 0]
  BY <1>1 DEF RemoveViewer
<1> HIDE DEF pc
<1>4. \A m \in 1..n : pcs'[m] = pc(m)
  BY <1>3
<1>5. pcs' \in Seq(PeerConnections) /\ Len(pcs') = n /\ DOMAIN pcs' = 1..n
  <2>1. \A m \in 1..n : Own(pcs'[m]) /\ pcs'[m].owner \in Viewer
    BY <1>2, <1>4
  <2>2. pcs' = [m \in 1..n |-> pcs'[m]]
    BY <1>3, <1>4
  <2> HIDE DEF n
  <2> QED
    BY <1>1, <2>1, <2>2, ListOfOwn
<1>6. \A u \in Viewer : conn'[u] = IF u = v THEN 0 ELSE conn[u]
  BY <1>1, <1>3
<1> HIDE DEF n
<1>7. ConnectionsTracked'
  <2>1. ASSUME NEW m \in 1..n, Open(pcs'[m])
        PROVE  conn'[pcs'[m].owner] = m
    <3>1. Open(pcs[m]) /\ m # conn[v] /\ pcs'[m].owner = pcs[m].owner
      BY <1>2, <1>4, <2>1
    <3>2. conn[pcs[m].owner] = m /\ pcs[m].owner \in Viewer
      BY <1>1, <3>1, PcFacts
    <3> QED
      BY <1>6, <3>1, <3>2
  <2>2. ASSUME NEW u \in Viewer, conn'[u] # 0
        PROVE  Open(pcs'[conn'[u]]) /\ pcs'[conn'[u]].owner = u
    <3>1. u # v /\ conn'[u] = conn[u] /\ conn[u] # 0
      BY <1>6, <2>2
    <3>2. conn[u] \in 1..n /\ Open(pcs[conn[u]]) /\ pcs[conn[u]].owner = u
      BY <1>1, <3>1, EntryFacts
    <3>3. conn[u] # conn[v]
      BY <3>1, <3>2, EntryFacts
    <3> QED
      BY <1>2, <1>4, <3>1, <3>2, <3>3
  <2> QED
    BY <1>5, <2>1, <2>2 DEF ConnectionsTracked, Open
<1>8. PeersOK'
  <2>1. conn' \in [Viewer -> 0..Len(pcs')]
    BY <1>1, <1>3, <1>5
  <2>2. \A m \in DOMAIN pcs' : Own(pcs'[m]) /\ Len(pcs'[m].chain) <= MaxOps
    BY <1>2, <1>4, <1>5
  <2> QED
    BY <1>1, <1>5, <1>7, <2>1, <2>2 DEF PeersOK
<1>9. ShownOK'
  <2>1. shown' = IF mounted THEN [shown EXCEPT ![v] = "absent"] ELSE shown
    BY DEF RemoveViewer, Set, Unlisted
  <2>2. shown' \in [Viewer -> {"absent", "new", "connected"}] /\ mounted' \in BOOLEAN
    BY <2>1 DEF ShownOK
  <2>3. ASSUME mounted', NEW u \in Viewer
        PROVE  shown'[u] = IF conn'[u] = 0 THEN "absent" ELSE pcs'[conn'[u]].connection
    <3>1. CASE u = v
      BY <1>6, <2>1, <2>3, <3>1 DEF ShownOK
    <3>2. CASE u # v
      <4>1. shown'[u] = shown[u] /\ conn'[u] = conn[u]
        BY <1>6, <2>1, <3>2 DEF ShownOK
      <4>2. shown[u] = IF conn[u] = 0 THEN "absent" ELSE pcs[conn[u]].connection
        BY <2>3 DEF ShownOK, ViewersShown
      <4>3. ASSUME conn[u] # 0
            PROVE  pcs'[conn[u]].connection = pcs[conn[u]].connection
        <5>1. conn[u] \in 1..n /\ conn[u] # conn[v]
          BY <1>1, <3>2, <4>3, EntryFacts
        <5> QED
          BY <1>2, <1>4, <5>1
      <4> QED
        BY <4>1, <4>2, <4>3
    <3> QED
      BY <3>1, <3>2
  <2> QED
    BY <2>2, <2>3 DEF ShownOK, ViewersShown
<1> QED
  BY <1>3, <1>8, <1>9

(* ... on the connections as they are.                                     *)
LEMMA RemovePresent ==
  ASSUME PeersOK, ShownOK, NEW v \in Viewer, RemoveViewer(pcs, v), UNCHANGED mounted
  PROVE  PeersOK' /\ ShownOK' /\ conn' = [conn EXCEPT ![v] = 0]
<1>1. pcs \in Seq(PeerConnections)
      /\ \A m \in DOMAIN pcs : Own(pcs[m]) /\ Len(pcs[m].chain) <= MaxOps
  BY DEF PeersOK
<1> QED
  BY <1>1, RemoveKeeps

(* resetViewers closes every connection.                                   *)
LEMMA ResetKeeps ==
  ASSUME PeersOK, ShownOK, ResetViewers,
         \/ shown' = NoneShown /\ UNCHANGED mounted
         \/ UNCHANGED shown /\ mounted' = FALSE
  PROVE  PeersOK' /\ ShownOK' /\ conn' = NoConn
<1> DEFINE held(m) == \E v \in Viewer : conn[v] = m
           pc(m) == IF held(m) THEN Close(pcs[m]) ELSE pcs[m]
           n     == Len(pcs)
<1> USE BoundAssumption
<1>1. n \in Nat /\ DOMAIN pcs = 1..n /\ n <= MaxPcs
  BY DEF PeersOK
<1>2. ASSUME NEW m \in 1..n
      PROVE  /\ Own(pc(m)) /\ pc(m).owner \in Viewer
             /\ Len(pc(m).chain) <= MaxOps /\ ~Open(pc(m))
  <2>1. /\ pcs[m].owner \in Viewer /\ pcs[m] \in OwnConnection(pcs[m].owner)
        /\ Len(pcs[m].chain) <= MaxOps
        /\ Open(pcs[m]) => conn[pcs[m].owner] = m
    BY <1>1, PcFacts
  <2>2. CASE held(m)
    <3>1. /\ Close(pcs[m]) \in OwnConnection(pcs[m].owner) /\ ~Open(Close(pcs[m]))
          /\ Close(pcs[m]).chain = <<>>
      BY <2>1, CloseType DEF OwnConnection
    <3>2. pc(m) = Close(pcs[m])
      BY <2>2
    <3> HIDE DEF pc
    <3>3. Len(pc(m).chain) <= MaxOps
      BY <3>1, <3>2
    <3> QED
      BY <2>1, <3>1, <3>2, <3>3, OwnIsTyped
  <2>3. CASE ~held(m)
    <3>1. pc(m) = pcs[m] /\ ~Open(pcs[m])
      BY <2>1, <2>3
    <3> HIDE DEF pc
    <3> QED
      BY <2>1, <3>1, OwnIsTyped
  <2> QED
    BY <2>2, <2>3
<1>3. pcs' = [m \in 1..n |-> pc(m)] /\ conn' = NoConn
  BY <1>1 DEF ResetViewers
<1> HIDE DEF pc
<1>4. \A m \in 1..n : pcs'[m] = pc(m)
  BY <1>3
<1>5. pcs' \in Seq(PeerConnections) /\ Len(pcs') = n /\ DOMAIN pcs' = 1..n
  <2>1. \A m \in 1..n : Own(pcs'[m]) /\ pcs'[m].owner \in Viewer
    BY <1>2, <1>4
  <2>2. pcs' = [m \in 1..n |-> pcs'[m]]
    BY <1>3, <1>4
  <2> HIDE DEF n
  <2> QED
    BY <1>1, <2>1, <2>2, ListOfOwn
<1>6. PeersOK'
  <2>1. conn' \in [Viewer -> 0..Len(pcs')] /\ \A v \in Viewer : conn'[v] = 0
    BY <1>1, <1>3, <1>5 DEF NoConn
  <2>2. \A m \in DOMAIN pcs' : Own(pcs'[m]) /\ Len(pcs'[m].chain) <= MaxOps /\ ~Open(pcs'[m])
    BY <1>2, <1>4, <1>5
  <2>3. ConnectionsTracked'
    BY <2>1, <2>2 DEF ConnectionsTracked, Open
  <2> QED
    BY <1>1, <1>5, <2>1, <2>2, <2>3 DEF PeersOK
<1>7. ShownOK'
  BY <1>3 DEF ShownOK, ViewersShown, NoneShown, NoConn
<1> QED
  BY <1>3, <1>6, <1>7

-----------------------------------------------------------------------------
(* The frames of the other parts.                                          *)

LEMMA FrameOfMedia ==
  ASSUME MediaOK, UNCHANGED <<mediaVars, indicated, userVars>>
  PROVE  MediaOK'
BY DEF MediaOK, mediaVars, userVars

LEMMA FrameOfSockets ==
  ASSUME SocketsOK, UNCHANGED <<phase, socketVars, media, mounted, starts>>
  PROVE  SocketsOK'
BY DEF SocketsOK, socketVars, ReadyIsOpen

(* The steps that change connections only, and add none.                   *)
LEMMA PeersOnly ==
  ASSUME IInv, PeersOK', ShownOK',
         UNCHANGED <<phase, indicated, mediaVars, socketVars, userVars>>,
         UNCHANGED conn \/ \E v \in Viewer : conn' = [conn EXCEPT ![v] = 0]
  PROVE  IInv'
<1>1. MediaOK'
  BY FrameOfMedia DEF IInv
<1>2. SocketsOK'
  BY FrameOfSockets DEF IInv, mediaVars, userVars
<1>3. OnceOK'
  <2>1. conn = NoConn => conn' = NoConn
    BY DEF NoConn
  <2> QED
    BY <2>1 DEF IInv, OnceOK, socketVars, userVars
<1> QED
  BY <1>1, <1>2, <1>3 DEF IInv

-----------------------------------------------------------------------------
(* The steps of the user.                                                  *)

LEMMA InitHolds == Init => IInv
<1> SUFFICES ASSUME Init PROVE IInv
  OBVIOUS
<1> USE BoundAssumption
<1>1. PeersOK
  BY DEF Init, PeersOK, ConnectionsTracked, NoConn
<1>2. ShownOK
  BY DEF Init, ShownOK, ViewersShown, NoneShown, NoConn
<1>3. MediaOK
  <2>1. enabled \in [Start -> BOOLEAN] /\ indicated = TRUE /\ wanted = FALSE
    BY DEF Init
  <2>2. starts = 0 /\ streamRef = 0 /\ media = [k \in Start |-> "none"]
    BY DEF Init
  <2>3. media \in [Start -> {"none", "asking", "live", "stopped", "denied"}]
        /\ starts \in 0..MaxStarts /\ streamRef \in 0..starts
    BY <2>2
  <2>4. \A k \in Start : media[k] = "none"
    BY <2>2
  <2>5. indicated \in BOOLEAN /\ wanted \in BOOLEAN
    BY <2>1
  <2> QED
    BY <2>1, <2>2, <2>3, <2>4, <2>5 DEF MediaOK
<1>4. SocketsOK
  BY DEF Init, SocketsOK, ReadyIsOpen
<1>5. OnceOK
  BY DEF Init, OnceOK
<1> QED
  BY <1>1, <1>2, <1>3, <1>4, <1>5 DEF IInv

LEMMA StartBroadcastKeeps == ASSUME IInv, StartBroadcast PROVE IInv'
<1> USE BoundAssumption
<1>1. /\ mounted /\ starts < MaxStarts /\ starts' = starts + 1 /\ starts \in Nat
      /\ media' = [media EXCEPT ![starts + 1] = "asking"]
      /\ phase' = "preparing-media" /\ wanted' = TRUE
      /\ UNCHANGED <<shown, indicated, mounted, streamRef, enabled, socketVars, peerVars>>
      /\ starts + 1 \in Start
  BY DEF StartBroadcast, IInv, MediaOK, Start
<1>2. PeersOK' /\ ShownOK'
  BY <1>1, FrameOfPeers, FrameOfShown DEF IInv
<1>3. MediaOK'
  <2>1. ASSUME NEW k \in Start, k > starts' PROVE media'[k] = "none"
    BY <1>1, <2>1 DEF IInv, MediaOK, Start
  <2>2. starts' \in 0..MaxStarts /\ streamRef' \in 0..starts'
    BY <1>1 DEF IInv, MediaOK
  <2> QED
    BY <1>1, <2>1, <2>2 DEF IInv, MediaOK
<1>4. SocketsOK'
  <2>1. socketRef' \in 0..starts' /\ ReadyIsOpen'
    <3>1. socketRef \in 0..starts /\ socketRef' = socketRef
      BY <1>1 DEF IInv, SocketsOK, socketVars
    <3>2. phase' # "ready"
      BY <1>1
    <3> QED
      BY <1>1, <3>1, <3>2 DEF ReadyIsOpen
  <2>2. ASSUME NEW k \in Start, media'[k] \in {"none", "asking", "denied"}
        PROVE  socket'[k] = "none"
    <3>1. media[k] \in {"none", "asking", "denied"}
      <4>1. CASE k = starts + 1
        BY <1>1, <4>1 DEF IInv, MediaOK
      <4>2. CASE k # starts + 1
        BY <1>1, <2>2, <4>2 DEF IInv, MediaOK
      <4> QED
        BY <4>1, <4>2
    <3> QED
      BY <1>1, <3>1 DEF IInv, SocketsOK, socketVars
  <2> QED
    BY <1>1, <2>1, <2>2 DEF IInv, SocketsOK, socketVars
<1>5. OnceOK'
  <2>1. starts' <= 1 => starts <= 1
    BY <1>1
  <2>2. UNCHANGED <<conn, socket, socketRef, mounted>> /\ phase' = "preparing-media"
    BY <1>1 DEF socketVars, peerVars
  <2> QED
    BY <2>1, <2>2 DEF IInv, OnceOK
<1> QED
  BY <1>2, <1>3, <1>4, <1>5 DEF IInv

(* closeSocket and stopTracks, in stop and on the unmount.                 *)
LEMMA StoppedKeeps ==
  ASSUME IInv, CloseSocket, StopTracks, PeersOK', ShownOK', conn' = NoConn,
         wanted' = FALSE, UNCHANGED <<indicated, starts, enabled, announced>>,
         \/ phase' = "idle" /\ UNCHANGED mounted
         \/ UNCHANGED phase /\ mounted' = FALSE
  PROVE  IInv'
<1> USE BoundAssumption
<1>1. /\ socketRef' = 0 /\ streamRef' = 0 /\ starts \in Nat
      /\ \A k \in Start :
           /\ media'[k] = IF k = streamRef THEN "stopped" ELSE media[k]
           /\ socket'[k] = IF k = socketRef /\ socket[k] \in {"connecting", "open"}
                           THEN "closing" ELSE socket[k]
      /\ media' \in [Start -> {"none", "asking", "live", "stopped", "denied"}]
      /\ socket' \in [Start -> {"none", "connecting", "open", "closing", "closed"}]
  BY DEF CloseSocket, StopTracks, IInv, MediaOK, SocketsOK
<1>2. MediaOK'
  <2>1. ASSUME NEW k \in Start, k > starts' PROVE media'[k] = "none"
    <3>1. streamRef \in 0..starts /\ starts' = starts /\ k \in Nat
      BY <2>1 DEF IInv, MediaOK, Start
    <3>2. k > starts /\ k # streamRef
      BY <1>1, <2>1, <3>1
    <3>3. media[k] = "none"
      BY <2>1, <3>2 DEF IInv, MediaOK
    <3> QED
      BY <1>1, <2>1, <3>2, <3>3
  <2>2. indicated' \in BOOLEAN /\ wanted' \in BOOLEAN /\ enabled' \in [Start -> BOOLEAN]
        /\ starts' \in 0..MaxStarts
    BY DEF IInv, MediaOK
  <2>3. streamRef' = 0 /\ streamRef' \in 0..starts'
    BY <1>1
  <2> QED
    BY <1>1, <2>1, <2>2, <2>3 DEF MediaOK
<1>3. SocketsOK'
  <2>1. ASSUME NEW k \in Start, media'[k] \in {"none", "asking", "denied"}
        PROVE  socket'[k] = "none"
    <3>1. media[k] \in {"none", "asking", "denied"}
      BY <1>1, <2>1
    <3>2. socket[k] = "none"
      BY <3>1 DEF IInv, SocketsOK
    <3> QED
      BY <1>1, <3>2
  <2>2. ReadyIsOpen' /\ phase' \in {"idle", "preparing-media", "connecting", "ready"}
    BY DEF ReadyIsOpen, IInv, SocketsOK
  <2> QED
    BY <1>1, <2>1, <2>2 DEF IInv, SocketsOK
<1>4. OnceOK'
  <2>1. ASSUME starts' <= 1, mounted', NEW k \in Start
        PROVE  socket'[k] \notin {"connecting", "open"}
    <3>1. starts <= 1 /\ mounted
      BY <2>1 DEF IInv, ShownOK
    <3>2. socket[k] \in {"connecting", "open"} => socketRef = k
      BY <2>1, <3>1 DEF IInv, OnceOK
    <3> QED
      BY <1>1, <3>2
  <2> QED
    BY <1>1, <2>1 DEF OnceOK
<1> QED
  BY <1>2, <1>3, <1>4 DEF IInv

LEMMA StopKeeps == ASSUME IInv, Stop PROVE IInv'
<1>1. PeersOK' /\ ShownOK' /\ conn' = NoConn
  BY ResetKeeps DEF IInv, Stop
<1> QED
  BY <1>1, StoppedKeeps DEF Stop

LEMMA UnmountKeeps == ASSUME IInv, Unmount PROVE IInv'
<1>1. PeersOK' /\ ShownOK' /\ conn' = NoConn
  BY ResetKeeps DEF IInv, Unmount, shownVars
<1> QED
  BY <1>1, StoppedKeeps DEF Unmount, shownVars

LEMMA ToggleTrackKeeps == ASSUME IInv, ToggleTrack PROVE IInv'
<1> USE BoundAssumption
<1>1. /\ mounted /\ streamRef # 0
      /\ enabled' = [enabled EXCEPT ![streamRef] = ~enabled[streamRef]]
      /\ indicated' = ~enabled[streamRef]
      /\ UNCHANGED <<phase, shown, media, streamRef, socketVars, peerVars, userVars>>
      /\ streamRef \in Start
  BY DEF ToggleTrack, IInv, MediaOK, Start
<1>2. PeersOK' /\ ShownOK'
  BY <1>1, FrameOfPeers, FrameOfShown DEF IInv, userVars
<1>3. MediaOK'
  <2>1. enabled[streamRef] \in BOOLEAN
    BY <1>1 DEF IInv, MediaOK
  <2>2. indicated' \in BOOLEAN /\ indicated' = enabled'[streamRef']
    BY <1>1, <2>1 DEF IInv, MediaOK
  <2>3. enabled' \in [Start -> BOOLEAN]
    BY <1>1, <2>1 DEF IInv, MediaOK
  <2> QED
    BY <1>1, <2>2, <2>3 DEF IInv, MediaOK, userVars
<1>4. SocketsOK'
  BY <1>1, FrameOfSockets DEF IInv, userVars
<1>5. OnceOK'
  BY <1>1 DEF IInv, OnceOK, socketVars, peerVars, userVars
<1> QED
  BY <1>2, <1>3, <1>4, <1>5 DEF IInv

-----------------------------------------------------------------------------
(* The continuation of the await of getUserMedia.                          *)

(* A request is under way only for a start that was made, and its socket   *)
(* does not exist yet.                                                     *)
LEMMA AskingFacts ==
  ASSUME IInv, NEW k \in Start, media[k] = "asking"
  PROVE  /\ k \in Nat \ {0} /\ starts \in Nat /\ k <= starts
         /\ socket[k] = "none" /\ socketRef # k
<1>1. k \in Nat \ {0} /\ starts \in Nat
  BY BoundAssumption DEF IInv, MediaOK, Start
<1>2. k <= starts
  BY <1>1 DEF IInv, MediaOK
<1>3. socket[k] = "none"
  BY DEF IInv, SocketsOK
<1> QED
  BY <1>1, <1>2, <1>3 DEF IInv, SocketsOK

LEMMA GrantedKeeps == ASSUME IInv, NEW k \in Start, Granted(k) PROVE IInv'
<1> USE BoundAssumption
<1>1. /\ media[k] = "asking" /\ media' = [media EXCEPT ![k] = "live"]
      /\ streamRef' = k /\ socketRef' = k
      /\ socket' = [socket EXCEPT ![k] = "connecting"]
      /\ indicated' = Set(indicated, enabled[k])
      /\ phase' = Set(phase, "connecting")
      /\ UNCHANGED <<shown, enabled, announced, peerVars, userVars>>
  BY DEF Granted, ShownEnabled
<1>2. k \in Nat \ {0} /\ starts \in Nat /\ k <= starts
  BY <1>1, AskingFacts
<1>3. PeersOK' /\ ShownOK'
  BY <1>1, FrameOfPeers, FrameOfShown DEF IInv, userVars
<1>4. MediaOK'
  <2>1. streamRef' \in 0..starts' /\ starts' \in 0..MaxStarts /\ wanted' \in BOOLEAN
        /\ enabled' = enabled /\ enabled \in [Start -> BOOLEAN] /\ mounted' = mounted
    BY <1>1, <1>2 DEF IInv, MediaOK, userVars
  <2>2. media' \in [Start -> {"none", "asking", "live", "stopped", "denied"}]
    BY <1>1 DEF IInv, MediaOK
  <2>3. ASSUME NEW m \in Start, m > starts' PROVE media'[m] = "none"
    <3>1. m # k /\ m > starts
      BY <1>1, <1>2, <2>3 DEF userVars
    <3> QED
      BY <1>1, <2>3, <3>1 DEF IInv, MediaOK
  <2>4. indicated' \in BOOLEAN /\ (mounted => indicated' = enabled[k])
    BY <1>1, <2>1 DEF IInv, MediaOK, Set
  <2> QED
    BY <1>1, <2>1, <2>2, <2>3, <2>4 DEF MediaOK
<1>5. SocketsOK'
  <2>1. socketRef' \in 0..starts' /\ announced' \in [Start -> BOOLEAN]
    BY <1>1, <1>2 DEF IInv, SocketsOK, userVars
  <2>2. socket' \in [Start -> {"none", "connecting", "open", "closing", "closed"}]
        /\ socket'[socketRef'] # "none"
    BY <1>1 DEF IInv, SocketsOK
  <2>3. phase' \in {"idle", "preparing-media", "connecting", "ready"}
        /\ (mounted' => phase' = "connecting")
    BY <1>1 DEF IInv, SocketsOK, Set, userVars
  <2>4. ReadyIsOpen'
    BY <2>3 DEF ReadyIsOpen
  <2>5. ASSUME NEW m \in Start, media'[m] \in {"none", "asking", "denied"}
        PROVE  socket'[m] = "none"
    <3>1. m # k /\ media[m] = media'[m] /\ socket'[m] = socket[m]
      BY <1>1, <2>5 DEF IInv, MediaOK, SocketsOK
    <3> QED
      BY <2>5, <3>1 DEF IInv, SocketsOK
  <2> QED
    BY <2>1, <2>2, <2>3, <2>4, <2>5 DEF SocketsOK
<1>6. OnceOK'
  <2>1. SUFFICES ASSUME starts' <= 1, mounted'
                 PROVE  /\ phase' \notin {"idle", "ready"} /\ socketRef' # 0
                        /\ \A m \in Start : socket'[m] \in {"connecting", "open"} => m = k
    BY <1>1 DEF OnceOK
  <2>2. phase' = "connecting" /\ starts <= 1 /\ mounted
    BY <1>1, <2>1 DEF Set, userVars
  <2>3. ASSUME NEW m \in Start, m # k PROVE socket'[m] = "none"
    <3>1. m > starts
      BY <1>2, <2>2, <2>3 DEF Start
    <3>2. socket[m] = "none"
      BY <3>1 DEF IInv, MediaOK, SocketsOK
    <3> QED
      BY <1>1, <2>3, <3>2 DEF IInv, SocketsOK
  <2> QED
    BY <1>1, <1>2, <2>2, <2>3
<1> QED
  BY <1>3, <1>4, <1>5, <1>6 DEF IInv

LEMMA DeniedKeeps == ASSUME IInv, NEW k \in Start, Denied(k) PROVE IInv'
<1> USE BoundAssumption
<1>1. /\ media[k] = "asking" /\ streamRef' = 0 /\ phase' = Set(phase, "idle")
      /\ media' = [m \in Start |-> IF m = k THEN "denied"
                                   ELSE IF m = streamRef THEN "stopped" ELSE media[m]]
      /\ UNCHANGED <<shown, indicated, enabled, socketVars, peerVars, userVars>>
  BY DEF Denied
<1>2. /\ k \in Nat \ {0} /\ starts \in Nat /\ k <= starts
      /\ socket[k] = "none" /\ socketRef # k
  BY <1>1, AskingFacts
<1>3. PeersOK' /\ ShownOK'
  BY <1>1, FrameOfPeers, FrameOfShown DEF IInv, userVars
<1>4. MediaOK'
  <2>1. streamRef' \in 0..starts' /\ starts' \in 0..MaxStarts /\ wanted' \in BOOLEAN
        /\ enabled' \in [Start -> BOOLEAN] /\ indicated' \in BOOLEAN
    BY <1>1, <1>2 DEF IInv, MediaOK, userVars
  <2>2. media' \in [Start -> {"none", "asking", "live", "stopped", "denied"}]
    BY <1>1 DEF IInv, MediaOK
  <2>3. ASSUME NEW m \in Start, m > starts' PROVE media'[m] = "none"
    <3>1. m # k /\ m > starts
      BY <1>1, <1>2, <2>3 DEF userVars
    <3>2. m # streamRef
      BY <1>2, <3>1 DEF IInv, MediaOK
    <3> QED
      BY <1>1, <2>3, <3>1, <3>2 DEF IInv, MediaOK
  <2> QED
    BY <1>1, <2>1, <2>2, <2>3 DEF MediaOK
<1>5. SocketsOK'
  <2>1. socketRef' \in 0..starts' /\ announced' \in [Start -> BOOLEAN]
        /\ socket' \in [Start -> {"none", "connecting", "open", "closing", "closed"}]
        /\ (socketRef' # 0 => socket'[socketRef'] # "none")
    BY <1>1 DEF IInv, SocketsOK, socketVars, userVars
  <2>2. phase' \in {"idle", "preparing-media", "connecting", "ready"}
        /\ (mounted' => phase' = "idle")
    BY <1>1 DEF IInv, SocketsOK, Set, userVars
  <2>3. ReadyIsOpen'
    BY <2>2 DEF ReadyIsOpen
  <2>4. ASSUME NEW m \in Start, media'[m] \in {"none", "asking", "denied"}
        PROVE  socket'[m] = "none"
    <3>1. CASE m = k
      BY <1>1, <1>2, <3>1 DEF socketVars
    <3>2. CASE m # k
      <4>1. media[m] = media'[m]
        BY <1>1, <2>4, <3>2
      <4> QED
        BY <1>1, <2>4, <4>1 DEF IInv, SocketsOK, socketVars
    <3> QED
      BY <3>1, <3>2
  <2> QED
    BY <2>1, <2>2, <2>3, <2>4 DEF SocketsOK
<1>6. OnceOK'
  <2>1. UNCHANGED <<starts, mounted, conn, socket, socketRef>>
    BY <1>1 DEF socketVars, peerVars, userVars
  <2>2. starts <= 1 => socketRef = 0
    BY <1>2 DEF IInv, SocketsOK
  <2>3. mounted => phase' = "idle"
    BY <1>1 DEF Set
  <2> QED
    BY <2>1, <2>2, <2>3 DEF IInv, OnceOK
<1> QED
  BY <1>3, <1>4, <1>5, <1>6 DEF IInv

-----------------------------------------------------------------------------
(* The events of a socket.                                                 *)

(* An existing socket changes its state, while the page stays as it is     *)
(* with its viewers.                                                       *)
LEMMA SocketChanges ==
  ASSUME IInv, NEW k \in Start, NEW state \in {"open", "closing"},
         socket[k] \in {"connecting", "open"},
         socket' = [socket EXCEPT ![k] = state],
         UNCHANGED <<shown, indicated, mediaVars, socketRef, peerVars, userVars>>,
         announced' \in [Start -> BOOLEAN],
         \A m \in Start : announced[m] => announced'[m],
         \/ phase' = phase
         \/ phase' = "ready" /\ state = "open" /\ (mounted /\ socketRef = k => announced'[k])
  PROVE  IInv'
<1>1. PeersOK' /\ ShownOK' /\ MediaOK'
  BY FrameOfPeers, FrameOfShown, FrameOfMedia DEF IInv, userVars
<1>2. socket \in [Start -> {"none", "connecting", "open", "closing", "closed"}]
      /\ UNCHANGED <<starts, mounted, media, conn>>
  BY DEF IInv, SocketsOK, userVars, mediaVars, peerVars
<1>3. \A m \in Start : socket'[m] = IF m = k THEN state ELSE socket[m]
  BY <1>2
<1>4. SocketsOK'
  <2>1. ReadyIsOpen'
    <3>1. SUFFICES ASSUME mounted', phase' = "ready"
                   PROVE  \E m \in Start : socket'[m] \in {"open", "closing"}
      BY DEF ReadyIsOpen
    <3> QED
      BY <1>3
  <2>2. ASSUME NEW m \in Start, media'[m] \in {"none", "asking", "denied"}
        PROVE  socket'[m] = "none"
    <3>1. socket[m] = "none"
      BY <1>2, <2>2 DEF IInv, SocketsOK
    <3> QED
      BY <1>3, <3>1
  <2>3. socketRef' # 0 => socket'[socketRef'] # "none"
    BY <1>2 DEF IInv, SocketsOK
  <2>4. socketRef' \in 0..starts' /\ phase' \in {"idle", "preparing-media", "connecting", "ready"}
        /\ socket' \in [Start -> {"none", "connecting", "open", "closing", "closed"}]
    BY <1>2 DEF IInv, SocketsOK
  <2> QED
    BY <2>1, <2>2, <2>3, <2>4 DEF SocketsOK
<1>5. OnceOK'
  <2>1. SUFFICES ASSUME starts <= 1, mounted
                 PROVE  /\ phase' = "idle" => socketRef = 0
                        /\ phase' = "ready" => socketRef # 0 /\ announced'[socketRef]
                        /\ socketRef = 0 => conn = NoConn
                        /\ \A m \in Start : socket'[m] \in {"connecting", "open"} => socketRef = m
    BY <1>2 DEF OnceOK
  <2>2. /\ phase = "idle" => socketRef = 0
        /\ phase = "ready" => socketRef # 0 /\ announced[socketRef]
        /\ socketRef = 0 => conn = NoConn
        /\ \A m \in Start : socket[m] \in {"connecting", "open"} => socketRef = m
    BY <2>1 DEF IInv, OnceOK
  <2>3. socketRef = k /\ socketRef # 0
    BY <2>2 DEF Start
  <2>4. phase' = "ready" => announced'[socketRef]
    BY <2>1, <2>2, <2>3
  <2> QED
    BY <1>3, <2>2, <2>3, <2>4
<1> QED
  BY <1>1, <1>4, <1>5 DEF IInv

LEMMA SocketOpenKeeps == ASSUME IInv, NEW k \in Start, SocketOpen(k) PROVE IInv'
<1>1. /\ socket[k] = "connecting" /\ announced \in [Start -> BOOLEAN]
      /\ UNCHANGED <<shown, indicated, mediaVars, socketRef, peerVars, userVars>>
  BY DEF SocketOpen, IInv, SocketsOK
<1>2. CASE Abandoned(k)
  <2>1. socket' = [socket EXCEPT ![k] = "closing"] /\ UNCHANGED <<phase, announced>>
    BY <1>2 DEF SocketOpen
  <2> QED
    BY <1>1, <2>1, SocketChanges
<1>3. CASE ~Abandoned(k)
  <2>1. /\ socket' = [socket EXCEPT ![k] = "open"] /\ phase' = "ready"
        /\ announced' = [a \in Start |-> announced[a] \/
                           (a = socketRef /\ socket'[a] = "open")]
    BY <1>3 DEF SocketOpen
  <2>2. announced' \in [Start -> BOOLEAN] /\ \A m \in Start : announced[m] => announced'[m]
    BY <2>1
  <2>3. socketRef = k => announced'[k]
    BY <1>1, <2>1 DEF IInv, SocketsOK
  <2> QED
    BY <1>1, <2>1, <2>2, <2>3, SocketChanges
<1> QED
  BY <1>2, <1>3

LEMMA SocketClosingKeeps == ASSUME IInv, NEW k \in Start, SocketClosing(k) PROVE IInv'
<1>1. /\ socket[k] = "open" /\ announced' \in [Start -> BOOLEAN] /\ UNCHANGED announced
      /\ socket' = [socket EXCEPT ![k] = "closing"]
      /\ UNCHANGED <<shown, phase, indicated, mediaVars, socketRef, peerVars, userVars>>
  BY DEF SocketClosing, shownVars, IInv, SocketsOK
<1> QED
  BY <1>1, SocketChanges

LEMMA SocketClosedKeeps == ASSUME IInv, NEW k \in Start, SocketClosed(k) PROVE IInv'
<1> USE BoundAssumption
<1>1. /\ socket[k] \in {"connecting", "open", "closing"}
      /\ socket' = [socket EXCEPT ![k] = "closed"]
      /\ UNCHANGED <<indicated, mediaVars, announced, userVars>>
      /\ socket \in [Start -> {"none", "connecting", "open", "closing", "closed"}]
      /\ UNCHANGED <<starts, mounted, media>>
  BY DEF SocketClosed, IInv, SocketsOK, userVars, mediaVars
<1>2. \A m \in Start : socket'[m] = IF m = k THEN "closed" ELSE socket[m]
  BY <1>1
<1>3. MediaOK'
  BY <1>1, FrameOfMedia DEF IInv
<1>4. CASE mounted
  <2>1. ResetViewers /\ shown' = NoneShown /\ socketRef' = 0 /\ phase' = "idle"
    BY <1>4 DEF SocketClosed, Resets, AfterClose
  <2>2. PeersOK' /\ ShownOK' /\ conn' = NoConn
    BY <1>1, <2>1, ResetKeeps DEF IInv
  <2>3. SocketsOK'
    <3>1. ASSUME NEW m \in Start, media'[m] \in {"none", "asking", "denied"}
          PROVE  socket'[m] = "none"
      <4>1. socket[m] = "none"
        BY <1>1, <3>1 DEF IInv, SocketsOK
      <4> QED
        BY <1>1, <1>2, <4>1
    <3>2. ReadyIsOpen'
      BY <2>1 DEF ReadyIsOpen
    <3>3. /\ socketRef' \in 0..starts' /\ announced' \in [Start -> BOOLEAN]
          /\ socket' \in [Start -> {"none", "connecting", "open", "closing", "closed"}]
      BY <1>1, <2>1 DEF IInv, SocketsOK, MediaOK
    <3> QED
      BY <2>1, <3>1, <3>2, <3>3 DEF SocketsOK
  <2>4. OnceOK'
    <3>1. ASSUME starts <= 1, NEW m \in Start, socket'[m] \in {"connecting", "open"}
          PROVE  FALSE
      <4>1. m # k /\ socket[m] \in {"connecting", "open"}
        BY <1>2, <3>1
      <4>2. media[m] # "none" /\ media[k] # "none"
        BY <1>1, <4>1 DEF IInv, SocketsOK
      <4>3. ~(m > starts) /\ ~(k > starts) /\ starts \in Nat
        BY <4>2 DEF IInv, MediaOK
      <4> QED
        BY <3>1, <4>1, <4>3 DEF Start
    <3> QED
      BY <1>1, <2>1, <2>2, <3>1 DEF OnceOK
  <2> QED
    BY <1>3, <2>2, <2>3, <2>4 DEF IInv
<1>5. CASE ~mounted
  <2>1. UNCHANGED <<peerVars, shown, socketRef, phase>>
    BY <1>5 DEF SocketClosed
  <2>2. PeersOK' /\ ShownOK'
    BY <1>1, <2>1, FrameOfPeers, FrameOfShown DEF IInv
  <2>3. SocketsOK'
    <3>1. ASSUME NEW m \in Start, media'[m] \in {"none", "asking", "denied"}
          PROVE  socket'[m] = "none"
      <4>1. socket[m] = "none"
        BY <1>1, <3>1 DEF IInv, SocketsOK
      <4> QED
        BY <1>1, <1>2, <4>1
    <3>2. ReadyIsOpen'
      BY <1>1, <1>5 DEF ReadyIsOpen
    <3>3. socketRef' # 0 => socket'[socketRef'] # "none"
      BY <1>1, <2>1 DEF IInv, SocketsOK
    <3>4. /\ socketRef' \in 0..starts' /\ announced' \in [Start -> BOOLEAN]
          /\ phase' \in {"idle", "preparing-media", "connecting", "ready"}
          /\ socket' \in [Start -> {"none", "connecting", "open", "closing", "closed"}]
      BY <1>1, <2>1 DEF IInv, SocketsOK
    <3> QED
      BY <3>1, <3>2, <3>3, <3>4 DEF SocketsOK
  <2>4. OnceOK'
    BY <1>1, <1>5 DEF OnceOK
  <2> QED
    BY <1>3, <2>2, <2>3, <2>4 DEF IInv
<1> QED
  BY <1>4, <1>5

-----------------------------------------------------------------------------
(* The messages of a viewer.                                               *)

(* A call on an open connection about its own viewer.                      *)
LEMMA CallKeeps ==
  ASSUME IInv, NEW i \in DOMAIN pcs, Open(pcs[i]), Len(pcs[i].chain) < MaxOps,
         NEW op \in Operations, NEW v \in Viewer, v = pcs[i].owner,
         pcs' = [pcs EXCEPT ![i] = Call(@, op, v)], UNCHANGED <<conn, shown>>,
         UNCHANGED <<phase, indicated, mediaVars, socketVars, userVars>>
  PROVE  IInv'
<1> USE BoundAssumption
<1> DEFINE pc == Call(pcs[i], op, v)
<1>1. pcs[i] \in OwnConnection(v) /\ Len(pcs[i].chain) \in Nat
  BY PcFacts DEF IInv
<1>2. pc \in OwnConnection(v) /\ Len(pc.chain) = Len(pcs[i].chain) + 1
      /\ pc.connection = pcs[i].connection /\ Open(pc)
  BY <1>1, CallType DEF OwnConnection, Open
<1>3. pcs' = [pcs EXCEPT ![i] = pc]
  OBVIOUS
<1> HIDE DEF pc
<1>4. Len(pc.chain) <= MaxOps
  BY <1>1, <1>2
<1>5. PeersOK'
  BY <1>2, <1>3, <1>4, OneChanges DEF IInv
<1>6. pc.connection \in {"absent", "new", "connected"} => ShownOK'
  BY <1>2, <1>3, OneShown DEF IInv, userVars
<1>7. mounted => pc.connection \in {"absent", "new", "connected"}
  <2>1. v \in Viewer /\ conn[v] = i /\ i # 0
    BY PcFacts DEF IInv
  <2> QED
    BY <1>2, <2>1 DEF IInv, ShownOK, ViewersShown
<1>8. ~mounted => ShownOK'
  BY DEF IInv, ShownOK, ViewersShown, userVars
<1> QED
  BY <1>5, <1>6, <1>7, <1>8, PeersOnly

LEMMA ViewerReadyKeeps ==
  ASSUME IInv, NEW k \in Start, NEW v \in Viewer, ViewerReady(k, v) PROVE IInv'
<1> USE BoundAssumption
<1>1. /\ socket[k] = "open" /\ streamRef # 0
      /\ UNCHANGED <<phase, indicated, mediaVars, socketVars, userVars>>
  BY DEF ViewerReady
<1>2. "createOffer" \in Operations
  BY DEF Operations
<1>3. CASE conn[v] # 0
  <2>1. /\ Len(pcs[conn[v]].chain) < MaxOps
        /\ pcs' = [pcs EXCEPT ![conn[v]] = Call(@, "createOffer", v)]
        /\ UNCHANGED <<conn, shown>>
    BY <1>3 DEF ViewerReady, Existing
  <2>2. conn[v] \in DOMAIN pcs /\ Open(pcs[conn[v]]) /\ pcs[conn[v]].owner = v
    BY <1>3, EntryFacts DEF IInv
  <2> QED
    BY <1>1, <1>2, <2>1, <2>2, CallKeeps
<1>4. CASE conn[v] = 0
  <2> DEFINE pc == Call(New(v, streamRef), "createOffer", v)
             n  == Len(pcs)
  <2>1. /\ n < MaxPcs /\ pcs' = Append(pcs, pc)
        /\ conn' = [conn EXCEPT ![v] = n + 1]
        /\ shown' = Set(shown, [shown EXCEPT ![v] = "new"])
    BY <1>4 DEF ViewerReady, Existing
  <2>2. streamRef \in Start
    BY <1>1 DEF IInv, MediaOK, Start
  <2>4. pc \in OwnConnection(v) /\ Len(pc.chain) = 1 /\ Open(pc) /\ pc.connection = "new"
    BY <1>2, <2>2, NewCallType DEF OwnConnection
  <2> HIDE DEF pc
  <2>5. pc \in PeerConnections /\ pc.owner = v /\ Own(pc)
    BY <2>4, OwnIsTyped
  <2>6. pcs \in Seq(PeerConnections) /\ n \in Nat /\ DOMAIN pcs = 1..n
        /\ conn \in [Viewer -> 0..n]
    BY DEF IInv, PeersOK
  <2>7. /\ pcs' \in Seq(PeerConnections) /\ Len(pcs') = n + 1 /\ DOMAIN pcs' = 1..(n + 1)
        /\ pcs'[n + 1] = pc /\ \A m \in 1..n : pcs'[m] = pcs[m]
    BY <2>1, <2>5, <2>6
  <2> HIDE DEF n
  <2>8. \A u \in Viewer : conn'[u] = IF u = v THEN n + 1 ELSE conn[u]
    BY <2>1, <2>6
  <2>9. n + 1 # 0 /\ n + 1 <= MaxPcs
    BY <2>1, <2>6
  <2>10. ConnectionsTracked'
    <3>1. ASSUME NEW m \in 1..(n + 1), Open(pcs'[m])
          PROVE  conn'[pcs'[m].owner] = m
      <4>1. CASE m = n + 1
        BY <2>5, <2>7, <2>8, <4>1
      <4>2. CASE m # n + 1
        <5>1. m \in DOMAIN pcs /\ pcs'[m] = pcs[m]
          BY <2>6, <2>7, <3>1, <4>2
        <5>2. pcs[m].owner \in Viewer /\ conn[pcs[m].owner] = m /\ m # 0
          BY <3>1, <5>1, PcFacts DEF IInv
        <5> QED
          BY <1>4, <2>8, <5>1, <5>2
      <4> QED
        BY <4>1, <4>2
    <3>2. ASSUME NEW u \in Viewer, conn'[u] # 0
          PROVE  Open(pcs'[conn'[u]]) /\ pcs'[conn'[u]].owner = u
      <4>1. CASE u = v
        BY <2>4, <2>5, <2>7, <2>8, <4>1
      <4>2. CASE u # v
        <5>1. conn'[u] = conn[u] /\ conn[u] # 0
          BY <2>8, <3>2, <4>2
        <5>2. conn[u] \in 1..n /\ Open(pcs[conn[u]]) /\ pcs[conn[u]].owner = u
          BY <2>6, <5>1, EntryFacts DEF IInv
        <5> QED
          BY <2>7, <5>1, <5>2
      <4> QED
        BY <4>1, <4>2
    <3> QED
      BY <2>7, <3>1, <3>2 DEF ConnectionsTracked, Open
  <2>11. PeersOK'
    <3>1. \A m \in DOMAIN pcs' : Own(pcs'[m]) /\ Len(pcs'[m].chain) <= MaxOps
      <4>1. \A m \in 1..n : Own(pcs[m]) /\ Len(pcs[m].chain) <= MaxOps
        BY <2>6 DEF IInv, PeersOK
      <4>2. Own(pc) /\ Len(pc.chain) <= MaxOps
        BY <2>4, <2>5
      <4> QED
        BY <2>6, <2>7, <4>1, <4>2
    <3>2. conn' \in [Viewer -> 0..Len(pcs')]
      BY <2>1, <2>6, <2>7
    <3> QED
      BY <2>7, <2>9, <2>10, <3>1, <3>2 DEF PeersOK
  <2>12. ShownOK'
    <3>1. shown' = IF mounted THEN [shown EXCEPT ![v] = "new"] ELSE shown
      BY <2>1 DEF Set
    <3>2. shown' \in [Viewer -> {"absent", "new", "connected"}]
          /\ mounted' = mounted /\ mounted \in BOOLEAN
      BY <1>1, <3>1 DEF IInv, ShownOK, userVars
    <3>3. ASSUME mounted, NEW u \in Viewer
          PROVE  shown'[u] = IF conn'[u] = 0 THEN "absent" ELSE pcs'[conn'[u]].connection
      <4>1. CASE u = v
        BY <2>4, <2>7, <2>8, <2>9, <3>1, <3>3, <4>1 DEF IInv, ShownOK
      <4>2. CASE u # v
        <5>1. conn'[u] = conn[u] /\ shown'[u] = shown[u]
          BY <2>8, <3>1, <4>2 DEF IInv, ShownOK
        <5>2. shown[u] = IF conn[u] = 0 THEN "absent" ELSE pcs[conn[u]].connection
          BY <3>3 DEF IInv, ShownOK, ViewersShown
        <5>3. conn[u] # 0 => pcs'[conn[u]] = pcs[conn[u]]
          BY <2>6, <2>7, EntryFacts DEF IInv
        <5> QED
          BY <5>1, <5>2, <5>3
      <4> QED
        BY <4>1, <4>2
    <3> QED
      BY <3>2, <3>3 DEF ShownOK, ViewersShown
  <2>13. MediaOK' /\ SocketsOK'
    BY <1>1, FrameOfMedia, FrameOfSockets DEF IInv, mediaVars, userVars
  <2>14. OnceOK'
    <3>1. UNCHANGED <<starts, mounted, phase, socket, socketRef, announced>>
      BY <1>1 DEF socketVars, userVars
    <3>2. starts <= 1 /\ mounted => socketRef = k /\ k # 0
      BY <1>1 DEF IInv, OnceOK, Start
    <3> QED
      BY <3>1, <3>2 DEF IInv, OnceOK
  <2> QED
    BY <2>11, <2>12, <2>13, <2>14 DEF IInv
<1> QED
  BY <1>3, <1>4

LEMMA AnswerFromKeeps ==
  ASSUME IInv, NEW k \in Start, NEW v \in Viewer, AnswerFrom(k, v) PROVE IInv'
<1>1. /\ conn[v] # 0 /\ Len(pcs[conn[v]].chain) < MaxOps
      /\ pcs' = [pcs EXCEPT ![conn[v]] = Call(@, "setRemoteAnswer", v)]
      /\ UNCHANGED <<conn, shown>>
      /\ UNCHANGED <<phase, indicated, mediaVars, socketVars, userVars>>
  BY DEF AnswerFrom, shownVars
<1>2. conn[v] \in DOMAIN pcs /\ Open(pcs[conn[v]]) /\ pcs[conn[v]].owner = v
  BY <1>1, EntryFacts DEF IInv
<1>3. "setRemoteAnswer" \in Operations
  BY DEF Operations
<1> QED
  BY <1>1, <1>2, <1>3, CallKeeps

LEMMA ViewerLeftKeeps ==
  ASSUME IInv, NEW k \in Start, NEW v \in Viewer, ViewerLeft(k, v) PROVE IInv'
<1>1. /\ RemoveViewer(pcs, v)
      /\ UNCHANGED <<phase, indicated, mediaVars, socketVars, userVars>>
      /\ UNCHANGED mounted
  BY DEF ViewerLeft, userVars
<1>2. PeersOK' /\ ShownOK' /\ conn' = [conn EXCEPT ![v] = 0]
  BY <1>1, RemovePresent DEF IInv
<1> QED
  BY <1>1, <1>2, PeersOnly

-----------------------------------------------------------------------------
(* The events of a connection.                                             *)

LEMMA CallResolvesKeeps ==
  ASSUME IInv, NEW i \in DOMAIN pcs, CallResolves(i) PROVE IInv'
<1> DEFINE v    == pcs[i].owner
           next == Resolve(pcs[i])
           pc   == IF First(pcs[i]).op = "createOffer"
                   THEN Call(next, "setLocalOffer", next.owner) ELSE next
<1>1. /\ Pending(pcs[i]) /\ pcs' = [pcs EXCEPT ![i] = pc]
      /\ UNCHANGED <<shown, phase, indicated, mediaVars, socketVars, conn, userVars>>
  BY DEF CallResolves, Resolvable, shownVars
<1>2. /\ v \in Viewer /\ pcs[i] \in PcType({v}, Start, {v}) /\ Open(pcs[i])
      /\ Len(pcs[i].chain) \in Nat /\ Len(pcs[i].chain) <= MaxOps
      /\ conn[v] = i /\ i # 0
  <2>1. PeersOK /\ Open(pcs[i])
    BY <1>1 DEF IInv, Pending
  <2> QED
    BY <2>1, PcFacts DEF OwnConnection
<1>3. /\ next \in PcType({v}, Start, {v}) /\ Open(next)
      /\ Len(next.chain) = Len(pcs[i].chain) - 1
      /\ next.connection = pcs[i].connection
  BY <1>1, <1>2, ResolveType
<1>4. next.owner = v /\ Len(next.chain) \in Nat
  BY <1>2, <1>3, OwnIsTyped DEF OwnConnection
<1> HIDE DEF next, v
<1>5. /\ pc \in PcType({v}, Start, {v}) /\ Open(pc) /\ Len(pc.chain) <= MaxOps
      /\ pc.connection = pcs[i].connection
  <2>1. CASE First(pcs[i]).op = "createOffer"
    <3>1. "setLocalOffer" \in Operations /\ v \in {v}
      BY DEF Operations
    <3>2. pc = Call(next, "setLocalOffer", v)
      BY <1>4, <2>1
    <3>3. /\ Call(next, "setLocalOffer", v) \in PcType({v}, Start, {v})
          /\ Len(Call(next, "setLocalOffer", v).chain) = Len(next.chain) + 1
          /\ Call(next, "setLocalOffer", v).connection = next.connection
          /\ Call(next, "setLocalOffer", v).signaling = next.signaling
      BY <1>3, <3>1, CallType
    <3> HIDE DEF pc
    <3> QED
      BY <1>2, <1>3, <1>4, <3>2, <3>3, BoundAssumption DEF Open
  <2>2. CASE First(pcs[i]).op # "createOffer"
    <3>1. pc = next
      BY <2>2
    <3> HIDE DEF pc
    <3> QED
      BY <1>2, <1>3, <3>1, BoundAssumption
  <2> QED
    BY <2>1, <2>2
<1> HIDE DEF pc
<1>6. PeersOK'
  BY <1>1, <1>2, <1>5, OneChanges DEF IInv, OwnConnection, v
<1>7. ShownOK'
  <2>1. mounted => pc.connection \in {"absent", "new", "connected"}
    BY <1>2, <1>5 DEF IInv, ShownOK, ViewersShown
  <2>2. pc.connection \in {"absent", "new", "connected"} => ShownOK'
    BY <1>1, <1>2, <1>5, OneShown DEF IInv, userVars
  <2>3. ~mounted => ShownOK'
    BY <1>1 DEF IInv, ShownOK, ViewersShown, userVars
  <2> QED
    BY <2>1, <2>2, <2>3
<1> QED
  BY <1>1, <1>6, <1>7, PeersOnly

(* The catch of an await removes the viewer of the connection that it      *)
(* belongs to.                                                             *)
LEMMA CallRejectsKeeps ==
  ASSUME IInv, NEW i \in DOMAIN pcs, CallRejects(i) PROVE IInv'
<1> DEFINE v  == pcs[i].owner
           pc == Reject(pcs[i])
           ps == [pcs EXCEPT ![i] = pc]
<1>1. /\ Pending(pcs[i]) /\ RemoveViewer(ps, First(pcs[i]).arg)
      /\ UNCHANGED <<phase, indicated, mediaVars, socketVars, userVars>>
      /\ UNCHANGED mounted
  BY DEF CallRejects, userVars
<1>2. /\ v \in Viewer /\ pcs[i] \in PcType({v}, Start, {v}) /\ Open(pcs[i])
      /\ Len(pcs[i].chain) \in Nat /\ Len(pcs[i].chain) <= MaxOps
  <2>1. PeersOK /\ Open(pcs[i])
    BY <1>1 DEF IInv, Pending
  <2> QED
    BY <2>1, PcFacts DEF OwnConnection
<1>3. First(pcs[i]).arg = v
  <2>1. First(pcs[i]).arg \in {v}
    BY <1>1, <1>2, FirstType
  <2> QED
    BY <2>1
<1>4. /\ pc \in PcType({v}, Start, {v}) /\ Open(pc)
      /\ Len(pc.chain) = Len(pcs[i].chain) - 1
      /\ pc.connection = pcs[i].connection
  BY <1>1, <1>2, RejectType
<1>5. Own(pc) /\ pc.owner = v /\ pc \in PeerConnections /\ Len(pc.chain) <= MaxOps
  BY <1>2, <1>4, OwnIsTyped, BoundAssumption DEF OwnConnection
<1> HIDE DEF pc
<1>6. pcs \in Seq(PeerConnections)
      /\ \A m \in DOMAIN pcs : Own(pcs[m]) /\ Len(pcs[m].chain) <= MaxOps
  BY DEF IInv, PeersOK
<1>7. ps \in Seq(PeerConnections) /\ Len(ps) = Len(pcs) /\ DOMAIN ps = DOMAIN pcs
      /\ \A m \in DOMAIN ps : ps[m] = IF m = i THEN pc ELSE pcs[m]
  BY <1>5, <1>6
<1> HIDE DEF ps
<1>8. \A m \in DOMAIN ps :
        /\ Own(ps[m]) /\ Len(ps[m].chain) <= MaxOps
        /\ ps[m].owner = pcs[m].owner /\ ps[m].connection = pcs[m].connection
        /\ Open(ps[m]) <=> Open(pcs[m])
  BY <1>2, <1>4, <1>5, <1>6, <1>7
<1> HIDE DEF v
<1>9. PeersOK' /\ ShownOK' /\ conn' = [conn EXCEPT ![v] = 0]
  BY <1>1, <1>2, <1>3, <1>7, <1>8, RemoveKeeps DEF IInv
<1> QED
  BY <1>1, <1>2, <1>9, PeersOnly

LEMMA StateChangeKeeps ==
  ASSUME IInv, NEW i \in DOMAIN pcs, StateChange(i) PROVE IInv'
<1> DEFINE v == pcs[i].owner
<1>1. PICK state \in ConnectionState :
        /\ MayBecome(pcs[i], state)
        /\ \/ /\ IsDown(state)
              /\ RemoveViewer(pcs, v)
           \/ /\ ~IsDown(state)
              /\ pcs' = [pcs EXCEPT ![i].connection = state]
              /\ shown' = Set(shown, [shown EXCEPT ![v] = state])
              /\ UNCHANGED conn
        /\ UNCHANGED <<phase, indicated, mediaVars, socketVars, userVars>>
  BY DEF StateChange
<1>2. /\ v \in Viewer /\ pcs[i] \in PcType({v}, Start, {v}) /\ Open(pcs[i])
      /\ Len(pcs[i].chain) <= MaxOps /\ UNCHANGED mounted
  <2>1. PeersOK /\ Open(pcs[i]) /\ UNCHANGED mounted
    BY <1>1 DEF IInv, MayBecome, userVars
  <2> QED
    BY <2>1, PcFacts DEF OwnConnection
<1>3. CASE IsDown(state)
  <2>1. RemoveViewer(pcs, v)
    BY <1>1, <1>3
  <2> HIDE DEF v
  <2>2. PeersOK' /\ ShownOK' /\ conn' = [conn EXCEPT ![v] = 0]
    BY <1>2, <2>1, RemovePresent DEF IInv
  <2> QED
    BY <1>1, <1>2, <2>2, PeersOnly
<1>4. CASE ~IsDown(state)
  <2> DEFINE pc == [pcs[i] EXCEPT !.connection = state]
  <2>1. /\ pcs' = [pcs EXCEPT ![i] = pc] /\ UNCHANGED conn
        /\ shown' = Set(shown, [shown EXCEPT ![v] = state])
    BY <1>1, <1>4
  <2>2. state = "connected"
    BY <1>1, <1>4 DEF MayBecome, IsDown
  <2>3. /\ pc \in PcType({v}, Start, {v}) /\ pc.chain = pcs[i].chain
        /\ pc.signaling = pcs[i].signaling /\ pc.connection = state
    BY <1>2, BecomesType
  <2> HIDE DEF pc
  <2>4. PeersOK'
    BY <1>2, <2>1, <2>3, OneChanges DEF IInv, OwnConnection, Open
  <2>5. ShownOK'
    BY <1>2, <2>1, <2>2, <2>3, OneShown DEF IInv
  <2> QED
    BY <1>1, <2>1, <2>4, <2>5, PeersOnly
<1> QED
  BY <1>3, <1>4

-----------------------------------------------------------------------------
(* The specification.                                                      *)

LEMMA StutterKeeps == ASSUME IInv, UNCHANGED vars PROVE IInv'
<1>1. UNCHANGED <<shown, phase, indicated, mediaVars, socketVars, peerVars, userVars>>
  BY DEF vars, shownVars
<1>2. PeersOK' /\ ShownOK'
  BY <1>1, FrameOfPeers, FrameOfShown DEF IInv, userVars
<1> QED
  BY <1>1, <1>2, PeersOnly DEF peerVars

LEMMA StepKeeps == IInv /\ [Next]_vars => IInv'
<1> SUFFICES ASSUME IInv, [Next]_vars PROVE IInv'
  OBVIOUS
<1>1. CASE User
  BY <1>1, StartBroadcastKeeps, StopKeeps, UnmountKeeps, ToggleTrackKeeps DEF User
<1>2. ASSUME NEW k \in Start, Granted(k) \/ Denied(k) \/ SocketEvent(k) PROVE IInv'
  BY <1>2, GrantedKeeps, DeniedKeeps, SocketOpenKeeps, SocketClosingKeeps,
     SocketClosedKeeps, ViewerReadyKeeps, AnswerFromKeeps, ViewerLeftKeeps
     DEF SocketEvent
<1>3. ASSUME NEW i \in DOMAIN pcs, ConnectionEvent(i) PROVE IInv'
  BY <1>3, CallResolvesKeeps, CallRejectsKeeps, StateChangeKeeps DEF ConnectionEvent
<1>4. CASE UNCHANGED vars
  BY <1>4, StutterKeeps
<1> QED
  BY <1>1, <1>2, <1>3, <1>4 DEF Next

LEMMA AlwaysIInv == Spec => []IInv
<1> QED
  BY InitHolds, StepKeeps, PTL DEF Spec

(* The variables of the hook keep their types: in particular, no viewer is *)
(* ever listed in a state in which it would have to be gone.               *)
THEOREM BroadcasterTyped == Spec => []TypeOK
<1>1. IInv => TypeOK
  BY DEF IInv, PeersOK, ShownOK, MediaOK, SocketsOK, TypeOK
<1> QED
  BY <1>1, AlwaysIInv, PTL

(* The RTCPeerConnections that are not closed are exactly the entries of   *)
(* connectionsRef, each under its own viewer, whatever continuations,      *)
(* events, messages and stops come in between (createPeerConnection,       *)
(* removeViewer and resetViewers in useBroadcaster.ts).                    *)
THEOREM NoConnectionLeaks == Spec => []ConnectionsTracked
<1>1. IInv => ConnectionsTracked
  BY DEF IInv, PeersOK
<1> QED
  BY <1>1, AlwaysIInv, PTL

(* The page lists exactly the viewers with a connection, each in the state *)
(* of its connection (updateViewerState in useBroadcaster.ts).             *)
THEOREM ListIsTrue == Spec => []ViewersShown
<1>1. IInv => ViewersShown
  BY DEF IInv, ShownOK
<1> QED
  BY <1>1, AlwaysIInv, PTL

(* While the page says "ready", a socket to the signaling server has       *)
(* opened and is not closed; and up to the second start it is the one that *)
(* messages go out on, and broadcaster-ready has (onopen, onclose and stop *)
(* in useBroadcaster.ts).                                                  *)
THEOREM ReadyIsConnected == Spec => []ReadyHasSocket
<1>1. IInv => ReadyHasSocket
  BY DEF IInv, SocketsOK, OnceOK, ReadyIsOpen, ReadyHasSocket
<1> QED
  BY <1>1, AlwaysIInv, PTL

(* A microphone that the page shows as off is off for everyone who is sent *)
(* the present stream (start and toggleAudio in useBroadcaster.ts).        *)
THEOREM MutedIsSilent == Spec => []MuteHonoured
<1>1. ASSUME IInv PROVE MuteHonoured
  <2>1. SUFFICES ASSUME mounted, ~indicated, NEW i \in DOMAIN pcs,
                        pcs[i].source = streamRef
                 PROVE  ~enabled[streamRef]
    BY DEF MuteHonoured
  <2>2. pcs[i].source \in Start
    BY <1>1, PcFacts DEF IInv, PeerConnections
  <2>3. streamRef # 0
    BY <2>1, <2>2 DEF Start
  <2> QED
    BY <1>1, <2>1, <2>3 DEF IInv, MediaOK
<1> QED
  BY <1>1, AlwaysIInv, PTL

(* On a page that was started at most once, idle means that no socket is   *)
(* in use and no viewer is connected (stop, onclose and the catch of       *)
(* getUserMedia in useBroadcaster.ts).  A second start during the first    *)
(* can leave a socket behind, so that this is all there is.                *)
THEOREM IdleIsQuietOnce == Spec => [](starts <= 1 => IdleIsQuiet)
<1>1. IInv => (starts <= 1 => IdleIsQuiet)
  BY DEF IInv, OnceOK, IdleIsQuiet, Start
<1> QED
  BY <1>1, AlwaysIInv, PTL
===============================================================================
