--------------------------- MODULE PeerConnection ---------------------------
(***************************************************************************)
(* RTCPeerConnection as the two browser hooks use it (external: the W3C    *)
(* WebRTC recommendation).  Asynchronous calls go through the operations   *)
(* chain of the connection, one at a time and in order; the operation that *)
(* settles and the continuation that awaits it run in one step.  Once the  *)
(* connection is closed, no pending call settles any more.                 *)
(***************************************************************************)
EXTENDS Sequences

Operations == {"createOffer", "setLocalOffer", "setRemoteAnswer",
               "setRemoteOffer", "createAnswer", "setLocalAnswer"}

Signaling == {"stable", "have-local-offer", "have-remote-offer", "closed"}

(* connectionState, with "connecting" taken together with "new"            *)
ConnectionState == {"new", "connected", "disconnected", "failed", "closed"}

(* A new connection, made for a peer, with the tracks of a stream added.   *)
(* negotiated: an answer was applied, so that the transports may connect.  *)
New(peer, stream) ==
  [owner |-> peer, source |-> stream, signaling |-> "stable",
   connection |-> "new", negotiated |-> FALSE, chain |-> <<>>]

(* The operations that a signaling state admits, with the state they lead  *)
(* to.  (One side only makes offers, the other only answers.)              *)
Accepts(state, op) ==
  CASE op = "createOffer"     -> state # "closed"
    [] op = "setLocalOffer"   -> state \in {"stable", "have-local-offer"}
    [] op = "setRemoteAnswer" -> state = "have-local-offer"
    [] op = "setRemoteOffer"  -> state \in {"stable", "have-remote-offer"}
    [] op = "createAnswer"    -> state = "have-remote-offer"
    [] op = "setLocalAnswer"  -> state = "have-remote-offer"

After(state, op) ==
  CASE op = "setLocalOffer"  -> "have-local-offer"
    [] op = "setRemoteOffer" -> "have-remote-offer"
    [] op \in {"setRemoteAnswer", "setLocalAnswer"} -> "stable"
    [] OTHER -> state

(* Call op with an argument that its continuation uses.                    *)
Call(pc, op, arg) == [pc EXCEPT !.chain = Append(@, [op |-> op, arg |-> arg])]

Open(pc)    == pc.signaling # "closed"
Pending(pc) == Open(pc) /\ pc.chain # <<>>
First(pc)   == Head(pc.chain)

(* The first operation of the chain resolves.                              *)
Resolvable(pc) == Pending(pc) /\ Accepts(pc.signaling, First(pc).op)
Resolve(pc) ==
  LET op == First(pc).op
  IN  [pc EXCEPT !.signaling = After(@, op), !.chain = Tail(@),
                 !.negotiated = @ \/ op \in {"setRemoteAnswer", "setLocalAnswer"}]

(* ... or rejects, which the browser may do for reasons of its own.        *)
Reject(pc) == [pc EXCEPT !.chain = Tail(@)]

Close(pc) == [pc EXCEPT !.signaling = "closed", !.connection = "closed",
                        !.chain = <<>>]

(* onconnectionstatechange fires with another state.                       *)
MayBecome(pc, state) ==
  /\ Open(pc) /\ pc.negotiated
  /\ state \in {"connected", "disconnected", "failed"} \ {pc.connection}
  /\ state = "disconnected" => pc.connection = "connected"
=============================================================================
