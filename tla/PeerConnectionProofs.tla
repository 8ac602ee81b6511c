------------------------- MODULE PeerConnectionProofs -------------------------
(***************************************************************************)
(* What the operations on an RTCPeerConnection keep: its owner and its     *)
(* source, its types, the length of its chain, and whether it is closed.   *)
(* The hooks use connections of different types, so the types of owner,    *)
(* source and arguments are parameters here.                               *)
(***************************************************************************)
EXTENDS Naturals, PeerConnection, SequenceTheorems, TLAPS

Calls(A) == [op : Operations, arg : A]

PcType(O, S, A) ==
  [owner : O, source : S, signaling : Signaling, connection : ConnectionState,
   negotiated : BOOLEAN, chain : Seq(Calls(A))]

(* Two records of a connection for the same owner, with the same source.   *)
Alike(pc, old) == pc.owner = old.owner /\ pc.source = old.source

-----------------------------------------------------------------------------
(* A function on 1..n is a sequence of length n.                           *)
LEMMA SeqOfFunction ==
  ASSUME NEW S, NEW n \in Nat, NEW f \in [1..n -> S]
  PROVE  f \in Seq(S) /\ Len(f) = n
OBVIOUS

(* A sequence over a set is one over a larger set.                         *)
LEMMA SeqWiden ==
  ASSUME NEW S, NEW T, S \subseteq T, NEW s \in Seq(S)
  PROVE  s \in Seq(T) /\ Len(s) \in Nat
<1>1. Len(s) \in Nat /\ s \in [1..Len(s) -> T]
  OBVIOUS
<1> QED
  BY <1>1, SeqOfFunction

(* A new connection is open and has nothing to do.                         *)
LEMMA NewType ==
  ASSUME NEW O, NEW S, NEW A, NEW peer \in O, NEW stream \in S
  PROVE  /\ New(peer, stream) \in PcType(O, S, A)
         /\ Open(New(peer, stream)) /\ New(peer, stream).chain = <<>>
         /\ New(peer, stream).owner = peer /\ New(peer, stream).source = stream
         /\ New(peer, stream).connection = "new"
BY DEF New, PcType, Open, Signaling, ConnectionState

(* A call makes the chain longer and changes nothing else.                 *)
LEMMA CallType ==
  ASSUME NEW O, NEW S, NEW A, NEW pc \in PcType(O, S, A),
         NEW op \in Operations, NEW arg \in A
  PROVE  /\ Call(pc, op, arg) \in PcType(O, S, A)
         /\ Alike(Call(pc, op, arg), pc)
         /\ Len(Call(pc, op, arg).chain) = Len(pc.chain) + 1
         /\ Call(pc, op, arg).connection = pc.connection
         /\ Call(pc, op, arg).signaling = pc.signaling
<1> DEFINE call  == [op |-> op, arg |-> arg]
           chain == Append(pc.chain, call)
<1>1. pc.chain \in Seq(Calls(A)) /\ call \in Calls(A)
  BY DEF PcType, Calls
<1>2. chain \in Seq(Calls(A)) /\ Len(chain) = Len(pc.chain) + 1
  BY <1>1
<1>3. Call(pc, op, arg) = [pc EXCEPT !.chain = chain]
  BY DEF Call
<1> HIDE DEF chain
<1> QED
  BY <1>2, <1>3 DEF PcType, Alike

(* A new connection on which a call is made at once.                       *)
LEMMA NewCallType ==
  ASSUME NEW O, NEW S, NEW A, NEW peer \in O, NEW stream \in S,
         NEW op \in Operations, NEW arg \in A
  PROVE  /\ Call(New(peer, stream), op, arg) \in PcType(O, S, A)
         /\ Len(Call(New(peer, stream), op, arg).chain) = 1
         /\ Call(New(peer, stream), op, arg).connection = "new"
         /\ Open(Call(New(peer, stream), op, arg))
<1> DEFINE fresh == New(peer, stream)
<1>1. fresh \in PcType(O, S, A)
  BY NewType
<1>2. Len(fresh.chain) = 0 /\ Open(fresh) /\ fresh.connection = "new"
  BY DEF New, Open
<1> HIDE DEF fresh
<1>3. /\ Call(fresh, op, arg) \in PcType(O, S, A)
      /\ Len(Call(fresh, op, arg).chain) = Len(fresh.chain) + 1
      /\ Call(fresh, op, arg).connection = fresh.connection
      /\ Call(fresh, op, arg).signaling = fresh.signaling
  BY <1>1, CallType
<1>4. Len(Call(fresh, op, arg).chain) = 1 /\ Open(Call(fresh, op, arg))
  BY <1>2, <1>3 DEF Open
<1> QED
  BY <1>2, <1>3, <1>4 DEF fresh

(* The first of the pending calls.                                         *)
LEMMA FirstType ==
  ASSUME NEW O, NEW S, NEW A, NEW pc \in PcType(O, S, A), Pending(pc)
  PROVE  /\ First(pc).op \in Operations /\ First(pc).arg \in A
         /\ Open(pc) /\ Len(pc.chain) \in Nat \ {0}
<1>1. pc.chain \in Seq(Calls(A)) /\ pc.chain # <<>>
  BY DEF PcType, Pending
<1>2. Head(pc.chain) \in Calls(A)
  BY <1>1
<1> QED
  BY <1>1, <1>2 DEF First, Calls, Pending

LEMMA AfterType ==
  ASSUME NEW state \in Signaling, NEW op \in Operations
  PROVE  After(state, op) \in Signaling /\ (state # "closed" => After(state, op) # "closed")
<1>1. CASE op = "setLocalOffer"
  BY <1>1 DEF After, Signaling
<1>2. CASE op = "setRemoteOffer"
  BY <1>2 DEF After, Signaling
<1>3. CASE op \in {"setRemoteAnswer", "setLocalAnswer"}
  BY <1>3 DEF After, Signaling
<1>4. CASE op \in {"createOffer", "createAnswer"}
  BY <1>4 DEF After, Signaling
<1> QED
  BY <1>1, <1>2, <1>3, <1>4 DEF Operations

(* An operation that resolves leaves the chain and keeps it open.          *)
LEMMA ResolveType ==
  ASSUME NEW O, NEW S, NEW A, NEW pc \in PcType(O, S, A), Pending(pc)
  PROVE  /\ Resolve(pc) \in PcType(O, S, A)
         /\ Alike(Resolve(pc), pc) /\ Open(Resolve(pc))
         /\ Len(Resolve(pc).chain) = Len(pc.chain) - 1
         /\ Resolve(pc).connection = pc.connection
<1> DEFINE op    == First(pc).op
           state == After(pc.signaling, op)
           chain == Tail(pc.chain)
           nego  == pc.negotiated \/ op \in {"setRemoteAnswer", "setLocalAnswer"}
<1>1. pc.chain \in Seq(Calls(A)) /\ pc.chain # <<>> /\ pc.signaling \in Signaling
      /\ pc.signaling # "closed"
  BY DEF PcType, Pending, Open
<1>2. chain \in Seq(Calls(A)) /\ Len(chain) = Len(pc.chain) - 1
  BY <1>1
<1>3. state \in Signaling /\ state # "closed"
  BY <1>1, FirstType, AfterType
<1>4. nego \in BOOLEAN
  BY DEF PcType
<1>5. Resolve(pc) = [pc EXCEPT !.signaling = state, !.chain = chain, !.negotiated = nego]
  BY DEF Resolve
<1> HIDE DEF chain, state, nego
<1> QED
  BY <1>2, <1>3, <1>4, <1>5 DEF PcType, Alike, Open

LEMMA RejectType ==
  ASSUME NEW O, NEW S, NEW A, NEW pc \in PcType(O, S, A), Pending(pc)
  PROVE  /\ Reject(pc) \in PcType(O, S, A)
         /\ Alike(Reject(pc), pc) /\ Open(Reject(pc))
         /\ Len(Reject(pc).chain) = Len(pc.chain) - 1
         /\ Reject(pc).connection = pc.connection
<1> DEFINE chain == Tail(pc.chain)
<1>1. pc.chain \in Seq(Calls(A)) /\ pc.chain # <<>> /\ pc.signaling # "closed"
  BY DEF PcType, Pending, Open
<1>2. chain \in Seq(Calls(A)) /\ Len(chain) = Len(pc.chain) - 1
  BY <1>1
<1>3. Reject(pc) = [pc EXCEPT !.chain = chain]
  BY DEF Reject
<1> HIDE DEF chain
<1> QED
  BY <1>1, <1>2, <1>3 DEF PcType, Alike, Open

(* A closed connection has nothing pending.                                *)
LEMMA CloseType ==
  ASSUME NEW O, NEW S, NEW A, NEW pc \in PcType(O, S, A)
  PROVE  /\ Close(pc) \in PcType(O, S, A)
         /\ Alike(Close(pc), pc) /\ ~Open(Close(pc))
         /\ Close(pc).chain = <<>>
<1> DEFINE chain == <<>>
<1>1. chain \in Seq(Calls(A)) /\ chain = <<>>
  OBVIOUS
<1>2. Close(pc) = [pc EXCEPT !.signaling = "closed", !.connection = "closed",
                             !.chain = chain]
  BY DEF Close
<1> HIDE DEF chain
<1>3. "closed" \in Signaling /\ "closed" \in ConnectionState
  BY DEF Signaling, ConnectionState
<1> QED
  BY <1>1, <1>2, <1>3 DEF PcType, Alike, Open

(* A new connection state.                                                 *)
LEMMA BecomesType ==
  ASSUME NEW O, NEW S, NEW A, NEW pc \in PcType(O, S, A), NEW state \in ConnectionState
  PROVE  /\ [pc EXCEPT !.connection = state] \in PcType(O, S, A)
         /\ Alike([pc EXCEPT !.connection = state], pc)
         /\ [pc EXCEPT !.connection = state].chain = pc.chain
         /\ [pc EXCEPT !.connection = state].signaling = pc.signaling
         /\ [pc EXCEPT !.connection = state].connection = state
BY DEF PcType, Alike
===============================================================================
