----------------------------- MODULE RoomService -----------------------------
(***************************************************************************)
(* What the signaling hub promises to its peers, without goroutines,       *)
(* mutexes and queues of bounded size: who is in a room, and which         *)
(* messages may reach whom, in which order.  Messages may be lost, and a   *)
(* connection that has left may still be sent what was accepted for it.    *)
(***************************************************************************)
EXTENDS Naturals, Sequences

CONSTANTS Conn, RoomOf, PeerOf, Blank

VARIABLES
  status,  \* of a connection: "out", a member ("in"), or "left"
  mail,    \* accepted for it, and on the way
  got      \* what has reached it

vars == <<status, mail, got>>

Init ==
  /\ status = [c \in Conn |-> "out"]
  /\ mail = [c \in Conn |-> <<>>]
  /\ got = [c \in Conn |-> <<>>]

(* A member under an identifier keeps others from joining under it.        *)
Join(c) ==
  /\ status[c] = "out"
  /\ \A d \in Conn : status[d] = "in" => <<RoomOf[d], PeerOf[d]>> # <<RoomOf[c], PeerOf[c]>>
  /\ status' = [status EXCEPT ![c] = "in"]
  /\ UNCHANGED <<mail, got>>

Leave(c) ==
  /\ status[c] = "in"
  /\ status' = [status EXCEPT ![c] = "left"]
  /\ UNCHANGED <<mail, got>>

(* What a frame of c may bring to t: an error to c itself; or a message    *)
(* within the room, under the identifier of c, to t or to all others.      *)
Addressed(c, t, m) ==
  \/ m.type = "error" /\ t = c
  \/ /\ m.type = "message"
     /\ RoomOf[t] = RoomOf[c] /\ m.from = PeerOf[c]
     /\ m.to = PeerOf[t] \/ (m.to = Blank /\ t # c)

(* A frame is accepted from members only and for those who have joined, at *)
(* most once for each, and in the order in which c sent its frames.        *)
Accept(c, t, m) ==
  /\ status[c] = "in" /\ status[t] # "out"
  /\ m.src = c /\ Addressed(c, t, m)
  /\ LET all == got[t] \o mail[t]
     IN  \A i \in DOMAIN all : all[i].src = c => all[i].seq < m.seq
  /\ mail' = [mail EXCEPT ![t] = Append(@, m)]
  /\ UNCHANGED <<status, got>>

(* The oldest message reaches its receiver, or is lost.                    *)
Deliver(c) ==
  /\ mail[c] # <<>>
  /\ mail' = [mail EXCEPT ![c] = Tail(@)]
  /\ got' = [got EXCEPT ![c] = Append(@, Head(mail[c]))]
  /\ UNCHANGED status

Lose(c) ==
  /\ mail[c] # <<>>
  /\ mail' = [mail EXCEPT ![c] = Tail(@)]
  /\ UNCHANGED <<status, got>>

Next ==
  \E c \in Conn :
    \/ Join(c) \/ Leave(c) \/ Deliver(c) \/ Lose(c)
    \/ \E t \in Conn : \E i \in DOMAIN mail'[t] : Accept(c, t, mail'[t][i])

Spec == Init /\ [][Next]_vars
=============================================================================
