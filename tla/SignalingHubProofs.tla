------------------------- MODULE SignalingHubProofs -------------------------
(***************************************************************************)
(* Theorems about SignalingHub, for every set of connections, rooms and    *)
(* peers, every queue size and every number of frames.                     *)
(***************************************************************************)
EXTENDS SignalingHub, TLAPS

USE DEF roomVars, readVars, writeVars, clientVars

(* What a handler knows at each of its steps: types that TypeOK leaves     *)
(* open because they depend on the step.                                   *)
StepOK ==
  \A c \in Conn :
    /\ pc[c] \notin {"dial", "refused"} => RoomOf[c] \in Room /\ PeerOf[c] \in Peer
    /\ pc[c] \in {"lookup", "route", "check", "push"} => msg[c] \in Payload
    /\ pc[c] = "route" => held[c] \in Conn
    /\ pc[c] = "push" => cur[c] \in Conn
    /\ wpc[c] = "write" => hand[c] \in Payload

Typed == TypeOK /\ StepOK

-----------------------------------------------------------------------------
(* Making a message or an error gives a payload.                           *)
LEMMA MessageType ==
  ASSUME NEW c \in Conn, NEW to \in Peer \cup {Blank},
         NEW from \in Peer \cup {Blank}, NEW n \in Nat
  PROVE  Message(c, to, from, n) \in Payload /\ ErrorPayload(c, n) \in Payload
BY DEF Message, ErrorPayload, Payload

(* The handler of c goes to another state, and no other handler does.      *)
GoesTo(c, states) ==
  /\ pc' \in [Conn -> HandlerStates] /\ pc'[c] \in states
  /\ \A d \in Conn \ {c} : pc'[d] = pc[d]

LEMMA GotoType ==
  ASSUME TypeOK, NEW c \in Conn, NEW state \in HandlerStates, Goto(c, state)
  PROVE  GoesTo(c, {state})
BY DEF TypeOK, Goto, GoesTo

(* sendError keeps the types of what it changes.                           *)
SendErrorOK(c) ==
  /\ GoesTo(c, {"check"})
  /\ msg' \in [Conn -> Payload \cup {Nil}] /\ msg'[c] \in Payload
  /\ targets' \in [Conn -> SUBSET Conn]
  /\ \A d \in Conn \ {c} : msg'[d] = msg[d]

LEMMA SendErrorType ==
  ASSUME TypeOK, NEW c \in Conn, NEW n \in Nat, SendError(c, n)
  PROVE  SendErrorOK(c)
<1>1. ErrorPayload(c, n) \in Payload
  BY MessageType
<1>2. GoesTo(c, {"check"})
  BY GotoType DEF SendError, HandlerStates, JoinedStates
<1>3. msg' \in [Conn -> Payload \cup {Nil}] /\ msg'[c] \in Payload
      /\ \A d \in Conn \ {c} : msg'[d] = msg[d]
  BY <1>1 DEF TypeOK, SendError
<1>4. targets' \in [Conn -> SUBSET Conn]
  BY DEF TypeOK, SendError
<1> QED
  BY <1>2, <1>3, <1>4 DEF SendErrorOK

(* So does the end of enqueue for one target.                              *)
FinishTargetOK(c) ==
  /\ GoesTo(c, {"read", "check"})
  /\ msg' \in [Conn -> Payload \cup {Nil}]
  /\ pc'[c] = "check" => msg'[c] = msg[c]
  /\ targets' \in [Conn -> SUBSET Conn]
  /\ cur' \in [Conn -> Conn \cup {Nil}]
  /\ \A d \in Conn \ {c} : msg'[d] = msg[d] /\ cur'[d] = cur[d]

LEMMA FinishTargetType ==
  ASSUME TypeOK, NEW c \in Conn, NEW t \in Conn, FinishTarget(c, t)
  PROVE  FinishTargetOK(c)
<1> DEFINE rest == targets[c] \ {t}
<1>1. targets' \in [Conn -> SUBSET Conn] /\ cur' \in [Conn -> Conn \cup {Nil}]
      /\ \A d \in Conn \ {c} : cur'[d] = cur[d]
  BY DEF TypeOK, FinishTarget
<1>2. CASE rest = {}
  <2>1. Goto(c, "read") /\ msg' = [msg EXCEPT ![c] = Nil]
    BY <1>2 DEF FinishTarget
  <2>2. GoesTo(c, {"read"})
    BY <2>1, GotoType DEF HandlerStates, JoinedStates
  <2> QED
    BY <1>1, <2>1, <2>2 DEF TypeOK, FinishTargetOK, GoesTo
<1>3. CASE rest # {}
  <2>1. Goto(c, "check") /\ msg' = [msg EXCEPT ![c] = msg[c]]
    BY <1>3 DEF FinishTarget
  <2>2. GoesTo(c, {"check"})
    BY <2>1, GotoType DEF HandlerStates, JoinedStates
  <2> QED
    BY <1>1, <2>1, <2>2 DEF TypeOK, FinishTargetOK, GoesTo
<1> QED
  BY <1>2, <1>3

(* Stamping a payload gives a payload.                                     *)
LEMMA StampType ==
  ASSUME NEW m \in Payload, NEW p \in Peer
  PROVE  Stamp(m, p) \in Payload /\ m.seq \in Nat
<1>1. m = [type |-> m.type, src |-> m.src, from |-> m.from, to |-> m.to,
           seq |-> m.seq]
  BY DEF Payload
<1>2. Stamp(m, p) = [type |-> m.type, src |-> m.src, from |-> p, to |-> m.to,
                     seq |-> m.seq]
  BY <1>1 DEF Stamp, Payload
<1> QED
  BY <1>2 DEF Payload

(* The initial state has the types.                                        *)
LEMMA InitTyped == Init => Typed
BY IdentifierAssumption, NilAssumption, SizeAssumption
   DEF Init, Typed, TypeOK, StepOK, HandlerStates, JoinedStates, NoClients

(* Every step of one connection keeps the types.                           *)
LEMMA StepTyped ==
  ASSUME Typed, NEW c \in Conn, Step(c)
  PROVE  Typed'
<1> USE IdentifierAssumption, NilAssumption, SizeAssumption
        DEF Typed, TypeOK, StepOK, Goto
<1>1. CASE Upgrade(c)
  BY <1>1 DEF Upgrade, HandlerStates, JoinedStates
<1>2. CASE Refuse(c)
  BY <1>2 DEF Refuse, HandlerStates, JoinedStates
<1>3. CASE Register(c)
  <2> DEFINE r   == RoomOf[c]
             obj == IF rooms[r] = Nil THEN c ELSE rooms[r]
  <2>1. r \in Room /\ PeerOf[c] \in Peer /\ obj \in Conn
    BY <1>3 DEF Register
  <2>2. rooms' \in [Room -> Conn \cup {Nil}]
    BY <1>3, <2>1 DEF Register, RoomFor
  <2>3. /\ clients' \in [Conn -> [Peer -> Conn \cup {Nil}]]
        /\ GoesTo(c, {"registered", "reject"})
    <3>1. CASE Exists(clients[obj], PeerOf[c])
      <4>1. Goto(c, "reject") /\ UNCHANGED clients
        BY <1>3, <3>1 DEF Register, RoomFor
      <4> QED
        BY <4>1, GotoType DEF GoesTo, HandlerStates, JoinedStates
    <3>2. CASE ~Exists(clients[obj], PeerOf[c])
      <4>1. Goto(c, "registered") /\ clients' = [clients EXCEPT ![obj][PeerOf[c]] = c]
        BY <1>3, <3>2 DEF Register, RoomFor
      <4>2. clients' \in [Conn -> [Peer -> Conn \cup {Nil}]]
        BY <2>1, <4>1
      <4> QED
        BY <4>1, <4>2, GotoType DEF GoesTo, HandlerStates, JoinedStates
    <3> QED
      BY <3>1, <3>2
  <2>5. UNCHANGED <<held, msg, targets, cur, received, writeVars, clientVars>>
    BY <1>3 DEF Register
  <2> QED
    BY <1>3, <2>1, <2>2, <2>3, <2>5 DEF Register, GoesTo
<1>4. CASE Reject(c)
  BY <1>4 DEF Reject, HandlerStates, JoinedStates
<1>5. CASE Run(c)
  BY <1>5 DEF Run, HandlerStates, JoinedStates
<1>6. CASE ReadFrame(c)
  <2>1. PICK to \in SentTo, from \in SentFrom :
          msg' = [msg EXCEPT ![c] = Message(c, to, from, received[c] + 1)]
    BY <1>6 DEF ReadFrame
  <2>2. msg' \in [Conn -> Payload \cup {Nil}] /\ msg'[c] \in Payload
        /\ \A d \in Conn \ {c} : msg'[d] = msg[d]
    <3>1. to \in Peer \cup {Blank} /\ from \in Peer \cup {Blank} /\ received[c] + 1 \in Nat
      OBVIOUS
    <3>2. Message(c, to, from, received[c] + 1) \in Payload
      BY ONLY <3>1, MessageType
    <3> QED
      BY <2>1, <3>2
  <2>3. pc' \in [Conn -> HandlerStates] /\ pc'[c] = "lookup" /\ pc[c] = "read"
        /\ \A d \in Conn \ {c} : pc'[d] = pc[d]
    BY <1>6 DEF ReadFrame, NextFrame, HandlerStates, JoinedStates
  <2>4. received' \in [Conn -> Nat]
    BY <1>6 DEF ReadFrame, NextFrame
  <2>5. UNCHANGED <<roomVars, held, targets, cur, writeVars, clientVars>>
    BY <1>6 DEF ReadFrame, NextFrame
  <2> QED
    BY <2>2, <2>3, <2>4, <2>5
<1>7. CASE ReadMalformed(c)
  <2>1. received[c] + 1 \in Nat /\ received' \in [Conn -> Nat]
    BY <1>7 DEF ReadMalformed, NextFrame
  <2>2. SendErrorOK(c)
    BY <1>7, <2>1, SendErrorType DEF ReadMalformed
  <2>3. pc[c] = "read" /\ UNCHANGED <<roomVars, held, cur, writeVars, clientVars>>
    BY <1>7 DEF ReadMalformed, NextFrame
  <2> QED
    BY <2>1, <2>2, <2>3 DEF SendErrorOK, GoesTo
<1>8. CASE ReadError(c)
  BY <1>8 DEF ReadError, AfterError, HandlerStates, JoinedStates
<1>9. CASE LookupRoom(c)
  <2>1. /\ pc[c] = "lookup" /\ RoomOf[c] \in Room /\ msg[c] \in Payload
        /\ UNCHANGED <<roomVars, cur, received, writeVars, clientVars>>
    BY <1>9 DEF LookupRoom
  <2>2. CASE rooms[RoomOf[c]] = Nil
    <3>1. SendErrorOK(c) /\ UNCHANGED held
      BY <1>9, <2>1, <2>2, StampType, SendErrorType DEF LookupRoom, SendErrorOK
    <3> QED
      BY <2>1, <3>1 DEF SendErrorOK, GoesTo
  <2>3. CASE rooms[RoomOf[c]] # Nil
    <3>1. Goto(c, "route") /\ held' = [held EXCEPT ![c] = rooms[RoomOf[c]]]
          /\ UNCHANGED <<msg, targets>>
      BY <1>9, <2>3 DEF LookupRoom
    <3>2. GoesTo(c, {"route"})
      BY <3>1, GotoType DEF HandlerStates, JoinedStates
    <3>3. held' \in [Conn -> Conn \cup {Nil}] /\ held'[c] \in Conn
          /\ \A d \in Conn \ {c} : held'[d] = held[d]
      BY <2>1, <2>3, <3>1
    <3> QED
      BY <2>1, <3>1, <3>2, <3>3 DEF GoesTo
  <2> QED
    BY <2>2, <2>3
<1>10. CASE Route(c)
  <2> DEFINE table  == clients[held[c]]
             to     == msg[c].to
             others == {table[p] : p \in Peer \ {PeerOf[c]}} \ {Nil}
  <2>1. /\ pc[c] = "route" /\ held[c] \in Conn /\ msg[c] \in Payload
        /\ PeerOf[c] \in Peer /\ held' = [held EXCEPT ![c] = Nil]
        /\ UNCHANGED <<roomVars, cur, received, writeVars, clientVars>>
    BY <1>10 DEF Route
  <2>2. table \in [Peer -> Conn \cup {Nil}] /\ to \in Peer \cup {Blank}
    BY <2>1 DEF Payload
  <2>3. held' \in [Conn -> Conn \cup {Nil}]
        /\ \A d \in Conn \ {c} : held'[d] = held[d]
    BY <2>1
  <2>4. CASE SendError(c, msg[c].seq)
    <3>1. SendErrorOK(c)
      BY <2>1, <2>4, StampType, SendErrorType
    <3> QED
      BY <2>1, <2>3, <3>1 DEF SendErrorOK, GoesTo
  <2>5. CASE /\ msg' = [msg EXCEPT ![c] = Stamp(@, PeerOf[c])]
             /\ Goto(c, "check")
             /\ \E S \in SUBSET Conn : targets' = [targets EXCEPT ![c] = S]
    <3>1. GoesTo(c, {"check"})
      BY <2>5, GotoType DEF HandlerStates, JoinedStates
    <3>2. Stamp(msg[c], PeerOf[c]) \in Payload
      BY <2>1, StampType
    <3>3. msg' \in [Conn -> Payload \cup {Nil}] /\ msg'[c] \in Payload
          /\ \A d \in Conn \ {c} : msg'[d] = msg[d]
      BY <2>5, <3>2
    <3>4. targets' \in [Conn -> SUBSET Conn]
      BY <2>5
    <3> QED
      BY <2>1, <2>3, <3>1, <3>3, <3>4 DEF GoesTo
  <2>6. CASE /\ msg' = [msg EXCEPT ![c] = Nil]
             /\ Goto(c, "read")
             /\ UNCHANGED targets
    <3>1. GoesTo(c, {"read"})
      BY <2>6, GotoType DEF HandlerStates, JoinedStates
    <3>2. msg' \in [Conn -> Payload \cup {Nil}]
          /\ \A d \in Conn \ {c} : msg'[d] = msg[d]
      BY <2>6
    <3> QED
      BY <2>1, <2>3, <2>6, <3>1, <3>2 DEF GoesTo
  <2>7. others \in SUBSET Conn /\ (to \in Peer /\ table[to] # Nil => {table[to]} \in SUBSET Conn)
    BY <2>2
  <2>8. \/ SendError(c, msg[c].seq)
        \/ /\ msg' = [msg EXCEPT ![c] = Stamp(@, PeerOf[c])]
           /\ Goto(c, "check")
           /\ to # Blank /\ table[to] # Nil
           /\ targets' = [targets EXCEPT ![c] = {table[to]}]
        \/ /\ msg' = [msg EXCEPT ![c] = Stamp(@, PeerOf[c])]
           /\ Goto(c, "check")
           /\ targets' = [targets EXCEPT ![c] = others]
        \/ /\ msg' = [msg EXCEPT ![c] = Nil]
           /\ Goto(c, "read")
           /\ UNCHANGED targets
    BY <1>10, Zenon DEF Route
  <2> QED
    BY <2>2, <2>4, <2>5, <2>6, <2>7, <2>8
<1>11. CASE CheckDone(c)
  <2>1. PICK t \in targets[c] :
          \/ done[t] /\ FinishTarget(c, t)
          \/ /\ cur' = [cur EXCEPT ![c] = t]
             /\ Goto(c, "push")
             /\ UNCHANGED <<targets, msg>>
    BY <1>11 DEF CheckDone
  <2>2. /\ pc[c] = "check" /\ t \in Conn /\ msg[c] \in Payload
        /\ UNCHANGED <<roomVars, held, received, writeVars, clientVars>>
    BY <1>11 DEF CheckDone
  <2>3. CASE FinishTarget(c, t)
    BY <2>2, <2>3, FinishTargetType DEF FinishTargetOK, GoesTo
  <2>4. CASE /\ cur' = [cur EXCEPT ![c] = t]
             /\ Goto(c, "push")
             /\ UNCHANGED <<targets, msg>>
    <3>1. GoesTo(c, {"push"})
      BY <2>4, GotoType DEF HandlerStates, JoinedStates
    <3> QED
      BY <2>2, <2>4, <3>1 DEF GoesTo
  <2> QED
    BY <2>1, <2>3, <2>4
<1>12. CASE Enqueue(c)
  <2>1. /\ pc[c] = "push" /\ cur[c] \in Conn /\ msg[c] \in Payload
        /\ FinishTarget(c, cur[c])
        /\ UNCHANGED <<roomVars, held, received, writeVars, done, sock, watcher>>
    BY <1>12 DEF Enqueue
  <2>2. send' \in [Conn -> Seq(Payload)] /\ \A d \in Conn : Len(send'[d]) <= QueueSize
    <3>1. CASE UNCHANGED send
      BY <3>1
    <3>2. CASE HasSpace(cur[c]) /\ send' = [send EXCEPT ![cur[c]] = Append(@, msg[c])]
      <4>1. Append(send[cur[c]], msg[c]) \in Seq(Payload)
            /\ Len(Append(send[cur[c]], msg[c])) = Len(send[cur[c]]) + 1
            /\ Len(send[cur[c]]) \in Nat
        BY <2>1
      <4>2. Len(send[cur[c]]) < QueueSize
        BY <3>2 DEF HasSpace
      <4> QED
        BY <2>1, <3>2, <4>1, <4>2
    <3> QED
      BY <1>12, <3>1, <3>2 DEF Enqueue
  <2>3. FinishTargetOK(c)
    BY <2>1, FinishTargetType
  <2> QED
    BY <2>1, <2>2, <2>3 DEF FinishTargetOK, GoesTo
<1>13. CASE Shutdown(c)
  BY <1>13 DEF Shutdown, HandlerStates, JoinedStates
<1>14. CASE Unregister(c)
  <2> DEFINE obj   == rooms[RoomOf[c]]
             table == [clients[obj] EXCEPT ![PeerOf[c]] = Nil]
  <2>1. /\ pc[c] = "unregister" /\ RoomOf[c] \in Room /\ Goto(c, "close")
        /\ UNCHANGED <<held, msg, targets, cur, received, writeVars, clientVars>>
    BY <1>14 DEF Unregister
  <2>2. GoesTo(c, {"close"})
    BY <2>1, GotoType DEF HandlerStates, JoinedStates
  <2>3. /\ rooms' \in [Room -> Conn \cup {Nil}]
        /\ clients' \in [Conn -> [Peer -> Conn \cup {Nil}]]
    <3>1. CASE obj = Nil
      BY <1>14, <3>1 DEF Unregister
    <3>2. CASE obj # Nil
      <4>1. obj \in Conn /\ table \in [Peer -> Conn \cup {Nil}]
        BY <2>1, <3>2
      <4>2. clients' = [clients EXCEPT ![obj] = table]
            /\ rooms' = [rooms EXCEPT ![RoomOf[c]] = IF Vacant(table) THEN Nil ELSE obj]
        BY <1>14, <3>2 DEF Unregister
      <4> QED
        BY <2>1, <4>1, <4>2
    <3> QED
      BY <3>1, <3>2
  <2> QED
    BY <2>1, <2>2, <2>3 DEF GoesTo
<1>15. CASE CloseConn(c)
  BY <1>15 DEF CloseConn, HandlerStates, JoinedStates
<1>16. CASE ContextDone(c)
  BY <1>16 DEF ContextDone
<1>17. CASE WriterPoll(c)
  BY <1>17 DEF WriterPoll, AfterPoll
<1>18. CASE WriterSelect(c)
  <2>1. wpc[c] = "wait"
        /\ UNCHANGED <<roomVars, readVars, delivered, done, sock, watcher>>
    BY <1>18 DEF WriterSelect
  <2>2. CASE wpc' = [wpc EXCEPT ![c] = "exited"] /\ UNCHANGED <<hand, late, send>>
    BY <2>1, <2>2
  <2>3. CASE /\ send[c] # <<>>
             /\ wpc' = [wpc EXCEPT ![c] = "write"]
             /\ hand' = [hand EXCEPT ![c] = Head(send[c])]
             /\ send' = [send EXCEPT ![c] = Tail(@)]
             /\ late' = [late EXCEPT ![c] = IF done[c] THEN @ + 1 ELSE @]
    <3>1. Head(send[c]) \in Payload /\ Tail(send[c]) \in Seq(Payload)
          /\ Len(Tail(send[c])) <= QueueSize
      BY <2>3
    <3>2. late' \in [Conn -> Nat]
      BY <2>3
    <3>3. hand' \in [Conn -> Payload \cup {Nil}] /\ hand'[c] \in Payload
          /\ \A d \in Conn \ {c} : hand'[d] = hand[d]
      BY <2>3, <3>1
    <3>4. send' \in [Conn -> Seq(Payload)] /\ \A d \in Conn : Len(send'[d]) <= QueueSize
      BY <2>3, <3>1
    <3>5. wpc' \in [Conn -> {"off", "check", "wait", "write", "exited"}]
          /\ \A d \in Conn \ {c} : wpc'[d] = wpc[d]
      BY <2>3
    <3> QED
      BY <2>1, <3>2, <3>3, <3>4, <3>5
  <2> QED
    BY <1>18, <2>2, <2>3 DEF WriterSelect, Rest
<1>19. CASE WriteMessage(c)
  BY <1>19 DEF WriteMessage
<1>20. CASE WriteFails(c)
  BY <1>20 DEF WriteFails
<1>21. CASE Hangup(c)
  BY <1>21 DEF Hangup
<1> QED
  BY <1>1, <1>2, <1>3, <1>4, <1>5, <1>6, <1>7, <1>8, <1>9, <1>10, <1>11, <1>12,
     <1>13, <1>14, <1>15, <1>16, <1>17, <1>18, <1>19, <1>20, <1>21
     DEF Step, Serve, Deliver, Leave, Write

(* Every state has the types: the state variables and the handler's        *)
(* registers hold what the code can put there, and no send queue exceeds   *)
(* its capacity.                                                           *)
THEOREM TypeCorrect == Spec => []TypeOK
<1>1. Init => Typed
  BY InitTyped
<1>2. Typed /\ [Next]_vars => Typed'
  <2> SUFFICES ASSUME Typed, [Next]_vars PROVE Typed'
    OBVIOUS
  <2>1. CASE Next
    BY <2>1, StepTyped DEF Next
  <2>2. CASE UNCHANGED vars
    BY <2>2 DEF Typed, TypeOK, StepOK, vars
  <2> QED
    BY <2>1, <2>2
<1>3. Typed => TypeOK
  BY DEF Typed
<1> QED
  BY <1>1, <1>2, <1>3, PTL DEF Spec

-----------------------------------------------------------------------------
(* Membership.  What register and unregister rely on besides the three     *)
(* properties: a connection that has not registered yet has given its name *)
(* to no room object, and the object of a room was created for that room.  *)
Fresh(c) == pc[c] \in {"dial", "upgraded"}

FreshObjects ==
  /\ \A c \in Conn : Fresh(c) => clients[c] = NoClients
  /\ \A r \in Room : rooms[r] # Nil =>
        RoomOf[rooms[r]] = r /\ ~Fresh(rooms[r])

Membership ==
  MembershipExact /\ NoEmptyRoom /\ RoutesInCurrentRoom /\ FreshObjects

(* The step of a handler that neither joins nor leaves: the tables stay,   *)
(* and whoever routes does so in the registered room.                      *)
Quiet ==
  /\ UNCHANGED roomVars
  /\ \A d \in Conn : /\ Joined(d)' <=> Joined(d)
                     /\ Fresh(d)' => Fresh(d)
                     /\ pc'[d] = "route" => held'[d] = rooms[RoomOf[d]]

LEMMA QuietStep ==
  ASSUME Typed, Membership, Quiet
  PROVE  Membership'
<1>1. MembershipExact'
  <2>1. \A d \in Conn : Listed(d)' <=> Listed(d)
    BY DEF Quiet, Listed
  <2>2. ASSUME NEW r \in Room, NEW p \in Peer, rooms[r] # Nil,
               clients[rooms[r]][p] # Nil
        PROVE  LET d == clients[rooms[r]][p]
               IN  Joined(d)' /\ RoomOf[d] = r /\ PeerOf[d] = p
    <3> DEFINE d == clients[rooms[r]][p]
    <3>1. rooms[r] \in Conn /\ d \in Conn
      BY <2>2 DEF Typed, TypeOK
    <3>2. Joined(d) /\ RoomOf[d] = r /\ PeerOf[d] = p
      BY <2>2 DEF Membership, MembershipExact
    <3> QED
      BY <3>1, <3>2 DEF Quiet
  <2> QED
    BY <2>1, <2>2 DEF Membership, MembershipExact, Quiet
<1>2. NoEmptyRoom'
  BY DEF Membership, NoEmptyRoom, Quiet
<1>3. RoutesInCurrentRoom'
  <2>1. ASSUME NEW d \in Conn, pc'[d] \in {"lookup", "route"}
        PROVE  rooms[RoomOf[d]] # Nil
    BY <2>1 DEF Quiet, Joined, JoinedStates, Membership, MembershipExact, Listed
  <2> QED
    BY <2>1 DEF RoutesInCurrentRoom, Quiet
<1>4. FreshObjects'
  BY DEF Membership, FreshObjects, Quiet, Typed, TypeOK
<1> QED
  BY <1>1, <1>2, <1>3, <1>4 DEF Membership

(* A handler goes on, on the same side of register and unregister.         *)
LEMMA HandlerQuiet ==
  ASSUME Typed, Membership, NEW c \in Conn, NEW states \in SUBSET HandlerStates,
         UNCHANGED <<roomVars, held>>, GoesTo(c, states),
         "route" \notin states, states \cap {"dial", "upgraded"} = {},
         \/ Joined(c) /\ states \subseteq JoinedStates
         \/ ~Joined(c) /\ states \cap JoinedStates = {}
  PROVE  Membership'
<1>1. ASSUME NEW d \in Conn
      PROVE  /\ Joined(d)' <=> Joined(d)
             /\ Fresh(d)' => Fresh(d)
             /\ pc'[d] = "route" => held'[d] = rooms[RoomOf[d]]
  <2>1. CASE d = c
    BY <2>1 DEF GoesTo, Joined, Fresh
  <2>2. CASE d # c
    BY <2>2 DEF GoesTo, Joined, Fresh, Membership, RoutesInCurrentRoom
  <2> QED
    BY <2>1, <2>2
<1> QED
  BY <1>1, QuietStep DEF Quiet

(* The loops of a client leave its handler alone.                          *)
LEMMA LoopsQuiet ==
  ASSUME Typed, Membership, UNCHANGED <<roomVars, readVars>>
  PROVE  Membership'
<1>1. ASSUME NEW d \in Conn
      PROVE  /\ Joined(d)' <=> Joined(d)
             /\ Fresh(d)' => Fresh(d)
             /\ pc'[d] = "route" => held'[d] = rooms[RoomOf[d]]
  BY DEF Joined, Fresh, Membership, RoutesInCurrentRoom
<1> QED
  BY <1>1, QuietStep DEF Quiet

(* register keeps the membership exact.                                    *)
LEMMA RegisterMembership ==
  ASSUME Typed, Typed', Membership, NEW c \in Conn, Register(c)
  PROVE  Membership'
<1> USE IdentifierAssumption, NilAssumption
<1> DEFINE r   == RoomOf[c]
           p   == PeerOf[c]
           obj == IF rooms[r] = Nil THEN c ELSE rooms[r]
<1>1. /\ pc[c] = "upgraded" /\ Fresh(c) /\ ~Joined(c)
      /\ r \in Room /\ p \in Peer /\ obj \in Conn
      /\ rooms' = [rooms EXCEPT ![r] = obj] /\ UNCHANGED held
  BY DEF Register, RoomFor, Fresh, Joined, JoinedStates, Typed, TypeOK, StepOK
<1>2. CASE Exists(clients[obj], p)
  <2>1. obj = rooms[r]
    BY <1>1, <1>2 DEF Exists, Membership, FreshObjects, NoClients
  <2>2. UNCHANGED <<roomVars, held>> /\ Goto(c, "reject")
    BY <1>1, <1>2, <2>1 DEF Register, RoomFor, Typed, TypeOK
  <2>3. GoesTo(c, {"reject"})
    BY <2>2, GotoType DEF Typed, HandlerStates
  <2> QED
    BY <1>1, <2>2, <2>3, HandlerQuiet DEF HandlerStates, JoinedStates
<1>3. CASE ~Exists(clients[obj], p)
  <2>1. /\ clients' = [clients EXCEPT ![obj][p] = c]
        /\ Goto(c, "registered")
    BY <1>3 DEF Register, RoomFor
  <2>2. /\ pc'[c] = "registered" /\ Joined(c)' /\ ~Fresh(c)'
        /\ \A d \in Conn \ {c} : /\ pc'[d] = pc[d]
                                 /\ Joined(d)' <=> Joined(d)
                                 /\ Fresh(d)' <=> Fresh(d)
    BY <2>1 DEF Goto, Joined, Fresh, JoinedStates, Typed, TypeOK
  <2>3. /\ rooms'[r] = obj
        /\ \A q \in Room \ {r} : rooms'[q] = rooms[q] /\ rooms[q] # obj
    BY <1>1 DEF Typed, TypeOK, Membership, FreshObjects
  <2>4. /\ clients'[obj][p] = c
        /\ \A x \in Peer \ {p} : clients'[obj][x] = clients[obj][x]
        /\ \A g \in Conn \ {obj} : clients'[g] = clients[g]
    BY <1>1, <2>1 DEF Typed, TypeOK
  <2>5. rooms[r] = Nil => \A x \in Peer : clients[obj][x] = Nil
    BY <1>1 DEF Membership, FreshObjects, NoClients
  <2>6. obj # Nil /\ (obj = c \/ ~Fresh(obj)) /\ RoomOf[obj] = r
    BY <1>1 DEF Membership, FreshObjects
  <2>7. \A d \in Conn : Joined(d)' => Listed(d)'
    <3> SUFFICES ASSUME NEW d \in Conn, Joined(d)' PROVE Listed(d)'
      OBVIOUS
    <3>1. CASE d = c
      BY <1>1, <2>3, <2>4, <2>6, <3>1 DEF Listed
    <3>2. CASE d # c /\ RoomOf[d] = r
      <4>1. Listed(d) /\ rooms[r] = obj /\ clients[obj][PeerOf[d]] = d
        BY <2>2, <3>2 DEF Membership, MembershipExact, Listed
      <4>2. PeerOf[d] # p
        BY <1>3, <4>1 DEF Exists
      <4> QED
        BY <2>3, <2>4, <2>6, <3>2, <4>1, <4>2 DEF Listed
    <3>3. CASE d # c /\ RoomOf[d] # r
      <4>1. Listed(d) /\ rooms[RoomOf[d]] \in Conn
        BY <2>2, <3>3 DEF Membership, MembershipExact, Listed, Typed, TypeOK
      <4> QED
        BY <2>3, <2>4, <3>3, <4>1 DEF Listed
    <3> QED
      BY <3>1, <3>2, <3>3
  <2>8. ASSUME NEW q \in Room, NEW x \in Peer, NEW d \in Conn, rooms'[q] # Nil,
               clients'[rooms'[q]][x] = d
        PROVE  Joined(d)' /\ RoomOf[d] = q /\ PeerOf[d] = x
    <3>1. CASE q = r /\ x = p
      BY <1>1, <2>2, <2>3, <2>4, <2>8, <3>1
    <3>2. CASE q = r /\ x # p
      <4>1. clients[obj][x] = d
        BY <2>3, <2>4, <2>8, <3>2
      <4>2. rooms[q] = obj /\ obj # Nil
        BY <2>5, <2>6, <3>2, <4>1
      <4>3. Joined(d) /\ RoomOf[d] = q /\ PeerOf[d] = x
        BY <4>1, <4>2 DEF Membership, MembershipExact
      <4> QED
        BY <1>1, <2>2, <4>3
    <3>3. CASE q # r
      <4>1. rooms'[q] = rooms[q] /\ rooms[q] # obj /\ rooms[q] \in Conn
        BY <2>3, <2>8, <3>3 DEF Typed, TypeOK
      <4>2. clients[rooms[q]][x] = d
        BY <2>4, <2>8, <4>1
      <4>3. Joined(d) /\ RoomOf[d] = q /\ PeerOf[d] = x
        BY <2>8, <4>1, <4>2 DEF Membership, MembershipExact
      <4> QED
        BY <1>1, <2>2, <4>3
    <3> QED
      BY <3>1, <3>2, <3>3
  <2>9. NoEmptyRoom'
    <3>1. c # Nil /\ clients'[obj] # NoClients
      BY <1>1, <2>4 DEF NoClients
    <3>2. \A q \in Room \ {r} : rooms'[q] # Nil => clients'[rooms'[q]] = clients[rooms[q]]
      BY <2>3, <2>4 DEF Typed, TypeOK
    <3> QED
      BY <2>3, <3>1, <3>2 DEF Membership, NoEmptyRoom
  <2>10. RoutesInCurrentRoom'
    <3> SUFFICES ASSUME NEW d \in Conn, pc'[d] \in {"lookup", "route"}
                 PROVE  /\ rooms'[RoomOf[d]] # Nil
                        /\ pc'[d] = "route" =>
                             held'[d] # Nil /\ held'[d] = rooms'[RoomOf[d]]
      BY DEF RoutesInCurrentRoom
    <3>1. d # c /\ pc[d] = pc'[d] /\ held'[d] = held[d]
      BY <1>1, <2>2
    <3>2. Joined(d) /\ RoomOf[d] \in Room /\ rooms[RoomOf[d]] # Nil
      BY <3>1 DEF Joined, JoinedStates, Membership, MembershipExact, Listed
    <3>3. rooms'[RoomOf[d]] = rooms[RoomOf[d]]
      BY <2>3, <3>2
    <3> QED
      BY <3>1, <3>2, <3>3 DEF Membership, RoutesInCurrentRoom
  <2>11. FreshObjects'
    <3>1. \A d \in Conn : Fresh(d)' => clients'[d] = NoClients
      BY <2>2, <2>4, <2>6 DEF Membership, FreshObjects
    <3>2. ASSUME NEW q \in Room, NEW g \in Conn, rooms'[q] = g
          PROVE  RoomOf[g] = q /\ ~Fresh(g)'
      <4>1. CASE q = r
        BY <1>1, <2>2, <2>3, <2>6, <3>2, <4>1
      <4>2. CASE q # r
        BY <2>2, <2>3, <3>2, <4>2 DEF Membership, FreshObjects
      <4> QED
        BY <4>1, <4>2
    <3>3. rooms' \in [Room -> Conn \cup {Nil}]
      BY DEF Typed, TypeOK
    <3> QED
      BY <3>1, <3>2, <3>3 DEF FreshObjects, Fresh
  <2>12. MembershipExact'
    <3>1. rooms' \in [Room -> Conn \cup {Nil}]
          /\ clients' \in [Conn -> [Peer -> Conn \cup {Nil}]]
      BY DEF Typed, TypeOK
    <3>2. ASSUME NEW q \in Room, NEW x \in Peer, rooms'[q] # Nil,
                 clients'[rooms'[q]][x] # Nil
          PROVE  /\ pc'[clients'[rooms'[q]][x]] \in JoinedStates
                 /\ RoomOf[clients'[rooms'[q]][x]] = q
                 /\ PeerOf[clients'[rooms'[q]][x]] = x
      BY <2>8, <3>1, <3>2 DEF Joined
    <3> QED
      BY <2>7, <3>2 DEF MembershipExact, Joined
  <2> QED
    BY <2>9, <2>10, <2>11, <2>12 DEF Membership
<1> QED
  BY <1>2, <1>3

(* unregister keeps the membership exact: it removes its own Client, since *)
(* that is the one listed under the identifier, and the room goes only     *)
(* when no other member is left.                                           *)
LEMMA UnregisterMembership ==
  ASSUME Typed, Typed', Membership, NEW c \in Conn, Unregister(c)
  PROVE  Membership'
<1> USE IdentifierAssumption, NilAssumption
<1> DEFINE r     == RoomOf[c]
           p     == PeerOf[c]
           obj   == rooms[r]
           table == [clients[obj] EXCEPT ![p] = Nil]
<1>1. /\ Joined(c) /\ Listed(c) /\ r \in Room /\ p \in Peer
      /\ obj \in Conn /\ clients[obj][p] = c /\ RoomOf[obj] = r /\ ~Fresh(obj)
  BY DEF Unregister, Joined, JoinedStates, Membership, MembershipExact,
         FreshObjects, Listed, Typed, TypeOK
<1>2. /\ Goto(c, "close") /\ UNCHANGED held
      /\ clients' = [clients EXCEPT ![obj] = table]
      /\ rooms' = [rooms EXCEPT ![r] = IF Vacant(table) THEN Nil ELSE obj]
  BY <1>1 DEF Unregister
<1>3. /\ pc'[c] = "close" /\ ~Joined(c)' /\ ~Fresh(c)'
      /\ \A d \in Conn \ {c} : /\ pc'[d] = pc[d]
                               /\ Joined(d)' <=> Joined(d)
                               /\ Fresh(d)' <=> Fresh(d)
  BY <1>2 DEF Goto, Joined, Fresh, JoinedStates, Typed, TypeOK
<1>4. /\ rooms'[r] = IF Vacant(table) THEN Nil ELSE obj
      /\ \A q \in Room \ {r} : rooms'[q] = rooms[q] /\ rooms[q] # obj
  BY <1>1, <1>2 DEF Typed, TypeOK, Membership, FreshObjects
<1>5. /\ clients'[obj] = table /\ table[p] = Nil
      /\ \A x \in Peer \ {p} : table[x] = clients[obj][x]
      /\ \A g \in Conn \ {obj} : clients'[g] = clients[g]
  BY <1>1, <1>2 DEF Typed, TypeOK
<1>6. ASSUME NEW d \in Conn, Joined(d)'
      PROVE  Listed(d)' /\ rooms'[RoomOf[d]] = rooms[RoomOf[d]]
  <2>1. d # c /\ Joined(d) /\ Listed(d)
    BY <1>3, <1>6 DEF Membership, MembershipExact
  <2>2. CASE RoomOf[d] = r
    <3>1. clients[obj][PeerOf[d]] = d /\ PeerOf[d] \in Peer
      BY <2>1, <2>2 DEF Listed
    <3>2. table[PeerOf[d]] = d /\ d # Nil
      BY <1>1, <1>5, <2>1, <3>1
    <3>3. ~Vacant(table)
      BY <3>1, <3>2 DEF Vacant, NoClients
    <3> QED
      BY <1>1, <1>4, <1>5, <2>2, <3>1, <3>2, <3>3 DEF Listed
  <2>3. CASE RoomOf[d] # r
    <3>1. rooms'[RoomOf[d]] = rooms[RoomOf[d]] /\ rooms[RoomOf[d]] \in Conn \ {obj}
      BY <1>4, <2>1, <2>3 DEF Listed, Typed, TypeOK
    <3> QED
      BY <1>5, <2>1, <3>1 DEF Listed
  <2> QED
    BY <2>2, <2>3
<1>7. ASSUME NEW q \in Room, NEW x \in Peer, NEW d \in Conn, rooms'[q] # Nil,
             clients'[rooms'[q]][x] = d
      PROVE  Joined(d)' /\ RoomOf[d] = q /\ PeerOf[d] = x
  <2>1. rooms'[q] = rooms[q]
    BY <1>4, <1>7 DEF Vacant
  <2>2. clients[rooms[q]][x] = d /\ (q # r \/ x # p)
    <3>1. CASE q = r
      <4>1. table[x] = d
        BY <1>5, <1>7, <2>1, <3>1
      <4> QED
        BY <1>5, <3>1, <4>1
    <3>2. CASE q # r
      <4>1. rooms[q] \in Conn \ {obj}
        BY <1>4, <1>7, <2>1, <3>2 DEF Typed, TypeOK
      <4> QED
        BY <1>5, <1>7, <2>1, <3>2, <4>1
    <3> QED
      BY <3>1, <3>2
  <2>3. Joined(d) /\ RoomOf[d] = q /\ PeerOf[d] = x
    BY <1>7, <2>1, <2>2 DEF Membership, MembershipExact
  <2> QED
    BY <1>3, <2>2, <2>3
<1>8. MembershipExact'
  <2>1. rooms' \in [Room -> Conn \cup {Nil}]
        /\ clients' \in [Conn -> [Peer -> Conn \cup {Nil}]]
    BY DEF Typed, TypeOK
  <2>2. ASSUME NEW q \in Room, NEW x \in Peer, rooms'[q] # Nil,
               clients'[rooms'[q]][x] # Nil
        PROVE  /\ pc'[clients'[rooms'[q]][x]] \in JoinedStates
               /\ RoomOf[clients'[rooms'[q]][x]] = q
               /\ PeerOf[clients'[rooms'[q]][x]] = x
    BY <1>7, <2>1, <2>2 DEF Joined
  <2> QED
    BY <1>6, <2>2 DEF MembershipExact, Joined
<1>9. NoEmptyRoom'
  <2>1. \A q \in Room \ {r} : rooms'[q] # Nil => clients'[rooms'[q]] = clients[rooms[q]]
    BY <1>4, <1>5 DEF Typed, TypeOK
  <2>2. rooms'[r] # Nil => clients'[rooms'[r]] # NoClients
    BY <1>4, <1>5 DEF Vacant
  <2> QED
    BY <1>4, <2>1, <2>2 DEF Membership, NoEmptyRoom
<1>10. RoutesInCurrentRoom'
  <2> SUFFICES ASSUME NEW d \in Conn, pc'[d] \in {"lookup", "route"}
               PROVE  /\ rooms'[RoomOf[d]] # Nil
                      /\ pc'[d] = "route" =>
                           held'[d] # Nil /\ held'[d] = rooms'[RoomOf[d]]
    BY DEF RoutesInCurrentRoom
  <2>1. d # c /\ pc[d] = pc'[d] /\ held'[d] = held[d] /\ Joined(d)'
    BY <1>2, <1>3 DEF Joined, JoinedStates
  <2>2. rooms'[RoomOf[d]] = rooms[RoomOf[d]]
    BY <1>6, <2>1
  <2> QED
    BY <2>1, <2>2 DEF Membership, RoutesInCurrentRoom
<1>11. FreshObjects'
  <2>1. \A d \in Conn : Fresh(d)' => clients'[d] = NoClients
    BY <1>1, <1>3, <1>5 DEF Membership, FreshObjects
  <2>2. ASSUME NEW q \in Room, NEW g \in Conn, rooms'[q] = g
        PROVE  RoomOf[g] = q /\ ~Fresh(g)'
    BY <1>1, <1>3, <1>4, <2>2 DEF Membership, FreshObjects
  <2>3. rooms' \in [Room -> Conn \cup {Nil}]
    BY DEF Typed, TypeOK
  <2> QED
    BY <2>1, <2>2, <2>3 DEF FreshObjects, Fresh
<1> QED
  BY <1>8, <1>9, <1>10, <1>11 DEF Membership

-----------------------------------------------------------------------------
LEMMA InitMembership == Init => Membership
BY NilAssumption
   DEF Init, Membership, MembershipExact, NoEmptyRoom, RoutesInCurrentRoom,
       FreshObjects, Fresh, Joined, JoinedStates, NoClients

LEMMA StepMembership ==
  ASSUME Typed, Membership, NEW c \in Conn, Step(c)
  PROVE  Membership'
<1>1. Typed'
  BY StepTyped
<1>2. CASE Upgrade(c)
  <2>1. ASSUME NEW d \in Conn
        PROVE  /\ Joined(d)' <=> Joined(d)
               /\ Fresh(d)' => Fresh(d)
               /\ pc'[d] = "route" => held'[d] = rooms[RoomOf[d]]
    BY <1>2 DEF Upgrade, Goto, Joined, JoinedStates, Fresh, Typed, TypeOK,
                Membership, RoutesInCurrentRoom
  <2> QED
    BY <1>2, <2>1, QuietStep DEF Upgrade, Quiet
<1>3. CASE Register(c)
  BY <1>1, <1>3, RegisterMembership
<1>4. CASE Unregister(c)
  BY <1>1, <1>4, UnregisterMembership
<1>5. CASE LookupRoom(c) /\ rooms[RoomOf[c]] # Nil
  <2>1. /\ pc[c] = "lookup" /\ Goto(c, "route") /\ UNCHANGED roomVars
        /\ held' = [held EXCEPT ![c] = rooms[RoomOf[c]]]
    BY <1>5 DEF LookupRoom
  <2>2. ASSUME NEW d \in Conn
        PROVE  /\ Joined(d)' <=> Joined(d)
               /\ Fresh(d)' => Fresh(d)
               /\ pc'[d] = "route" => held'[d] = rooms[RoomOf[d]]
    BY <2>1 DEF Goto, Joined, JoinedStates, Fresh, Typed, TypeOK,
                Membership, RoutesInCurrentRoom
  <2> QED
    BY <2>1, <2>2, QuietStep DEF Quiet
<1>6. CASE LookupRoom(c) /\ rooms[RoomOf[c]] = Nil
  BY <1>6 DEF LookupRoom, Membership, RoutesInCurrentRoom
<1>7. CASE Route(c)
  <2>1. /\ pc[c] = "route" /\ UNCHANGED roomVars
        /\ held' = [held EXCEPT ![c] = Nil]
        /\ Goto(c, "check") \/ Goto(c, "read")
    BY <1>7 DEF Route, SendError
  <2>2. ASSUME NEW d \in Conn
        PROVE  /\ Joined(d)' <=> Joined(d)
               /\ Fresh(d)' => Fresh(d)
               /\ pc'[d] = "route" => held'[d] = rooms[RoomOf[d]]
    BY <2>1 DEF Goto, Joined, JoinedStates, Fresh, Typed, TypeOK,
                Membership, RoutesInCurrentRoom
  <2> QED
    BY <2>1, <2>2, QuietStep DEF Quiet
<1>8. CASE ReadFrame(c)
  <2>1. ASSUME NEW d \in Conn
        PROVE  /\ Joined(d)' <=> Joined(d)
               /\ Fresh(d)' => Fresh(d)
               /\ pc'[d] = "route" => held'[d] = rooms[RoomOf[d]]
    BY <1>8 DEF ReadFrame, NextFrame, Goto, Joined, JoinedStates, Fresh, Typed, TypeOK,
                Membership, RoutesInCurrentRoom
  <2> QED
    BY <1>8, <2>1, QuietStep DEF ReadFrame, NextFrame, Quiet
<1>9. CASE Refuse(c) \/ Reject(c)
  <2>1. ~Joined(c) /\ Goto(c, "refused") /\ UNCHANGED <<roomVars, held>>
    BY <1>9 DEF Refuse, Reject, Joined, JoinedStates
  <2> QED
    BY <2>1, GotoType, HandlerQuiet DEF HandlerStates, JoinedStates, Typed
<1>10. CASE CloseConn(c)
  <2>1. ~Joined(c) /\ Goto(c, "returned") /\ UNCHANGED <<roomVars, held>>
    BY <1>10 DEF CloseConn, Joined, JoinedStates
  <2> QED
    BY <2>1, GotoType, HandlerQuiet DEF HandlerStates, JoinedStates, Typed
<1>11. CASE Run(c) \/ ReadMalformed(c) \/ ReadError(c) \/ CheckDone(c)
            \/ Enqueue(c) \/ Shutdown(c)
  <2> DEFINE states == {"read", "check", "push", "shutdown", "unregister"}
  <2>1. Joined(c) /\ UNCHANGED <<roomVars, held>>
    BY <1>11 DEF Run, ReadMalformed, ReadError, CheckDone, Enqueue, Shutdown,
                 NextFrame, Joined, JoinedStates
  <2>2. \E state \in states : Goto(c, state)
    BY <1>11 DEF Run, ReadMalformed, ReadError, CheckDone, Enqueue, Shutdown,
                 SendError, AfterError, FinishTarget
  <2>3. GoesTo(c, states)
    BY <2>2, GotoType DEF GoesTo, HandlerStates, JoinedStates, Typed
  <2> QED
    BY <2>1, <2>3, HandlerQuiet DEF HandlerStates, JoinedStates
<1>12. CASE Write(c) \/ ContextDone(c) \/ Hangup(c)
  <2>1. UNCHANGED <<roomVars, readVars>>
    BY <1>12 DEF Write, WriterPoll, WriterSelect, WriteMessage, WriteFails,
                 ContextDone, Hangup
  <2> QED
    BY <2>1, LoopsQuiet
<1> QED
  BY <1>2, <1>3, <1>4, <1>5, <1>6, <1>7, <1>8, <1>9, <1>10, <1>11, <1>12
     DEF Step, Serve, Deliver, Leave

(* The two parts of the inductive invariant hold in every state.           *)
LEMMA Inductive == Spec => [](Typed /\ Membership)
<1>1. Init => Typed /\ Membership
  BY InitTyped, InitMembership
<1>2. Typed /\ Membership /\ [Next]_vars => (Typed /\ Membership)'
  <2> SUFFICES ASSUME Typed, Membership, [Next]_vars
               PROVE  Typed' /\ Membership'
    OBVIOUS
  <2>1. CASE Next
    BY <2>1, StepTyped, StepMembership DEF Next
  <2>2. CASE UNCHANGED vars
    <3>1. Typed'
      BY <2>2 DEF Typed, TypeOK, StepOK, vars
    <3> QED
      BY <2>2, <3>1, LoopsQuiet DEF vars
  <2> QED
    BY <2>1, <2>2
<1> QED
  BY <1>1, <1>2, PTL DEF Spec

(* From register to unregister a Client is listed in its room, under its   *)
(* identifier, and nobody else is listed: hub.go, register and unregister. *)
THEOREM MembershipCorrect == Spec => []MembershipExact
<1>1. Typed /\ Membership => MembershipExact
  BY DEF Membership
<1> QED
  BY <1>1, Inductive, PTL

(* The hub keeps no room without a member.                                 *)
THEOREM RoomsCorrect == Spec => []NoEmptyRoom
<1>1. Typed /\ Membership => NoEmptyRoom
  BY DEF Membership
<1> QED
  BY <1>1, Inductive, PTL

(* The room that Hub.dispatch takes out of the hub exists and is current   *)
(* when the message is routed, although no lock is held in between; the    *)
(* answer "room closed" is never given.                                    *)
THEOREM RoutingCorrect == Spec => []RoutesInCurrentRoom
<1>1. Typed /\ Membership => RoutesInCurrentRoom
  BY DEF Membership
<1> QED
  BY <1>1, Inductive, PTL

-----------------------------------------------------------------------------
(* What may be on its way to a peer: only messages of its room that are    *)
(* meant for it, in any number of rooms.  The argument needs the members:  *)
(* the tables that Hub.dispatch looks receivers up in list members of the  *)
(* room under their identifiers.                                           *)

(* A handler has read the message it dispatches from its own connection,   *)
(* and enqueues it only for those whom it may reach, even if they have     *)
(* left the room in the meantime.                                          *)
Handled(c) ==
  /\ pc[c] \in {"lookup", "route"} => msg[c].type = "message" /\ msg[c].src = c
  /\ pc[c] \in {"check", "push"} => \A t \in targets[c] : Legitimate(t, msg[c])
  /\ pc[c] = "push" => Legitimate(cur[c], msg[c])

(* So the queue, the write loop and the remote peer get nothing else.      *)
Forwarded(c) ==
  /\ hand[c] # Nil \/ wpc[c] = "write" => Legitimate(c, hand[c])
  /\ \A i \in DOMAIN send[c] : Legitimate(c, send[c][i])
  /\ \A i \in DOMAIN delivered[c] : Legitimate(c, delivered[c][i])

Routed == \A c \in Conn : Handled(c) /\ Forwarded(c)

-----------------------------------------------------------------------------
(* The handler of another connection is not disturbed.                     *)
SameHandler(d) ==
  pc'[d] = pc[d] /\ msg'[d] = msg[d] /\ targets'[d] = targets[d] /\ cur'[d] = cur[d]

LEMMA HandledFrame ==
  ASSUME NEW d \in Conn, Handled(d), SameHandler(d)
  PROVE  Handled(d)'
BY DEF Handled, SameHandler, Legitimate

LEMMA ForwardedFrame ==
  ASSUME NEW d \in Conn, Forwarded(d), hand'[d] = hand[d], wpc'[d] = wpc[d],
         send'[d] = send[d], delivered'[d] = delivered[d]
  PROVE  Forwarded(d)'
BY DEF Forwarded, Legitimate

LEMMA ForwardedNext ==
  ASSUME NEW d \in Conn,
         hand'[d] # Nil \/ wpc'[d] = "write" => Legitimate(d, hand'[d]),
         \A i \in DOMAIN send'[d] : Legitimate(d, send'[d][i]),
         \A i \in DOMAIN delivered'[d] : Legitimate(d, delivered'[d][i])
  PROVE  Forwarded(d)'
BY DEF Forwarded, Legitimate

(* An error goes to the connection whose frame it is about.                *)
LEMMA SendErrorHandled ==
  ASSUME Typed, NEW c \in Conn, NEW n \in Nat, SendError(c, n)
  PROVE  Handled(c)'
<1>1. pc'[c] = "check" /\ msg'[c] = ErrorPayload(c, n) /\ targets'[c] = {c}
  BY DEF SendError, Goto, Typed, TypeOK
<1>2. msg'[c].type = "error" /\ msg'[c].src = c
  BY <1>1 DEF ErrorPayload
<1> QED
  BY <1>1, <1>2 DEF Handled, Legitimate

(* The end of enqueue for one target leaves the others with the message.   *)
LEMMA FinishTargetHandled ==
  ASSUME Typed, NEW c \in Conn, NEW t \in Conn, FinishTarget(c, t), Handled(c),
         pc[c] \in {"check", "push"}
  PROVE  Handled(c)'
<1>1. targets'[c] = targets[c] \ {t}
  BY DEF FinishTarget, Typed, TypeOK
<1>2. pc'[c] = "read" \/ (pc'[c] = "check" /\ msg'[c] = msg[c])
  <2>1. FinishTargetOK(c)
    BY FinishTargetType DEF Typed
  <2> QED
    BY <2>1 DEF FinishTargetOK, GoesTo
<1> QED
  BY <1>1, <1>2 DEF Handled, Legitimate

(* room.dispatch finds members of the room, under their own identifiers,   *)
(* and stamps the message with that of the sender.                         *)
LEMMA RouteHandled ==
  ASSUME Typed, Membership, NEW c \in Conn, Handled(c), Route(c)
  PROVE  Handled(c)'
<1> USE IdentifierAssumption, NilAssumption
<1> DEFINE table   == clients[held[c]]
           to      == msg[c].to
           stamped == Stamp(msg[c], PeerOf[c])
           others  == {table[p] : p \in Peer \ {PeerOf[c]}} \ {Nil}
<1>1. /\ pc[c] = "route" /\ msg[c].type = "message" /\ msg[c].src = c
      /\ msg[c] \in Payload /\ to \in Peer \cup {Blank}
      /\ RoomOf[c] \in Room /\ PeerOf[c] \in Peer
  BY DEF Route, Handled, Typed, StepOK, Payload
<1>2. ASSUME NEW p \in Peer, table[p] # Nil
      PROVE  RoomOf[table[p]] = RoomOf[c] /\ PeerOf[table[p]] = p
  BY <1>1, <1>2 DEF Membership, RoutesInCurrentRoom, MembershipExact
<1>3. /\ stamped.type = "message" /\ stamped.src = c
      /\ stamped.from = PeerOf[c] /\ stamped.to = to
  BY <1>1 DEF Stamp, Payload
<1>4. ASSUME NEW p \in Peer, table[p] # Nil, to = p \/ (to = Blank /\ p # PeerOf[c])
      PROVE  Legitimate(table[p], stamped)
  <2>1. to = PeerOf[table[p]] \/ (to = Blank /\ table[p] # c)
    BY <1>2, <1>4
  <2> QED
    BY <1>2, <1>3, <1>4, <2>1 DEF Legitimate
<1>5. CASE SendError(c, msg[c].seq)
  BY <1>1, <1>5, SendErrorHandled, StampType
<1>6. CASE /\ msg' = [msg EXCEPT ![c] = Stamp(@, PeerOf[c])]
           /\ Goto(c, "check")
           /\ \/ to # Blank /\ table[to] # Nil /\ targets' = [targets EXCEPT ![c] = {table[to]}]
              \/ to = Blank /\ targets' = [targets EXCEPT ![c] = others]
  <2>1. pc'[c] = "check" /\ msg'[c] = stamped
    BY <1>6 DEF Goto, Typed, TypeOK
  <2>2. \A t \in targets'[c] : Legitimate(t, stamped)
    <3>1. CASE to # Blank /\ table[to] # Nil /\ targets' = [targets EXCEPT ![c] = {table[to]}]
      <4>1. targets'[c] = {table[to]} /\ to \in Peer
        BY <1>1, <3>1 DEF Typed, TypeOK
      <4>2. Legitimate(table[to], stamped)
        BY <1>4, <3>1, <4>1
      <4> QED
        BY <4>1, <4>2
    <3>2. CASE to = Blank /\ targets' = [targets EXCEPT ![c] = others]
      <4>1. targets'[c] = others
        BY <3>2 DEF Typed, TypeOK
      <4> QED
        BY <1>4, <3>2, <4>1
    <3> QED
      BY <1>6, <3>1, <3>2
  <2> QED
    BY <2>1, <2>2 DEF Handled, Legitimate
<1>7. CASE Goto(c, "read")
  BY <1>7 DEF Goto, Handled, Typed, TypeOK
<1> QED
  BY <1>5, <1>6, <1>7, Zenon DEF Route

-----------------------------------------------------------------------------
LEMMA InitRouted == Init => Routed
<1> SUFFICES ASSUME Init, NEW c \in Conn PROVE Handled(c) /\ Forwarded(c)
  BY DEF Routed
<1>1. pc[c] = "dial" /\ wpc[c] = "off" /\ hand[c] = Nil
      /\ send[c] = <<>> /\ delivered[c] = <<>>
  BY DEF Init
<1> QED
  BY <1>1 DEF Handled, Forwarded

(* A step of one connection disturbs no other handler.                     *)
LEMMA StepSameHandler ==
  ASSUME Typed, NEW c \in Conn, Step(c)
  PROVE  \A d \in Conn \ {c} : SameHandler(d) /\ received'[d] = received[d]
<1> USE DEF Goto, Typed, TypeOK, SameHandler
<1>1. CASE Serve(c)
  BY <1>1 DEF Serve, Upgrade, Refuse, Register, Reject, Run
<1>2. CASE ReadFrame(c) \/ ReadMalformed(c) \/ ReadError(c)
  BY <1>2 DEF ReadFrame, ReadMalformed, ReadError, NextFrame, SendError
<1>3. CASE LookupRoom(c)
  BY <1>3 DEF LookupRoom, SendError
<1>4. CASE Route(c)
  BY <1>4 DEF Route, SendError
<1>5. CASE CheckDone(c) \/ Enqueue(c)
  BY <1>5 DEF CheckDone, Enqueue, FinishTarget
<1>6. CASE Leave(c)
  BY <1>6 DEF Leave, Shutdown, Unregister, CloseConn
<1>7. CASE Write(c) \/ ContextDone(c) \/ Hangup(c)
  BY <1>7 DEF Write, WriterPoll, WriterSelect, WriteMessage, WriteFails,
              ContextDone, Hangup
<1> QED
  BY <1>1, <1>2, <1>3, <1>4, <1>5, <1>6, <1>7 DEF Step, Deliver

(* Every step of a handler keeps what it has in hand legitimate.           *)
LEMMA StepHandled ==
  ASSUME Typed, Membership, Routed, NEW c \in Conn, Step(c)
  PROVE  \A d \in Conn : Handled(d)'
<1>1. Handled(c)
  BY DEF Routed
<1>2. \A d \in Conn \ {c} : SameHandler(d)
  BY StepSameHandler
<1>3. Handled(c)'
  <2>1. CASE Serve(c) \/ ReadError(c) \/ Leave(c)
    <3>1. pc'[c] \notin {"lookup", "route", "check", "push"}
      BY <2>1 DEF Serve, Upgrade, Refuse, Register, Reject, Run, ReadError, AfterError,
                  Leave, Shutdown, Unregister, CloseConn, Goto, Typed, TypeOK
    <3> QED
      BY <3>1 DEF Handled
  <2>2. CASE ReadFrame(c)
    <3>1. PICK to \in SentTo, from \in SentFrom :
            msg' = [msg EXCEPT ![c] = Message(c, to, from, received[c] + 1)]
      BY <2>2 DEF ReadFrame
    <3>2. pc'[c] = "lookup" /\ msg'[c].type = "message" /\ msg'[c].src = c
      BY <2>2, <3>1 DEF ReadFrame, Goto, Message, Typed, TypeOK
    <3> QED
      BY <3>2 DEF Handled
  <2>3. CASE ReadMalformed(c)
    <3>1. received[c] + 1 \in Nat /\ SendError(c, received[c] + 1)
      BY <2>3 DEF ReadMalformed, Typed, TypeOK
    <3> QED
      BY <3>1, SendErrorHandled
  <2>4. CASE LookupRoom(c)
    <3>1. msg[c].seq \in Nat
      BY <2>4 DEF LookupRoom, Typed, StepOK, Payload
    <3>2. CASE rooms[RoomOf[c]] = Nil
      <4>1. SendError(c, msg[c].seq)
        BY <2>4, <3>2 DEF LookupRoom
      <4> QED
        BY <3>1, <4>1, SendErrorHandled
    <3>3. CASE rooms[RoomOf[c]] # Nil
      <4>1. pc[c] = "lookup" /\ Goto(c, "route") /\ UNCHANGED msg
        BY <2>4, <3>3 DEF LookupRoom
      <4> QED
        BY <1>1, <4>1 DEF Handled, Goto, Typed, TypeOK
    <3> QED
      BY <3>2, <3>3
  <2>5. CASE Route(c)
    BY <1>1, <2>5, RouteHandled
  <2>6. CASE CheckDone(c)
    <3>1. pc[c] = "check"
      BY <2>6 DEF CheckDone
    <3>2. PICK t \in targets[c] :
            \/ FinishTarget(c, t)
            \/ cur' = [cur EXCEPT ![c] = t] /\ Goto(c, "push") /\ UNCHANGED <<targets, msg>>
      BY <2>6 DEF CheckDone
    <3>3. t \in Conn
      BY DEF Typed, TypeOK
    <3>4. CASE FinishTarget(c, t)
      BY <1>1, <3>1, <3>3, <3>4, FinishTargetHandled
    <3>5. CASE cur' = [cur EXCEPT ![c] = t] /\ Goto(c, "push") /\ UNCHANGED <<targets, msg>>
      <4>1. /\ pc'[c] = "push" /\ cur'[c] = t
            /\ targets'[c] = targets[c] /\ msg'[c] = msg[c]
        BY <3>5 DEF Goto, Typed, TypeOK
      <4> QED
        BY <1>1, <3>1, <4>1 DEF Handled, Legitimate
    <3> QED
      BY <3>2, <3>4, <3>5
  <2>7. CASE Enqueue(c)
    <3>1. pc[c] = "push" /\ cur[c] \in Conn /\ FinishTarget(c, cur[c])
      BY <2>7 DEF Enqueue, Typed, StepOK
    <3> QED
      BY <1>1, <3>1, FinishTargetHandled
  <2>8. CASE Write(c) \/ ContextDone(c) \/ Hangup(c)
    <3>1. SameHandler(c)
      BY <2>8 DEF Write, WriterPoll, WriterSelect, WriteMessage, WriteFails,
                  ContextDone, Hangup, SameHandler
    <3> QED
      BY <1>1, <3>1, HandledFrame
  <2> QED
    BY <2>1, <2>2, <2>3, <2>4, <2>5, <2>6, <2>7, <2>8 DEF Step, Deliver
<1> QED
  BY <1>2, <1>3, HandledFrame DEF Routed

(* Every step of a queue or a write loop passes on what is legitimate.     *)
LEMMA StepForwarded ==
  ASSUME Typed, Routed, NEW c \in Conn, Step(c)
  PROVE  \A d \in Conn : Forwarded(d)'
<1>1. Forwarded(c) /\ Handled(c)
  BY DEF Routed
<1>2. CASE Enqueue(c)
  <2>1. PICK t \in Conn : t = cur[c]
    BY <1>2 DEF Enqueue, Typed, StepOK
  <2>2. /\ pc[c] = "push" /\ msg[c] \in Payload
        /\ UNCHANGED <<hand, wpc, delivered>>
    BY <1>2 DEF Enqueue, Typed, StepOK
  <2>3. CASE UNCHANGED send
    BY <2>1, <2>2, <2>3, ForwardedFrame DEF Routed
  <2>4. CASE send' = [send EXCEPT ![t] = Append(@, msg[c])]
    <3>1. send'[t] = Append(send[t], msg[c]) /\ \A d \in Conn \ {t} : send'[d] = send[d]
      BY <2>1, <2>2, <2>4 DEF Typed, TypeOK
    <3>2. \A i \in DOMAIN Append(send[t], msg[c]) :
            \/ i \in DOMAIN send[t] /\ Append(send[t], msg[c])[i] = send[t][i]
            \/ Append(send[t], msg[c])[i] = msg[c]
      BY <2>2 DEF Typed, TypeOK
    <3>3. Legitimate(t, msg[c]) /\ Forwarded(t)
      BY <1>1, <2>1, <2>2 DEF Handled, Routed
    <3>4. \A i \in DOMAIN send'[t] : Legitimate(t, send'[t][i])
      BY <3>1, <3>2, <3>3 DEF Forwarded
    <3>5. Forwarded(t)'
      BY <2>1, <2>2, <3>3, <3>4, ForwardedNext DEF Forwarded
    <3>6. ASSUME NEW d \in Conn \ {t} PROVE Forwarded(d)'
      BY <2>1, <2>2, <3>1, ForwardedFrame DEF Routed
    <3> QED
      BY <3>5, <3>6
  <2> QED
    BY <1>2, <2>1, <2>3, <2>4 DEF Enqueue
<1>3. CASE WriterSelect(c)
  <2>1. /\ \A d \in Conn \ {c} : wpc'[d] = wpc[d] /\ hand'[d] = hand[d] /\ send'[d] = send[d]
        /\ UNCHANGED delivered
    BY <1>3 DEF WriterSelect, Typed, TypeOK
  <2>2. CASE wpc' = [wpc EXCEPT ![c] = "exited"] /\ UNCHANGED <<hand, send>>
    <3>1. wpc'[c] = "exited"
      BY <2>2 DEF Typed, TypeOK
    <3>2. Forwarded(c)'
      BY <1>1, <2>1, <2>2, <3>1 DEF Forwarded, Legitimate
    <3> QED
      BY <2>1, <3>2, ForwardedFrame DEF Routed
  <2>3. CASE /\ send[c] # <<>>
             /\ hand' = [hand EXCEPT ![c] = Head(send[c])]
             /\ send' = [send EXCEPT ![c] = Tail(@)]
    <3>1. hand'[c] = Head(send[c]) /\ send'[c] = Tail(send[c])
      BY <2>3 DEF Typed, TypeOK
    <3>2. /\ 1 \in DOMAIN send[c] /\ Head(send[c]) = send[c][1]
          /\ \A i \in DOMAIN Tail(send[c]) :
               i + 1 \in DOMAIN send[c] /\ Tail(send[c])[i] = send[c][i + 1]
      BY <2>3 DEF Typed, TypeOK
    <3>3. Legitimate(c, hand'[c]) /\ \A i \in DOMAIN send'[c] : Legitimate(c, send'[c][i])
      BY <1>1, <3>1, <3>2 DEF Forwarded
    <3>4. Forwarded(c)'
      BY <1>1, <2>1, <3>3 DEF Forwarded, Legitimate
    <3> QED
      BY <2>1, <3>4, ForwardedFrame DEF Routed
  <2> QED
    BY <1>3, <2>2, <2>3 DEF WriterSelect, Rest
<1>4. CASE WriteMessage(c)
  <2>1. /\ wpc[c] = "write" /\ wpc'[c] = "check" /\ hand'[c] = Nil /\ UNCHANGED send
        /\ delivered'[c] \in {delivered[c], Append(delivered[c], hand[c])}
        /\ \A d \in Conn \ {c} :
             wpc'[d] = wpc[d] /\ hand'[d] = hand[d] /\ delivered'[d] = delivered[d]
    BY <1>4 DEF WriteMessage, Typed, TypeOK
  <2>2. \A i \in DOMAIN Append(delivered[c], hand[c]) :
          \/ i \in DOMAIN delivered[c] /\ Append(delivered[c], hand[c])[i] = delivered[c][i]
          \/ Append(delivered[c], hand[c])[i] = hand[c]
    BY DEF Typed, TypeOK
  <2>3. Legitimate(c, hand[c])
    BY <1>1, <2>1 DEF Forwarded
  <2>4. \A i \in DOMAIN delivered'[c] : Legitimate(c, delivered'[c][i])
    BY <1>1, <2>1, <2>2, <2>3 DEF Forwarded
  <2>5. Forwarded(c)'
    BY <1>1, <2>1, <2>4 DEF Forwarded, Legitimate
  <2> QED
    BY <2>1, <2>5, ForwardedFrame DEF Routed
<1>5. CASE WriteFails(c) \/ WriterPoll(c) \/ Run(c)
  <2>1. /\ UNCHANGED <<send, delivered>> /\ wpc'[c] # "write"
        /\ hand'[c] \in {hand[c], Nil}
        /\ \A d \in Conn \ {c} : wpc'[d] = wpc[d] /\ hand'[d] = hand[d]
    BY <1>5 DEF WriteFails, WriterPoll, AfterPoll, Run, Typed, TypeOK
  <2>2. Forwarded(c)'
    BY <1>1, <2>1 DEF Forwarded, Legitimate
  <2> QED
    BY <2>1, <2>2, ForwardedFrame DEF Routed
<1>6. CASE \/ Upgrade(c) \/ Refuse(c) \/ Register(c) \/ Reject(c)
           \/ ReadFrame(c) \/ ReadMalformed(c) \/ ReadError(c)
           \/ LookupRoom(c) \/ Route(c) \/ CheckDone(c)
           \/ Leave(c) \/ ContextDone(c) \/ Hangup(c)
  <2>1. UNCHANGED <<hand, wpc, send, delivered>>
    BY <1>6 DEF Upgrade, Refuse, Register, Reject, ReadFrame, ReadMalformed, NextFrame,
                ReadError, LookupRoom, Route, CheckDone, Leave, Shutdown, Unregister,
                CloseConn, ContextDone, Hangup
  <2> QED
    BY <2>1, ForwardedFrame DEF Routed
<1> QED
  BY <1>2, <1>3, <1>4, <1>5, <1>6 DEF Step, Serve, Deliver, Write

(* What is legitimate in the queue, in hand and delivered is so in all.    *)
LEMMA OutboxLegitimate ==
  ASSUME Typed, Routed
  PROVE  OnlyLegitimate
<1> SUFFICES ASSUME NEW c \in Conn, NEW i \in DOMAIN Outbox(c)
             PROVE  Legitimate(c, Outbox(c)[i])
  BY DEF OnlyLegitimate
<1> DEFINE inHand == IF hand[c] = Nil THEN <<>> ELSE <<hand[c]>>
           front  == delivered[c] \o inHand
<1>1. delivered[c] \in Seq(Payload) /\ inHand \in Seq(Payload) /\ send[c] \in Seq(Payload)
  BY DEF Typed, TypeOK
<1>2. /\ Outbox(c) = front \o send[c] /\ front \in Seq(Payload)
      /\ Len(front) = Len(delivered[c]) + Len(inHand)
  BY <1>1 DEF Outbox
<1>3. \A j \in DOMAIN inHand : Legitimate(c, inHand[j])
  BY DEF Routed, Forwarded
<1> HIDE DEF inHand
<1>4. ASSUME NEW j \in DOMAIN front PROVE Legitimate(c, front[j])
  <2>1. CASE j <= Len(delivered[c])
    <3>1. j \in DOMAIN delivered[c] /\ front[j] = delivered[c][j]
      BY <1>1, <1>2, <2>1
    <3> QED
      BY <3>1 DEF Routed, Forwarded
  <2>2. CASE j > Len(delivered[c])
    <3>1. /\ j - Len(delivered[c]) \in DOMAIN inHand
          /\ front[j] = inHand[j - Len(delivered[c])]
      BY <1>1, <1>2, <2>2
    <3> QED
      BY <1>3, <3>1
  <2> QED
    BY <1>1, <1>2, <2>1, <2>2
<1> HIDE DEF front
<1>5. CASE i <= Len(front)
  <2>1. i \in DOMAIN front /\ Outbox(c)[i] = front[i]
    BY <1>1, <1>2, <1>5
  <2> QED
    BY <1>4, <2>1
<1>6. CASE i > Len(front)
  <2>1. i - Len(front) \in DOMAIN send[c] /\ Outbox(c)[i] = send[c][i - Len(front)]
    BY <1>1, <1>2, <1>6
  <2> QED
    BY <2>1 DEF Routed, Forwarded
<1> QED
  BY <1>1, <1>2, <1>5, <1>6

LEMMA AlwaysRouted == Spec => []Routed
<1>1. Init => Routed
  BY InitRouted
<1>2. Typed /\ Membership /\ Routed /\ [Next]_vars => Routed'
  <2> SUFFICES ASSUME Typed, Membership, Routed, [Next]_vars
               PROVE  Routed'
    OBVIOUS
  <2>1. CASE Next
    BY <2>1, StepHandled, StepForwarded DEF Next, Routed
  <2>2. CASE UNCHANGED vars
    BY <2>2, HandledFrame, ForwardedFrame DEF vars, Routed, SameHandler
  <2> QED
    BY <2>1, <2>2
<1> QED
  BY <1>1, <1>2, Inductive, PTL DEF Spec

(* Nothing reaches a peer from another room, under a forged identifier, or *)
(* meant for somebody else, in any number of rooms and whoever leaves or   *)
(* takes over an identifier during a dispatch (hub.go: dispatch).          *)
THEOREM RoutingLegitimate == Spec => []OnlyLegitimate
<1>1. Typed /\ Routed => OnlyLegitimate
  BY OutboxLegitimate
<1> QED
  BY <1>1, AlwaysRouted, Inductive, PTL

-----------------------------------------------------------------------------
(* Late takes.  Once the write loop has taken a message after shutdown it  *)
(* does not come back to its second select: the first one finds done.      *)
Late(c) ==
  /\ late[c] <= 1
  /\ late[c] # 0 => done[c] /\ wpc[c] \in {"check", "write", "exited"}

LEMMA StepLate ==
  ASSUME Typed, \A d \in Conn : Late(d), NEW c \in Conn, Step(c)
  PROVE  \A d \in Conn : Late(d)'
<1> USE DEF Typed, TypeOK, Late
<1>1. CASE WriterSelect(c)
  <2>1. CASE UNCHANGED late /\ wpc' = [wpc EXCEPT ![c] = "exited"]
    BY <1>1, <2>1 DEF WriterSelect
  <2>2. CASE /\ wpc' = [wpc EXCEPT ![c] = "write"]
             /\ late' = [late EXCEPT ![c] = IF done[c] THEN @ + 1 ELSE @]
    <3>1. wpc[c] = "wait" /\ late[c] = 0 /\ UNCHANGED done
      BY <1>1 DEF WriterSelect
    <3>2. wpc'[c] = "write" /\ late'[c] = (IF done[c] THEN 1 ELSE 0)
          /\ \A d \in Conn \ {c} : wpc'[d] = wpc[d] /\ late'[d] = late[d]
      BY <2>2, <3>1
    <3>3. Late(c)'
      BY <3>1, <3>2
    <3>4. \A d \in Conn \ {c} : Late(d)'
      BY <3>1, <3>2
    <3> QED
      BY <3>3, <3>4
  <2> QED
    BY <1>1, <2>1, <2>2 DEF WriterSelect
<1>2. CASE WriterPoll(c) \/ WriteMessage(c) \/ WriteFails(c) \/ Run(c)
  <2>1. UNCHANGED <<late, done>> /\ \A d \in Conn \ {c} : wpc'[d] = wpc[d]
    BY <1>2 DEF WriterPoll, WriteMessage, WriteFails, Run
  <2>2. done[c] => wpc'[c] \in {"check", "exited"}
    BY <1>2 DEF WriterPoll, AfterPoll, Stopped, WriteMessage, WriteFails, Run
  <2>3. Late(c)'
    BY <2>1, <2>2
  <2>4. \A d \in Conn \ {c} : Late(d)'
    BY <2>1
  <2> QED
    BY <2>3, <2>4
<1>3. CASE Shutdown(c) \/ ContextDone(c)
  BY <1>3 DEF Shutdown, ContextDone
<1>4. CASE \/ Upgrade(c) \/ Refuse(c) \/ Register(c) \/ Reject(c)
           \/ ReadFrame(c) \/ ReadMalformed(c) \/ ReadError(c)
           \/ Deliver(c) \/ Unregister(c) \/ CloseConn(c) \/ Hangup(c)
  <2>1. UNCHANGED <<late, done, wpc>>
    BY <1>4 DEF Upgrade, Refuse, Register, Reject, ReadFrame, ReadMalformed, NextFrame,
                ReadError, Deliver, LookupRoom, Route, CheckDone, Enqueue, Unregister,
                CloseConn, Hangup
  <2> QED
    BY <2>1
<1> QED
  BY <1>1, <1>2, <1>3, <1>4 DEF Step, Serve, Leave, Write

(* After shutdown at most one more message is taken out of the queue of a  *)
(* client, although its second select may prefer send to done (client.go:  *)
(* writeLoop).                                                             *)
THEOREM FewLateTakes == Spec => []AtMostOneLateTake
<1> DEFINE LateInv == \A c \in Conn : Late(c)
<1>1. Init => LateInv
  <2> SUFFICES ASSUME Init, NEW c \in Conn PROVE Late(c)
    OBVIOUS
  <2>1. late[c] = 0
    BY DEF Init
  <2> QED
    BY <2>1 DEF Late
<1>2. Typed /\ LateInv /\ [Next]_vars => LateInv'
  <2> SUFFICES ASSUME Typed, LateInv, [Next]_vars PROVE LateInv'
    OBVIOUS
  <2>1. CASE Next
    BY <2>1, StepLate DEF Next
  <2>2. CASE UNCHANGED vars
    BY <2>2 DEF vars, Late
  <2> QED
    BY <2>1, <2>2
<1>3. LateInv => AtMostOneLateTake
  BY DEF Late, AtMostOneLateTake
<1> QED
  BY <1>1, <1>2, <1>3, Inductive, PTL DEF Spec
=============================================================================
