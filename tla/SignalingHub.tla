---------------------------- MODULE SignalingHub ----------------------------
(***************************************************************************)
(* The signaling hub of the backend (internal/signaling): HTTP requests to *)
(* /ws become Clients that join a room, and every Client runs a read loop  *)
(* (in the goroutine of its handler), a write loop and a goroutine that    *)
(* waits for the cancellation of its context.  The read loops route the    *)
(* frames of the remote peers into the bounded send queues of the others.  *)
(*                                                                         *)
(* A step is a critical section of Hub.mu or room.mu, a select statement,  *)
(* or a call on the WebSocket connection.  register and unregister are one *)
(* step each: they hold Hub.mu throughout, and room.clients is written     *)
(* only under Hub.mu.                                                      *)
(***************************************************************************)
EXTENDS Naturals, Sequences

CONSTANTS
  Conn,        \* requests to /ws; a request becomes at most one Client
  Room, Peer,  \* the identifiers of rooms and peers, trimmed and not empty
  RoomOf,      \* RoomOf[c], PeerOf[c]: query parameters of request c;
  PeerOf,      \*   the fields of its Client, which nothing assigns again
  SentFrom,    \* what a remote peer may write in the "from" of a frame
  SentTo,      \*   and in its "to"
  Blank,       \* the empty string
  Nil,         \* Go's nil
  QueueSize,   \* capacity of Client.send (16 in client.go)
  Fragile,     \* connections that may break before the server notices
  MaxFrames    \* bound: MaxFrames[c] frames are read on connection c

ASSUME IdentifierAssumption ==
  /\ Blank \notin Room \cup Peer
  /\ RoomOf \in [Conn -> Room \cup {Blank}]
  /\ PeerOf \in [Conn -> Peer \cup {Blank}]
  /\ SentFrom \subseteq Peer \cup {Blank}
  /\ SentTo \subseteq Peer \cup {Blank}
  /\ Fragile \subseteq Conn

ASSUME NilAssumption == Nil \notin Conn /\ Nil \notin Peer

ASSUME SizeAssumption == QueueSize \in Nat \ {0} /\ MaxFrames \in [Conn -> Nat]

VARIABLES
  rooms,     \* Hub.rooms: the room object registered under each identifier;
             \*   an object is named after the connection that created it
  clients,   \* room.clients of each room object
  pc,        \* handler goroutine: ServeWS, then run and the read loop
  held,      \* room object that Hub.dispatch took out of Hub.rooms
  msg,       \* the message or error that the handler is sending
  targets,   \* Clients it still has to enqueue msg for
  cur,       \* the Client whose done channel it found open
  send,      \* Client.send
  done,      \* Client.done is closed
  sock,      \* the WebSocket connection
  wpc,       \* write loop
  hand,      \* what the write loop took out of send
  watcher,   \* goroutine that waits for ctx.Done()
  received,  \* number of frames read (numbers the messages)
  delivered, \* history: what reached the remote peer, in order
  late       \* history: takes from send after done was closed

roomVars   == <<rooms, clients>>
readVars   == <<pc, held, msg, targets, cur, received>>
writeVars  == <<wpc, hand, delivered, late>>
clientVars == <<send, done, sock, watcher>>
vars == <<roomVars, readVars, writeVars, clientVars>>

-----------------------------------------------------------------------------
(* Messages.  The type and payload of a Message are opaque to the hub; src *)
(* and seq identify the frame it was made from.                            *)

Message(c, to, from, n) ==
  [type |-> "message", src |-> c, from |-> from, to |-> to, seq |-> n]

ErrorPayload(c, n) ==
  [type |-> "error", src |-> c, from |-> Blank, to |-> Blank, seq |-> n]

Payload == [type : {"message", "error"}, src : Conn, from : Peer \cup {Blank},
            to : Peer \cup {Blank}, seq : Nat]

ASSUME PayloadAssumption == Nil \notin Payload

(* Handler states between register and unregister.                         *)
JoinedStates == {"registered", "read", "lookup", "route", "check", "push",
                 "shutdown", "unregister"}

HandlerStates ==
  JoinedStates \cup {"dial", "upgraded", "reject", "refused", "close", "returned"}

Joined(c) == pc[c] \in JoinedStates

(* c is in the table of the room its identifier names.                     *)
Listed(c) ==
  /\ RoomOf[c] \in Room /\ PeerOf[c] \in Peer
  /\ rooms[RoomOf[c]] # Nil
  /\ clients[rooms[RoomOf[c]]][PeerOf[c]] = c

NoClients == [p \in Peer |-> Nil]

-----------------------------------------------------------------------------
Init ==
  /\ rooms = [r \in Room |-> Nil]
  /\ clients = [c \in Conn |-> NoClients]
  /\ pc = [c \in Conn |-> "dial"]
  /\ held = [c \in Conn |-> Nil]
  /\ msg = [c \in Conn |-> Nil]
  /\ targets = [c \in Conn |-> {}]
  /\ cur = [c \in Conn |-> Nil]
  /\ send = [c \in Conn |-> <<>>]
  /\ done = [c \in Conn |-> FALSE]
  /\ sock = [c \in Conn |-> "none"]
  /\ wpc = [c \in Conn |-> "off"]
  /\ hand = [c \in Conn |-> Nil]
  /\ watcher = [c \in Conn |-> "off"]
  /\ received = [c \in Conn |-> 0]
  /\ delivered = [c \in Conn |-> <<>>]
  /\ late = [c \in Conn |-> 0]

Goto(c, state) == pc' = [pc EXCEPT ![c] = state]

-----------------------------------------------------------------------------
(* Parts of the actions, each after a faulty variant (Bad...) that no      *)
(* action uses: what the properties below would catch.                     *)

(* Hub.rooms is looked up by room identifier: register.                    *)
RoomFor(r) == rooms[r]

(* addClient refuses an identifier that is in the table.                   *)
BadExists(table, p) == FALSE
Exists(table, p) == table[p] # Nil

(* unregister drops a room when, and only when, its table is empty.        *)
BadVacant(table)      == TRUE
BadNeverVacant(table) == FALSE
Vacant(table) == table = NoClients

(* Hub.dispatch and formatMessage overwrite the "from" of the frame.       *)
BadStamp(m, p) == m
Stamp(m, p) == [m EXCEPT !.from = p]

(* enqueue: the send case is ready, or else the default case is.           *)
BadHasSpace(t) == TRUE
HasSpace(t) == Len(send[t]) < QueueSize

BadDefault(t) == FALSE
Default(t) == ~done[t] /\ ~HasSpace(t)

(* run returns: its deferred cancel ends the context.                      *)
BadCancelled(c) == FALSE
Cancelled(c) == pc[c] = "returned"

(* A receive from Client.send takes the message out of the queue.          *)
BadRest(queue) == queue
Rest(queue) == Tail(queue)

(* The state of the handler after ReadMessage has failed.                  *)
BadAfterError == "read"
AfterError == "shutdown"

(* The state of the write loop after its first select.                     *)
BadAfterPoll(stopped) == "wait"
AfterPoll(stopped) == IF stopped THEN "exited" ELSE "wait"

-----------------------------------------------------------------------------
(* ServeWS, up to the call of run.                                         *)

(* The method, the parameters and the origin are in order: upgrade.        *)
Upgrade(c) ==
  /\ pc[c] = "dial"
  /\ RoomOf[c] # Blank /\ PeerOf[c] # Blank
  /\ Goto(c, "upgraded")
  /\ sock' = [sock EXCEPT ![c] = "open"]
  /\ UNCHANGED <<roomVars, held, msg, targets, cur, received, writeVars, send,
                 done, watcher>>

(* Answer with 405, 400 or 403, or fail to upgrade: no Client.             *)
Refuse(c) ==
  /\ pc[c] = "dial"
  /\ Goto(c, "refused")
  /\ UNCHANGED <<roomVars, held, msg, targets, cur, received, writeVars, clientVars>>

(* Hub.register: find or create the room, then room.addClient.             *)
Register(c) ==
  LET r   == RoomOf[c]
      obj == IF RoomFor(r) = Nil THEN c ELSE RoomFor(r)
  IN  /\ pc[c] = "upgraded"
      /\ rooms' = [rooms EXCEPT ![r] = obj]
      /\ \/ /\ ~Exists(clients[obj], PeerOf[c])
            /\ clients' = [clients EXCEPT ![obj][PeerOf[c]] = c]
            /\ Goto(c, "registered")
         \/ /\ Exists(clients[obj], PeerOf[c])
            /\ Goto(c, "reject")
            /\ UNCHANGED clients
      /\ UNCHANGED <<held, msg, targets, cur, received, writeVars, clientVars>>

(* errPeerExists: close frame with PolicyViolation, then conn.Close.       *)
Reject(c) ==
  /\ pc[c] = "reject"
  /\ Goto(c, "refused")
  /\ sock' = [sock EXCEPT ![c] = "closed"]
  /\ UNCHANGED <<roomVars, held, msg, targets, cur, received, writeVars, send,
                 done, watcher>>

(* Client.run starts the goroutines and enters the read loop.              *)
Run(c) ==
  /\ pc[c] = "registered"
  /\ Goto(c, "read")
  /\ wpc' = [wpc EXCEPT ![c] = "check"]
  /\ watcher' = [watcher EXCEPT ![c] = "waiting"]
  /\ UNCHANGED <<roomVars, held, msg, targets, cur, received, hand, delivered,
                 late, send, done, sock>>

-----------------------------------------------------------------------------
(* The read loop.                                                          *)

(* sendError: enqueue an ErrorPayload for the sender itself.               *)
SendError(c, n) ==
  /\ Goto(c, "check")
  /\ msg' = [msg EXCEPT ![c] = ErrorPayload(c, n)]
  /\ targets' = [targets EXCEPT ![c] = {c}]

(* ReadMessage returns the next frame.                                     *)
NextFrame(c) ==
  /\ pc[c] = "read"
  /\ sock[c] \in {"open", "broken"}
  /\ received[c] < MaxFrames[c]
  /\ received' = [received EXCEPT ![c] = @ + 1]
  /\ UNCHANGED <<roomVars, held, cur, writeVars, clientVars>>

(* A text frame that decodes to a Message with a type.                     *)
ReadFrame(c) ==
  /\ NextFrame(c)
  /\ \E to \in SentTo, from \in SentFrom :
        msg' = [msg EXCEPT ![c] = Message(c, to, from, received[c] + 1)]
  /\ Goto(c, "lookup")
  /\ UNCHANGED targets

(* A binary frame, a frame that is no JSON, or a message without a type.   *)
ReadMalformed(c) ==
  /\ NextFrame(c)
  /\ SendError(c, received[c] + 1)

(* ReadMessage fails: the connection broke, or a frame exceeds the limit.  *)
ReadError(c) ==
  /\ pc[c] = "read"
  /\ sock[c] \in {"open", "broken"}
  /\ Goto(c, AfterError)
  /\ UNCHANGED <<roomVars, held, msg, targets, cur, received, writeVars, clientVars>>

(* Hub.dispatch: take the room out of Hub.rooms under Hub.mu.              *)
LookupRoom(c) ==
  LET r == rooms[RoomOf[c]]
  IN  /\ pc[c] = "lookup"
      /\ IF r = Nil
         THEN SendError(c, msg[c].seq) /\ UNCHANGED held
         ELSE /\ held' = [held EXCEPT ![c] = r]
              /\ Goto(c, "route")
              /\ UNCHANGED <<msg, targets>>
      /\ UNCHANGED <<roomVars, cur, received, writeVars, clientVars>>

(* room.dispatch: stamp the sender, then getClient or listExcept.  (The    *)
(* payload came out of JSON, so that formatMessage can encode it again.)   *)
Route(c) ==
  LET table   == clients[held[c]]
      to      == msg[c].to
      stamped == [msg EXCEPT ![c] = Stamp(@, PeerOf[c])]
      others  == {table[p] : p \in Peer \ {PeerOf[c]}} \ {Nil}
  IN  /\ pc[c] = "route"
      /\ held' = [held EXCEPT ![c] = Nil]
      /\ \/ /\ to # Blank /\ table[to] = Nil
            /\ SendError(c, msg[c].seq)
         \/ /\ to # Blank /\ table[to] # Nil
            /\ msg' = stamped
            /\ targets' = [targets EXCEPT ![c] = {table[to]}]
            /\ Goto(c, "check")
         \/ /\ to = Blank /\ others # {}
            /\ msg' = stamped
            /\ targets' = [targets EXCEPT ![c] = others]
            /\ Goto(c, "check")
         \/ /\ to = Blank /\ others = {}
            /\ msg' = [msg EXCEPT ![c] = Nil]
            /\ Goto(c, "read")
            /\ UNCHANGED targets
      /\ UNCHANGED <<roomVars, cur, received, writeVars, clientVars>>

(* enqueue for t is over: on to the next target or back to ReadMessage.    *)
FinishTarget(c, t) ==
  LET rest == targets[c] \ {t}
  IN  /\ targets' = [targets EXCEPT ![c] = rest]
      /\ cur' = [cur EXCEPT ![c] = Nil]
      /\ msg' = [msg EXCEPT ![c] = IF rest = {} THEN Nil ELSE @]
      /\ Goto(c, IF rest = {} THEN "read" ELSE "check")

(* Client.enqueue, first select.                                           *)
CheckDone(c) ==
  /\ pc[c] = "check"
  /\ \E t \in targets[c] :
        \/ /\ done[t]
           /\ FinishTarget(c, t)
        \/ /\ ~done[t]
           /\ cur' = [cur EXCEPT ![c] = t]
           /\ Goto(c, "push")
           /\ UNCHANGED <<targets, msg>>
  /\ UNCHANGED <<roomVars, held, received, writeVars, clientVars>>

(* Client.enqueue, second select: a ready case is chosen at random, and    *)
(* the default case drops the message when none is ready.                  *)
Enqueue(c) ==
  LET t == cur[c]
  IN  /\ pc[c] = "push"
      /\ \/ /\ done[t]
            /\ UNCHANGED send
         \/ /\ HasSpace(t)
            /\ send' = [send EXCEPT ![t] = Append(@, msg[c])]
         \/ /\ Default(t)
            /\ UNCHANGED send
      /\ FinishTarget(c, t)
      /\ UNCHANGED <<roomVars, held, received, writeVars, done, sock, watcher>>

(* The deferred calls of readLoop: shutdown, Hub.unregister, conn.Close.   *)
Shutdown(c) ==
  /\ pc[c] = "shutdown"
  /\ done' = [done EXCEPT ![c] = TRUE]
  /\ Goto(c, "unregister")
  /\ UNCHANGED <<roomVars, held, msg, targets, cur, received, writeVars, send,
                 sock, watcher>>

(* Hub.unregister: remove the peer identifier; drop the room when empty.   *)
Unregister(c) ==
  LET r     == RoomOf[c]
      obj   == rooms[r]
      table == [clients[obj] EXCEPT ![PeerOf[c]] = Nil]
  IN  /\ pc[c] = "unregister"
      /\ Goto(c, "close")
      /\ IF obj = Nil
         THEN UNCHANGED roomVars
         ELSE /\ clients' = [clients EXCEPT ![obj] = table]
              /\ rooms' = [rooms EXCEPT ![r] = IF Vacant(table) THEN Nil ELSE obj]
      /\ UNCHANGED <<held, msg, targets, cur, received, writeVars, clientVars>>

(* conn.Close; run returns and cancels the context.                        *)
CloseConn(c) ==
  /\ pc[c] = "close"
  /\ Goto(c, "returned")
  /\ sock' = [sock EXCEPT ![c] = "closed"]
  /\ UNCHANGED <<roomVars, held, msg, targets, cur, received, writeVars, send,
                 done, watcher>>

-----------------------------------------------------------------------------
(* The goroutine of run that waits for the context.  The context of the    *)
(* request ends no earlier: its connection has been hijacked.              *)
ContextDone(c) ==
  /\ watcher[c] = "waiting"
  /\ Cancelled(c)
  /\ watcher' = [watcher EXCEPT ![c] = "exited"]
  /\ sock' = [sock EXCEPT ![c] = "closed"]
  /\ done' = [done EXCEPT ![c] = TRUE]
  /\ UNCHANGED <<roomVars, readVars, writeVars, send>>

-----------------------------------------------------------------------------
(* The write loop.                                                         *)

Stopped(c) == done[c] \/ Cancelled(c)

(* First select: leave when the client is done.                            *)
WriterPoll(c) ==
  /\ wpc[c] = "check"
  /\ wpc' = [wpc EXCEPT ![c] = AfterPoll(Stopped(c))]
  /\ UNCHANGED <<roomVars, readVars, hand, delivered, late, clientVars>>

(* Second select: leave, or take a message, whichever is ready.            *)
WriterSelect(c) ==
  /\ wpc[c] = "wait"
  /\ \/ /\ Stopped(c)
        /\ wpc' = [wpc EXCEPT ![c] = "exited"]
        /\ UNCHANGED <<hand, late, send>>
     \/ /\ send[c] # <<>>
        /\ wpc' = [wpc EXCEPT ![c] = "write"]
        /\ hand' = [hand EXCEPT ![c] = Head(send[c])]
        /\ send' = [send EXCEPT ![c] = Rest(@)]
        /\ late' = [late EXCEPT ![c] = IF done[c] THEN @ + 1 ELSE @]
  /\ UNCHANGED <<roomVars, readVars, delivered, done, sock, watcher>>

(* WriteMessage succeeds; on a broken connection the bytes go nowhere.     *)
WriteMessage(c) ==
  /\ wpc[c] = "write"
  /\ sock[c] \in {"open", "broken"}
  /\ delivered' = [delivered EXCEPT ![c] =
                     IF sock[c] = "open" THEN Append(@, hand[c]) ELSE @]
  /\ hand' = [hand EXCEPT ![c] = Nil]
  /\ wpc' = [wpc EXCEPT ![c] = "check"]
  /\ UNCHANGED <<roomVars, readVars, late, clientVars>>

(* The write misses its deadline or the connection is gone: the loop       *)
(* returns, and leaves the connection and the membership as they are.      *)
WriteFails(c) ==
  /\ wpc[c] = "write"
  /\ wpc' = [wpc EXCEPT ![c] = "exited"]
  /\ hand' = [hand EXCEPT ![c] = Nil]
  /\ UNCHANGED <<roomVars, readVars, delivered, late, clientVars>>

-----------------------------------------------------------------------------
(* The remote peer closes, crashes or loses its network.                   *)
Hangup(c) ==
  /\ c \in Fragile
  /\ sock[c] = "open"
  /\ sock' = [sock EXCEPT ![c] = "broken"]
  /\ UNCHANGED <<roomVars, readVars, writeVars, send, done, watcher>>

Serve(c) == Upgrade(c) \/ Refuse(c) \/ Register(c) \/ Reject(c) \/ Run(c)

Deliver(c) == LookupRoom(c) \/ Route(c) \/ CheckDone(c) \/ Enqueue(c)

Leave(c) == Shutdown(c) \/ Unregister(c) \/ CloseConn(c)

Write(c) ==
  WriterPoll(c) \/ WriterSelect(c) \/ WriteMessage(c) \/ WriteFails(c)

Step(c) ==
  \/ Serve(c)
  \/ ReadFrame(c) \/ ReadMalformed(c) \/ ReadError(c)
  \/ Deliver(c) \/ Leave(c)
  \/ Write(c) \/ ContextDone(c) \/ Hangup(c)

Next == \E c \in Conn : Step(c)

Spec == Init /\ [][Next]_vars

(* Goroutines are scheduled, mutexes are not held across I/O, and a read   *)
(* on a broken connection fails in the end (close frame, RST, or the TCP   *)
(* keepalive of net/http's listener).  Remote peers owe nothing: a frame,  *)
(* a hangup, an oversized frame or a failing write may never come.         *)
Handler(c) ==
  \/ Register(c) \/ Reject(c) \/ Run(c)
  \/ Deliver(c) \/ Leave(c)
  \/ sock[c] = "broken" /\ ReadError(c)

Fairness ==
  \A c \in Conn :
    WF_vars(Handler(c)) /\ WF_vars(Write(c)) /\ WF_vars(ContextDone(c))

FairSpec == Spec /\ Fairness

-----------------------------------------------------------------------------
(* Properties.                                                             *)

TypeOK ==
  /\ rooms \in [Room -> Conn \cup {Nil}]
  /\ clients \in [Conn -> [Peer -> Conn \cup {Nil}]]
  /\ pc \in [Conn -> HandlerStates]
  /\ held \in [Conn -> Conn \cup {Nil}]
  /\ msg \in [Conn -> Payload \cup {Nil}]
  /\ targets \in [Conn -> SUBSET Conn]
  /\ cur \in [Conn -> Conn \cup {Nil}]
  /\ send \in [Conn -> Seq(Payload)]
  /\ \A c \in Conn : Len(send[c]) <= QueueSize
  /\ done \in [Conn -> BOOLEAN]
  /\ sock \in [Conn -> {"none", "open", "broken", "closed"}]
  /\ wpc \in [Conn -> {"off", "check", "wait", "write", "exited"}]
  /\ hand \in [Conn -> Payload \cup {Nil}]
  /\ watcher \in [Conn -> {"off", "waiting", "exited"}]
  /\ received \in [Conn -> Nat]
  /\ delivered \in [Conn -> Seq(Payload)]
  /\ late \in [Conn -> Nat]

(* Membership is exact.  From register to unregister a Client is the one   *)
(* its room lists under its identifier, and a room lists no one else.  So  *)
(* a second connection with the same identifiers is refused, and           *)
(* removeClient, which deletes by identifier and not by Client, never      *)
(* evicts another one (hub.go: register, unregister, removeClient).        *)
MembershipExact ==
  /\ \A c \in Conn : Joined(c) => Listed(c)
  /\ \A r \in Room, p \in Peer :
        LET c == clients[rooms[r]][p]
        IN  rooms[r] # Nil /\ c # Nil =>
              Joined(c) /\ RoomOf[c] = r /\ PeerOf[c] = p

(* The hub keeps no empty room: register creates one only for a Client     *)
(* that then joins it, unregister drops it with the last one.              *)
NoEmptyRoom ==
  \A r \in Room : rooms[r] # Nil => clients[rooms[r]] # NoClients

(* Hub.dispatch uses the room after it released Hub.mu.  All the same the  *)
(* room is found, and it is still the registered one when the message is   *)
(* routed: never one that was dropped and recreated in between.            *)
RoutesInCurrentRoom ==
  /\ \A c \in Conn : pc[c] = "lookup" => rooms[RoomOf[c]] # Nil
  /\ \A c \in Conn : pc[c] = "route" =>
        held[c] # Nil /\ held[c] = rooms[RoomOf[c]]

(* All that is on its way to the remote peer of c, oldest first.           *)
Outbox(c) ==
  delivered[c] \o (IF hand[c] = Nil THEN <<>> ELSE <<hand[c]>>) \o send[c]

(* What may be on its way to the peer of c: a message of a Client of the   *)
(* same room, under that Client's own identifier whatever the frame said,  *)
(* and addressed to c or to everyone but its sender; or an error for a     *)
(* frame of c itself.                                                      *)
Legitimate(c, m) ==
  IF m.type = "error"
  THEN m.src = c
  ELSE /\ RoomOf[m.src] = RoomOf[c]
       /\ m.from = PeerOf[m.src]
       /\ \/ m.to = PeerOf[c]
          \/ m.to = Blank /\ m.src # c

(* Routing respects rooms, addresses and senders, also when peers leave    *)
(* and others take their identifiers between two steps of a dispatch.      *)
OnlyLegitimate ==
  \A c \in Conn : \A i \in DOMAIN Outbox(c) : Legitimate(c, Outbox(c)[i])

(* A receiver gets the messages of one sender in the order in which they   *)
(* were sent, none of them twice, also when a full queue drops some.       *)
FifoPerSender ==
  \A c \in Conn : \A i, j \in DOMAIN Outbox(c) :
     i < j /\ Outbox(c)[i].src = Outbox(c)[j].src =>
       Outbox(c)[i].seq < Outbox(c)[j].seq

(* After shutdown the write loop takes at most one more message: the       *)
(* second select may prefer send to done once, the first select then       *)
(* notices (client.go: writeLoop).                                         *)
AtMostOneLateTake == \A c \in Conn : late[c] <= 1

(* The hub keeps the promise of RoomService: to join is to register, to    *)
(* leave is to unregister, a message is accepted when enqueue appends it   *)
(* to a send queue and delivered when it is written to an open connection. *)
Service == INSTANCE RoomService WITH
  status <- [c \in Conn |-> CASE Joined(c) -> "in"
                              [] pc[c] \in {"close", "returned"} -> "left"
                              [] OTHER -> "out"],
  mail   <- [c \in Conn |-> (IF hand[c] = Nil THEN <<>> ELSE <<hand[c]>>) \o send[c]],
  got    <- delivered

KeepsPromise == Service!Spec

(* A connection whose peer is gone leaves its room, so that its identifier *)
(* can be used again (client.go: readLoop, deferred calls).                *)
BrokenPeerLeaves ==
  \A c \in Conn : sock[c] = "broken" ~> ~Listed(c)

(* No receiver, slow, stuck or gone, blocks the read loop of a sender:     *)
(* every dispatch ends (client.go: enqueue never waits).                   *)
DispatchEnds ==
  \A c \in Conn :
    pc[c] \in {"lookup", "route", "check", "push"} ~> pc[c] = "read"

(* No goroutine outlives its handler for ever.                             *)
GoroutinesEnd ==
  \A c \in Conn :
    pc[c] = "returned" ~> wpc[c] = "exited" /\ watcher[c] = "exited"

(* docs/signaling-api.md:35: a message without "to" is forwarded to all    *)
(* the other participants of the room.  What a participant that stays has  *)
(* in its queue is then written to its connection.                         *)
ForwardedToOthers ==
  \A c \in Conn :
    Joined(c) /\ (\E i \in DOMAIN send[c] : send[c][i].to = Blank
                                           /\ send[c][i].src # c)
      ~> ~Joined(c) \/ send[c] = <<>>
=============================================================================
