---------------------- MODULE SignalingHubPromiseProofs ----------------------
(***************************************************************************)
(* What the hub promises to the peers: messages of one sender in order,    *)
(* none twice (FifoPerSender), and with the theorems on membership and     *)
(* routing the whole of RoomService (KeepsPromise).                        *)
(*                                                                         *)
(* The argument looks at a queue and the write loop that empties it as one *)
(* sequence, the mail of a connection.  A step appends to one mail, takes  *)
(* its head, or leaves all of them alone; the numbers of the frames that   *)
(* are handled bound the numbers in the mails.                             *)
(***************************************************************************)
EXTENDS SignalingHubProofs

USE DEF roomVars, readVars, writeVars, clientVars

(* c has registered at some time.                                          *)
HasJoined(c) == pc[c] \in JoinedStates \cup {"close", "returned"}

(* What is on its way to c: taken by the write loop, or in the queue.      *)
Mail(c) == (IF hand[c] = Nil THEN <<>> ELSE <<hand[c]>>) \o send[c]

(* All that was ever accepted for c and not lost.                          *)
Accepted(c) == delivered[c] \o Mail(c)

(* The write loop has a message in its hand only while it writes it, and   *)
(* it does nothing before run starts it.                                   *)
HandOK ==
  \A c \in Conn :
    /\ wpc[c] # "write" => hand[c] = Nil
    /\ pc[c] = "registered" \/ ~HasJoined(c) => wpc[c] = "off"

-----------------------------------------------------------------------------
(* Sequences of payloads: numbers of one sender increase; those of c are   *)
(* below n.                                                                *)
Increasing(s) ==
  \A i, j \in DOMAIN s : i < j /\ s[i].src = s[j].src => s[i].seq < s[j].seq

Below(s, c, n) == \A i \in DOMAIN s : s[i].src = c => s[i].seq < n

(* A later frame of its sender keeps the numbers increasing.               *)
LEMMA AppendIncreasing ==
  ASSUME NEW s \in Seq(Payload), NEW m \in Payload, Increasing(s),
         Below(s, m.src, m.seq)
  PROVE  Increasing(Append(s, m))
<1> DEFINE new == Append(s, m)
<1>1. /\ DOMAIN new = 1 .. (Len(s) + 1) /\ DOMAIN s = 1 .. Len(s) /\ Len(s) \in Nat
      /\ \A i \in 1 .. Len(s) : new[i] = s[i]
      /\ new[Len(s) + 1] = m
  OBVIOUS
<1> SUFFICES ASSUME NEW i \in DOMAIN new, NEW j \in DOMAIN new,
                    i < j, new[i].src = new[j].src
             PROVE  new[i].seq < new[j].seq
  BY DEF Increasing
<1> HIDE DEF new
<1>2. CASE j = Len(s) + 1
  BY <1>1, <1>2 DEF Below
<1>3. CASE j # Len(s) + 1
  BY <1>1, <1>3 DEF Increasing
<1> QED
  BY <1>2, <1>3

(* A bound on what is there and on what comes bounds the result.           *)
LEMMA AppendBelow ==
  ASSUME NEW s \in Seq(Payload), NEW m \in Payload, NEW c, NEW n,
         Below(s, c, n), m.src = c => m.seq < n
  PROVE  Below(Append(s, m), c, n)
<1>1. /\ DOMAIN Append(s, m) = 1 .. (Len(s) + 1) /\ DOMAIN s = 1 .. Len(s)
      /\ Len(s) \in Nat
      /\ \A i \in 1 .. Len(s) : Append(s, m)[i] = s[i]
      /\ Append(s, m)[Len(s) + 1] = m
  OBVIOUS
<1> QED
  BY <1>1 DEF Below

(* To move the head of the second part to the end of the first keeps all.  *)
LEMMA MoveHead ==
  ASSUME NEW s \in Seq(Payload), NEW t \in Seq(Payload), t # <<>>
  PROVE  Append(s, Head(t)) \o Tail(t) = s \o t
OBVIOUS

(* To append to the second part is to append to all.                       *)
LEMMA AppendAll ==
  ASSUME NEW s \in Seq(Payload), NEW t \in Seq(Payload), NEW m \in Payload
  PROVE  s \o Append(t, m) = Append(s \o t, m)
OBVIOUS

(* Three parts are joined in either way.                                   *)
LEMMA JoinThree ==
  ASSUME NEW s \in Seq(Payload), NEW t \in Seq(Payload), NEW u \in Seq(Payload)
  PROVE  (s \o t) \o u = s \o (t \o u)
OBVIOUS

(* To drop the head of the second part keeps order and bounds.             *)
LEMMA DropHead ==
  ASSUME NEW s \in Seq(Payload), NEW t \in Seq(Payload), t # <<>>
  PROVE  /\ Increasing(s \o t) => Increasing(s \o Tail(t))
         /\ \A c, n : Below(s \o t, c, n) => Below(s \o Tail(t), c, n)
<1> DEFINE old == s \o t
           new == s \o Tail(t)
           at(i) == IF i <= Len(s) THEN i ELSE i + 1
<1>1. /\ DOMAIN old = 1 .. (Len(s) + Len(t)) /\ DOMAIN new = 1 .. (Len(s) + Len(t) - 1)
      /\ Len(s) \in Nat /\ Len(t) \in Nat \ {0}
  OBVIOUS
<1>2. \A i \in DOMAIN new : new[i] = old[at(i)]
  OBVIOUS
<1>3. \A i \in DOMAIN new : at(i) \in DOMAIN old
  BY <1>1
<1>4. \A i, j \in DOMAIN new : i < j => at(i) < at(j)
  BY <1>1
<1> HIDE DEF old, new, at
<1>5. Increasing(old) => Increasing(new)
  BY <1>2, <1>3, <1>4 DEF Increasing
<1>6. \A c, n : Below(old, c, n) => Below(new, c, n)
  BY <1>2, <1>3 DEF Below
<1> QED
  BY <1>5, <1>6 DEF old, new

-----------------------------------------------------------------------------
(* What a step of c may do to the mails: nothing; append what c dispatches *)
(* to one of them; deliver the head of its own, or lose it.                *)
SameMail(d) == Mail(d)' = Mail(d) /\ delivered'[d] = delivered[d]

Sends(c, t) ==
  /\ pc[c] = "push" /\ cur[c] = t /\ FinishTarget(c, t)
  /\ Mail(t)' = Append(Mail(t), msg[c]) /\ delivered'[t] = delivered[t]
  /\ \A d \in Conn \ {t} : SameMail(d)

Delivers(c) ==
  /\ Mail(c) # <<>> /\ Mail(c)' = Tail(Mail(c))
  /\ delivered'[c] = Append(delivered[c], Head(Mail(c)))
  /\ \A d \in Conn \ {c} : SameMail(d)
  /\ UNCHANGED pc

Loses(c) ==
  /\ Mail(c) # <<>> /\ Mail(c)' = Tail(Mail(c))
  /\ delivered'[c] = delivered[c]
  /\ \A d \in Conn \ {c} : SameMail(d)
  /\ UNCHANGED pc

(* No step of c but those of its write loop changes what is in hand; and   *)
(* its handler goes from state to state alone, never back to before run.   *)
LEMMA StepElsewhere ==
  ASSUME Typed, NEW c \in Conn, Step(c), ~Write(c)
  PROVE  /\ UNCHANGED <<hand, delivered>>
         /\ \A d \in Conn \ {c} : wpc'[d] = wpc[d] /\ pc'[d] = pc[d]
<1> USE DEF Goto, Typed, TypeOK
<1>1. CASE Serve(c)
  BY <1>1 DEF Serve, Upgrade, Refuse, Register, Reject, Run
<1>2. CASE ReadFrame(c) \/ ReadMalformed(c) \/ ReadError(c)
  BY <1>2 DEF ReadFrame, ReadMalformed, ReadError, NextFrame, SendError
<1>3. CASE LookupRoom(c)
  BY <1>3 DEF LookupRoom, SendError
<1>4. CASE Route(c)
  BY <1>4 DEF Route, SendError
<1>5. CASE CheckDone(c) \/ Enqueue(c)
  BY <1>5 DEF CheckDone, Enqueue, FinishTarget
<1>6. CASE Leave(c)
  BY <1>6 DEF Leave, Shutdown, Unregister, CloseConn
<1>7. CASE ContextDone(c) \/ Hangup(c)
  BY <1>7 DEF ContextDone, Hangup
<1> QED
  BY <1>1, <1>2, <1>3, <1>4, <1>5, <1>6, <1>7 DEF Step, Deliver

LEMMA StepJoined ==
  ASSUME Typed, NEW c \in Conn, Step(c), ~Write(c)
  PROVE  /\ HasJoined(c) => HasJoined(c)'
         /\ \/ Run(c)
            \/ /\ UNCHANGED wpc
               /\ (pc'[c] = "registered" \/ ~HasJoined(c)')
                    => (pc[c] = "registered" \/ ~HasJoined(c))
<1> USE DEF Goto, Typed, TypeOK, HasJoined, JoinedStates
<1>1. CASE Upgrade(c) \/ Refuse(c) \/ Register(c) \/ Reject(c)
  BY <1>1 DEF Upgrade, Refuse, Register, Reject
<1>2. CASE ReadFrame(c) \/ ReadMalformed(c) \/ ReadError(c)
  BY <1>2 DEF ReadFrame, ReadMalformed, ReadError, AfterError, NextFrame, SendError
<1>3. CASE LookupRoom(c)
  BY <1>3 DEF LookupRoom, SendError
<1>4. CASE Route(c)
  BY <1>4 DEF Route, SendError
<1>5. CASE CheckDone(c) \/ Enqueue(c)
  BY <1>5 DEF CheckDone, Enqueue, FinishTarget
<1>6. CASE Leave(c)
  BY <1>6 DEF Leave, Shutdown, Unregister, CloseConn
<1>7. CASE ContextDone(c) \/ Hangup(c)
  BY <1>7 DEF ContextDone, Hangup
<1>8. CASE Run(c)
  BY <1>8 DEF Run
<1> QED
  BY <1>1, <1>2, <1>3, <1>4, <1>5, <1>6, <1>7, <1>8 DEF Step, Serve, Deliver

LEMMA MailType ==
  ASSUME Typed, NEW c \in Conn
  PROVE  Mail(c) \in Seq(Payload) /\ Accepted(c) \in Seq(Payload)
<1> DEFINE inHand == IF hand[c] = Nil THEN <<>> ELSE <<hand[c]>>
<1>1. inHand \in Seq(Payload) /\ send[c] \in Seq(Payload) /\ delivered[c] \in Seq(Payload)
  BY DEF Typed, TypeOK
<1> HIDE DEF inHand
<1>2. inHand \o send[c] \in Seq(Payload)
  BY <1>1
<1>3. Mail(c) = inHand \o send[c]
  BY DEF Mail, inHand
<1> QED
  BY <1>1, <1>2, <1>3 DEF Accepted

(* With nothing in hand the mail is the queue; otherwise the message in    *)
(* hand is its head.                                                       *)
LEMMA MailParts ==
  ASSUME Typed, NEW c \in Conn
  PROVE  /\ hand[c] = Nil => Mail(c) = send[c]
         /\ hand[c] # Nil => /\ hand[c] \in Payload /\ Mail(c) # <<>>
                             /\ Head(Mail(c)) = hand[c] /\ Tail(Mail(c)) = send[c]
<1>1. send[c] \in Seq(Payload) /\ hand[c] \in Payload \cup {Nil}
  BY DEF Typed, TypeOK
<1>2. CASE hand[c] = Nil
  <2>1. Mail(c) = <<>> \o send[c]
    BY <1>2 DEF Mail
  <2> QED
    BY <1>1, <1>2, <2>1
<1>3. CASE hand[c] # Nil
  <2>1. Mail(c) = <<hand[c]>> \o send[c] /\ hand[c] \in Payload
    BY <1>1, <1>3 DEF Mail
  <2> QED
    BY <1>1, <1>3, <2>1
<1> QED
  BY <1>2, <1>3

LEMMA MailPartsNext ==
  ASSUME Typed', NEW c \in Conn, hand'[c] = Nil
  PROVE  Mail(c)' = send'[c]
<1>1. send'[c] \in Seq(Payload)
  BY DEF Typed, TypeOK
<1>2. Mail(c)' = <<>> \o send'[c]
  BY DEF Mail
<1> QED
  BY <1>1, <1>2

LEMMA MailTypeNext ==
  ASSUME Typed', NEW c \in Conn
  PROVE  Mail(c)' \in Seq(Payload) /\ Accepted(c)' \in Seq(Payload)
<1> DEFINE inHand == IF hand'[c] = Nil THEN <<>> ELSE <<hand'[c]>>
<1>1. inHand \in Seq(Payload) /\ send'[c] \in Seq(Payload) /\ delivered'[c] \in Seq(Payload)
  BY DEF Typed, TypeOK
<1> HIDE DEF inHand
<1>2. inHand \o send'[c] \in Seq(Payload)
  BY <1>1
<1>3. Mail(c)' = inHand \o send'[c]
  BY DEF Mail, inHand
<1>4. delivered'[c] \o (inHand \o send'[c]) \in Seq(Payload)
  BY <1>1, <1>2
<1> QED
  BY <1>2, <1>3, <1>4 DEF Accepted

(* The hand stays empty but while the write loop writes.                   *)
LEMMA StepHand ==
  ASSUME Typed, HandOK, NEW c \in Conn, Step(c)
  PROVE  HandOK'
<1> DEFINE off(d) == pc[d] = "registered" \/ ~HasJoined(d)
<1> USE DEF Typed, TypeOK, HandOK
<1>1. CASE Write(c)
  <2>1. UNCHANGED pc /\ wpc[c] # "off"
    BY <1>1 DEF Write, WriterPoll, WriterSelect, WriteMessage, WriteFails
  <2>2. \A d \in Conn \ {c} : wpc'[d] = wpc[d] /\ hand'[d] = hand[d]
    BY <1>1 DEF Write, WriterPoll, WriterSelect, WriteMessage, WriteFails
  <2>3. wpc'[c] # "write" => hand'[c] = Nil
    BY <1>1 DEF Write, WriterPoll, WriterSelect, WriteMessage, WriteFails
  <2> QED
    BY <2>1, <2>2, <2>3 DEF HasJoined
<1>2. CASE ~Write(c)
  <2>1. UNCHANGED hand /\ \A d \in Conn \ {c} : wpc'[d] = wpc[d] /\ pc'[d] = pc[d]
    BY <1>2, StepElsewhere
  <2>2. CASE Run(c)
    <3>1. pc[c] = "registered" /\ pc'[c] = "read" /\ wpc'[c] = "check"
      BY <2>2 DEF Run, Goto
    <3> QED
      BY <2>1, <3>1 DEF HasJoined, JoinedStates
  <2>3. CASE UNCHANGED wpc /\ (off(c)' => off(c))
    BY <2>1, <2>3 DEF HasJoined
  <2> QED
    BY <1>2, <2>2, <2>3, StepJoined
<1> QED
  BY <1>1, <1>2

(* A connection of which hand, queue and delivered stay keeps its mail.    *)
LEMMA MailFrame ==
  ASSUME NEW d \in Conn, hand'[d] = hand[d], send'[d] = send[d],
         delivered'[d] = delivered[d]
  PROVE  SameMail(d)
BY DEF SameMail, Mail

LEMMA StepMail ==
  ASSUME Typed, HandOK, NEW c \in Conn, Step(c)
  PROVE  \/ \A d \in Conn : SameMail(d)
         \/ \E t \in Conn : Sends(c, t)
         \/ Delivers(c)
         \/ Loses(c)
<1> USE PayloadAssumption
<1>0. Typed' /\ HandOK'
  BY StepTyped, StepHand
<1>1. CASE Enqueue(c)
  <2>1. PICK t \in Conn : t = cur[c]
    BY <1>1 DEF Enqueue, Typed, StepOK
  <2>2. /\ pc[c] = "push" /\ msg[c] \in Payload /\ FinishTarget(c, t)
        /\ UNCHANGED <<hand, delivered>>
    BY <1>1, <2>1 DEF Enqueue, Typed, StepOK
  <2>3. CASE UNCHANGED send
    BY <2>2, <2>3, MailFrame
  <2>4. CASE send' = [send EXCEPT ![t] = Append(@, msg[c])]
    <3>1. send'[t] = Append(send[t], msg[c]) /\ \A d \in Conn \ {t} : send'[d] = send[d]
      BY <2>4 DEF Typed, TypeOK
    <3>2. \A d \in Conn \ {t} : SameMail(d)
      BY <2>2, <3>1, MailFrame
    <3>3. Mail(t)' = Append(Mail(t), msg[c])
      <4>1. CASE hand[t] = Nil
        BY <2>2, <3>1, <4>1, MailParts, <1>0, MailPartsNext
      <4>2. CASE hand[t] # Nil
        <5>1. hand[t] \in Payload /\ send[t] \in Seq(Payload)
          BY <4>2 DEF Typed, TypeOK
        <5>2. Mail(t) = <<hand[t]>> \o send[t]
          BY <4>2 DEF Mail
        <5>3. Mail(t)' = <<hand[t]>> \o Append(send[t], msg[c])
          BY <2>2, <3>1, <4>2 DEF Mail
        <5> QED
          BY <2>2, <5>1, <5>2, <5>3, AppendAll
      <4> QED
        BY <4>1, <4>2
    <3> QED
      BY <2>1, <2>2, <3>2, <3>3 DEF Sends
  <2> QED
    BY <1>1, <2>1, <2>3, <2>4 DEF Enqueue
<1>2. CASE WriterSelect(c)
  <2>1. /\ wpc[c] = "wait" /\ hand[c] = Nil
        /\ \A d \in Conn \ {c} : hand'[d] = hand[d] /\ send'[d] = send[d]
        /\ UNCHANGED delivered
    BY <1>2 DEF WriterSelect, Typed, TypeOK, HandOK
  <2>2. \A d \in Conn \ {c} : SameMail(d)
    BY <2>1, MailFrame
  <2>3. CASE UNCHANGED <<hand, send>>
    BY <2>1, <2>3, MailFrame
  <2>4. CASE /\ send[c] # <<>>
             /\ hand' = [hand EXCEPT ![c] = Head(send[c])]
             /\ send' = [send EXCEPT ![c] = Tail(@)]
    <3>1. hand'[c] = Head(send[c]) /\ send'[c] = Tail(send[c])
      BY <2>4 DEF Typed, TypeOK
    <3>2. send[c] \in Seq(Payload) /\ Head(send[c]) \in Payload
      BY <2>4 DEF Typed, TypeOK
    <3>3. Mail(c)' = <<Head(send[c])>> \o Tail(send[c])
      BY <3>1, <3>2 DEF Mail
    <3>4. Mail(c)' = send[c]
      BY <2>4, <3>2, <3>3
    <3>5. SameMail(c)
      BY <2>1, <3>4, MailParts DEF SameMail
    <3> QED
      BY <2>2, <3>5
  <2> QED
    BY <1>2, <2>3, <2>4 DEF WriterSelect, Rest
<1>3. CASE WriteMessage(c) \/ WriteFails(c)
  <2>1. /\ wpc[c] = "write" /\ hand'[c] = Nil /\ UNCHANGED <<pc, send>>
        /\ delivered'[c] \in {delivered[c], Append(delivered[c], hand[c])}
        /\ \A d \in Conn \ {c} : hand'[d] = hand[d] /\ delivered'[d] = delivered[d]
    BY <1>3 DEF WriteMessage, WriteFails, Typed, TypeOK
  <2>2. \A d \in Conn \ {c} : SameMail(d)
    BY <2>1, MailFrame
  <2>3. hand[c] # Nil /\ send'[c] = send[c]
    BY <2>1 DEF Typed, StepOK
  <2>4. /\ Mail(c) # <<>> /\ Head(Mail(c)) = hand[c]
        /\ Tail(Mail(c)) = send[c] /\ Mail(c)' = send[c]
    BY <1>0, <2>1, <2>3, MailParts, MailPartsNext
  <2> QED
    BY <2>1, <2>2, <2>4 DEF Delivers, Loses
<1>4. CASE Step(c) /\ ~Write(c) /\ ~Enqueue(c)
  <2>1. UNCHANGED <<hand, delivered>>
    BY <1>4, StepElsewhere
  <2>2. UNCHANGED send
    BY <1>4 DEF Step, Serve, Upgrade, Refuse, Register, Reject, Run, ReadFrame,
                ReadMalformed, NextFrame, ReadError, Deliver, LookupRoom, Route,
                CheckDone, Leave, Shutdown, Unregister, CloseConn, ContextDone, Hangup
  <2> QED
    BY <2>1, <2>2, MailFrame
<1>5. CASE WriterPoll(c)
  BY <1>5, MailFrame DEF WriterPoll
<1> QED
  BY <1>1, <1>2, <1>3, <1>4, <1>5 DEF Write

-----------------------------------------------------------------------------
(* The inductive invariant behind the order.  The mails hold frames of c   *)
(* up to the number it has read; while one is dispatched, those who are    *)
(* still to get it have only earlier ones.                                 *)
Behind(c, t, n) == Below(Accepted(t), c, n)

InTurn(c) ==
  /\ pc[c] \in {"lookup", "route", "check", "push"} =>
       msg[c].src = c /\ msg[c].seq = received[c]
  /\ \A t \in Conn : Behind(c, t, received[c] + 1)
  /\ pc[c] \in {"lookup", "route"} => \A t \in Conn : Behind(c, t, received[c])
  /\ pc[c] \in {"check", "push"} =>
       \A t \in targets[c] : Behind(c, t, received[c]) /\ HasJoined(t)
  /\ pc[c] = "push" => cur[c] \in targets[c]

InOrder == \A c \in Conn : InTurn(c) /\ Increasing(Accepted(c))

(* What t has got from anybody else or may still get is no more than       *)
(* before.                                                                 *)
Shrinks(t) ==
  /\ Increasing(Accepted(t)) => Increasing(Accepted(t)')
  /\ \A c, n : Below(Accepted(t), c, n) => Below(Accepted(t)', c, n)

LEMMA SendsAccepted ==
  ASSUME Typed, NEW c \in Conn, NEW t \in Conn, Sends(c, t)
  PROVE  Accepted(t)' = Append(Accepted(t), msg[c])
<1>1. Mail(t) \in Seq(Payload) /\ delivered[t] \in Seq(Payload) /\ msg[c] \in Payload
  BY MailType DEF Sends, Typed, TypeOK, StepOK
<1>2. Accepted(t)' = delivered[t] \o Append(Mail(t), msg[c])
  BY DEF Sends, Accepted
<1> QED
  BY <1>1, <1>2, AppendAll DEF Accepted

LEMMA StepShrinks ==
  ASSUME Typed, HandOK, NEW c \in Conn, Step(c)
  PROVE  \/ \A t \in Conn : Shrinks(t)
         \/ \E t \in Conn : /\ Sends(c, t)
                            /\ Accepted(t)' = Append(Accepted(t), msg[c])
                            /\ \A d \in Conn \ {t} : Shrinks(d)
<1>0. \A d \in Conn : Mail(d) \in Seq(Payload) /\ delivered[d] \in Seq(Payload)
  BY MailType DEF Typed, TypeOK
<1>1. ASSUME NEW d \in Conn, SameMail(d) PROVE Shrinks(d)
  <2>1. Accepted(d)' = Accepted(d)
    BY <1>1 DEF SameMail, Accepted
  <2> QED
    BY <2>1 DEF Shrinks
<1>2. ASSUME NEW t \in Conn, Sends(c, t)
      PROVE  /\ Accepted(t)' = Append(Accepted(t), msg[c])
             /\ \A d \in Conn \ {t} : Shrinks(d)
  BY <1>1, <1>2, SendsAccepted DEF Sends
<1>3. ASSUME Delivers(c) PROVE \A d \in Conn : Shrinks(d)
  <2>1. Accepted(c)' = Append(delivered[c], Head(Mail(c))) \o Tail(Mail(c))
    BY <1>3 DEF Delivers, Accepted
  <2>2. Accepted(c)' = Accepted(c)
    BY <1>0, <1>3, <2>1, MoveHead DEF Delivers, Accepted
  <2>3. Shrinks(c)
    BY <2>2 DEF Shrinks
  <2> QED
    BY <1>1, <1>3, <2>3 DEF Delivers
<1>4. ASSUME Loses(c) PROVE \A d \in Conn : Shrinks(d)
  <2>1. Accepted(c)' = delivered[c] \o Tail(Mail(c))
    BY <1>4 DEF Loses, Accepted
  <2>2. Accepted(c) = delivered[c] \o Mail(c) /\ Mail(c) # <<>>
    BY <1>4 DEF Loses, Accepted
  <2>3. Shrinks(c)
    BY <1>0, <2>1, <2>2, DropHead DEF Shrinks
  <2> QED
    BY <1>1, <1>4, <2>3 DEF Loses
<1> QED
  BY <1>1, <1>2, <1>3, <1>4, StepMail

(* The parts of InTurn(d) that concern the mails, for the handler of d     *)
(* where it is.                                                            *)
LEMMA InTurnFrame ==
  ASSUME NEW d \in Conn, InTurn(d), SameHandler(d), received'[d] = received[d],
         \A t \in Conn : HasJoined(t) => HasJoined(t)',
         \A t \in Conn : \A n : Behind(d, t, n) => Below(Accepted(t)', d, n),
         targets[d] \in SUBSET Conn
  PROVE  InTurn(d)'
<1>1. \A t \in Conn : Behind(d, t, received[d]) => Behind(d, t, received[d])'
  BY DEF Behind, SameHandler
<1>2. \A t \in Conn : Behind(d, t, received[d] + 1) => Behind(d, t, received[d] + 1)'
  BY DEF Behind
<1> QED
  BY <1>1, <1>2 DEF InTurn, SameHandler

(* A connection that has joined stays one that has.                        *)
LEMMA StepHasJoined ==
  ASSUME Typed, NEW c \in Conn, Step(c), NEW t \in Conn, HasJoined(t)
  PROVE  HasJoined(t)'
<1>1. CASE Write(c)
  BY <1>1 DEF Write, WriterPoll, WriterSelect, WriteMessage, WriteFails, HasJoined
<1>2. CASE ~Write(c) /\ t = c
  BY <1>2, StepJoined
<1>3. CASE ~Write(c) /\ t # c
  <2>1. pc'[t] = pc[t]
    BY <1>3, StepElsewhere
  <2> QED
    BY <2>1 DEF HasJoined
<1> QED
  BY <1>1, <1>2, <1>3

(* A handler that reads the next frame, or none.                           *)
LEMMA InTurnIdle ==
  ASSUME NEW c \in Conn, pc'[c] \notin {"lookup", "route", "check", "push"},
         \A t \in Conn : Below(Accepted(t)', c, received'[c] + 1)
  PROVE  InTurn(c)'
BY DEF InTurn, Behind

(* A handler that begins to enqueue for some targets.                      *)
LEMMA InTurnCheck ==
  ASSUME NEW c \in Conn, pc'[c] = "check",
         msg'[c].src = c, msg'[c].seq = received'[c],
         \A t \in Conn : Below(Accepted(t)', c, received'[c] + 1),
         \A t \in targets'[c] : Below(Accepted(t)', c, received'[c]) /\ HasJoined(t)'
  PROVE  InTurn(c)'
BY DEF InTurn, Behind

LEMMA BelowMore ==
  ASSUME NEW s \in Seq(Payload), NEW c, NEW n \in Nat, Below(s, c, n)
  PROVE  Below(s, c, n + 1)
<1>1. \A i \in DOMAIN s : s[i] \in Payload
  OBVIOUS
<1>2. \A m \in Payload : m.seq \in Nat
  BY DEF Payload
<1>3. \A i \in DOMAIN s : s[i].seq \in Nat
  BY <1>1, <1>2
<1> QED
  BY <1>3 DEF Below

(* sendError begins to enqueue an error, for the sender alone.             *)
LEMMA SendErrorInTurn ==
  ASSUME Typed, Typed', NEW c \in Conn, NEW n \in Nat, SendError(c, n), HasJoined(c)',
         received'[c] = n, \A t \in Conn : Below(Accepted(t)', c, n)
  PROVE  InTurn(c)'
<1>1. /\ pc'[c] = "check" /\ msg'[c] = ErrorPayload(c, n) /\ targets'[c] = {c}
  BY DEF SendError, Goto, Typed, TypeOK
<1>2. msg'[c].src = c /\ msg'[c].seq = n
  BY <1>1 DEF ErrorPayload
<1>3. \A t \in Conn : Below(Accepted(t)', c, n + 1)
  <2> TAKE t \in Conn
  <2>1. Accepted(t)' \in Seq(Payload)
    BY MailTypeNext
  <2> QED
    BY <2>1, BelowMore
<1> QED
  BY <1>1, <1>2, <1>3, InTurnCheck

(* enqueue is over for t: what remains is for the other targets.           *)
LEMMA FinishTargetInTurn ==
  ASSUME Typed, NEW c \in Conn, NEW t \in Conn, FinishTarget(c, t), InTurn(c),
         pc[c] \in {"check", "push"}, received'[c] = received[c],
         \A d \in Conn : HasJoined(d) => HasJoined(d)',
         \A d \in Conn \ {t} : Shrinks(d),
         Below(Accepted(t)', c, received[c] + 1)
  PROVE  InTurn(c)'
<1>1. targets'[c] = targets[c] \ {t} /\ targets[c] \subseteq Conn
  BY DEF FinishTarget, Typed, TypeOK
<1>2. pc'[c] = "read" \/ (pc'[c] = "check" /\ msg'[c] = msg[c])
  <2>1. FinishTargetOK(c)
    BY FinishTargetType DEF Typed
  <2> QED
    BY <2>1 DEF FinishTargetOK, GoesTo
<1>3. \A d \in Conn : Below(Accepted(d)', c, received[c] + 1)
  BY DEF InTurn, Behind, Shrinks
<1>4. \A d \in targets'[c] : Below(Accepted(d)', c, received[c]) /\ HasJoined(d)'
  BY <1>1 DEF InTurn, Behind, Shrinks
<1>5. CASE pc'[c] = "read"
  BY <1>3, <1>5, InTurnIdle
<1>6. CASE pc'[c] = "check" /\ msg'[c] = msg[c]
  <2>1. msg'[c].src = c /\ msg'[c].seq = received'[c]
    BY <1>6 DEF InTurn
  <2> QED
    BY <1>3, <1>4, <1>6, <2>1, InTurnCheck
<1> QED
  BY <1>2, <1>5, <1>6

(* Frames are counted as they are read, and only then.                     *)
LEMMA StepReceived ==
  ASSUME Typed, NEW c \in Conn, Step(c), pc[c] # "read"
  PROVE  received'[c] = received[c]
BY DEF Step, Serve, Upgrade, Refuse, Register, Reject, Run, ReadFrame, ReadMalformed,
       NextFrame, ReadError, Deliver, LookupRoom, Route, CheckDone, Enqueue, Leave,
       Shutdown, Unregister, CloseConn, Write, WriterPoll, WriterSelect, WriteMessage,
       WriteFails, ContextDone, Hangup

(* Stamping a message replaces the "from" and nothing else.                *)
LEMMA StampFields ==
  ASSUME NEW m \in Payload, NEW p
  PROVE  Stamp(m, p).src = m.src /\ Stamp(m, p).seq = m.seq
BY DEF Stamp, Payload

(* room.dispatch begins to enqueue for members, or has nobody to send to.  *)
LEMMA RouteInTurn ==
  ASSUME Typed, Typed', Membership, NEW c \in Conn, Route(c), ~SendError(c, msg[c].seq),
         msg[c].src = c, msg[c].seq = received[c], received'[c] = received[c],
         \A d \in Conn : HasJoined(d) => HasJoined(d)',
         \A t \in Conn : Below(Accepted(t)', c, received[c]),
         \A t \in Conn : Below(Accepted(t)', c, received[c] + 1)
  PROVE  InTurn(c)'
<1> USE IdentifierAssumption, NilAssumption
<1> DEFINE table  == clients[held[c]]
           to     == msg[c].to
           others == {table[p] : p \in Peer \ {PeerOf[c]}} \ {Nil}
<1>1. /\ pc[c] = "route" /\ msg[c] \in Payload /\ to \in Peer \cup {Blank}
      /\ RoomOf[c] \in Room /\ PeerOf[c] \in Peer
  BY DEF Route, Typed, StepOK, Payload
<1>2. ASSUME NEW p \in Peer, NEW t, t = table[p], t # Nil
      PROVE  t \in Conn /\ HasJoined(t)'
  <2>1. Joined(t) /\ held[c] \in Conn
    BY <1>1, <1>2 DEF Membership, RoutesInCurrentRoom, MembershipExact, Typed, TypeOK
  <2>2. t \in Conn
    BY <1>2, <2>1 DEF Typed, TypeOK
  <2> QED
    BY <2>1, <2>2 DEF Joined, HasJoined
<1>3. CASE /\ msg' = [msg EXCEPT ![c] = Stamp(@, PeerOf[c])]
           /\ Goto(c, "check")
           /\ \/ to # Blank /\ table[to] # Nil /\ targets' = [targets EXCEPT ![c] = {table[to]}]
              \/ targets' = [targets EXCEPT ![c] = others]
  <2>1. pc'[c] = "check" /\ msg'[c] = Stamp(msg[c], PeerOf[c])
    BY <1>3 DEF Goto, Typed, TypeOK
  <2>2. msg'[c].src = c /\ msg'[c].seq = received[c]
    BY <1>1, <2>1, StampFields
  <2>3. ASSUME NEW t \in targets'[c]
        PROVE  \E p \in Peer : t = table[p] /\ t # Nil
    <3>1. CASE to # Blank /\ table[to] # Nil /\ targets' = [targets EXCEPT ![c] = {table[to]}]
      <4>1. targets'[c] = {table[to]} /\ to \in Peer
        BY <1>1, <3>1 DEF Typed, TypeOK
      <4> QED
        BY <2>3, <3>1, <4>1
    <3>2. CASE targets' = [targets EXCEPT ![c] = others]
      <4>1. targets'[c] = others
        BY <3>2 DEF Typed, TypeOK
      <4> QED
        BY <2>3, <4>1
    <3> QED
      BY <1>3, <3>1, <3>2
  <2>4. \A t \in targets'[c] : HasJoined(t)'
    BY <1>2, <2>3
  <2>5. targets'[c] \subseteq Conn
    BY DEF Typed, TypeOK
  <2> QED
    BY <2>1, <2>2, <2>4, <2>5, InTurnCheck
<1>4. CASE Goto(c, "read")
  <2>1. pc'[c] = "read"
    BY <1>4 DEF Goto, Typed, TypeOK
  <2> QED
    BY <2>1, InTurnIdle
<1> QED
  BY <1>3, <1>4, Zenon DEF Route

(* Every step keeps its own handler in turn ...                            *)
LEMMA StepOwnTurn ==
  ASSUME Typed, Membership, HandOK, NEW c \in Conn, InTurn(c), Step(c)
  PROVE  InTurn(c)'
<1>0. /\ Typed' /\ (\A d \in Conn : HasJoined(d) => HasJoined(d)')
      /\ \A d \in Conn : Accepted(d) \in Seq(Payload) /\ Accepted(d)' \in Seq(Payload)
      /\ received[c] \in Nat
  BY StepTyped, StepHasJoined, MailType, MailTypeNext DEF Typed, TypeOK
<1>1. CASE \E t \in Conn : /\ Sends(c, t)
                           /\ Accepted(t)' = Append(Accepted(t), msg[c])
                           /\ \A d \in Conn \ {t} : Shrinks(d)
  <2>1. PICK t \in Conn : /\ Sends(c, t)
                          /\ Accepted(t)' = Append(Accepted(t), msg[c])
                          /\ \A d \in Conn \ {t} : Shrinks(d)
    BY <1>1
  <2>2. pc[c] = "push" /\ FinishTarget(c, t) /\ msg[c] \in Payload
    BY <2>1 DEF Sends, Typed, StepOK
  <2>3. received'[c] = received[c]
    <3>1. Goto(c, "read") \/ Goto(c, "check")
      BY <2>2 DEF FinishTarget
    <3> QED
      BY <2>2, StepReceived
  <2>4. Below(Accepted(t)', c, received[c] + 1)
    <3>1. Below(Accepted(t), c, received[c] + 1) /\ msg[c].seq < received[c] + 1
      BY <1>0, <2>2 DEF InTurn, Behind
    <3> QED
      BY <1>0, <2>1, <2>2, <3>1, AppendBelow
  <2> QED
    BY <1>0, <2>1, <2>2, <2>3, <2>4, FinishTargetInTurn
<1>2. CASE \A t \in Conn : Shrinks(t)
  <2>0. \A t \in Conn : \A n : Below(Accepted(t), c, n) => Below(Accepted(t)', c, n)
    BY <1>2 DEF Shrinks
  <2>1. \A t \in Conn : Below(Accepted(t)', c, received[c] + 1)
    BY <2>0 DEF InTurn, Behind
  <2>2. CASE Serve(c) \/ ReadError(c) \/ Leave(c)
    <3>1. pc'[c] \notin {"lookup", "route", "check", "push"} /\ received'[c] = received[c]
      BY <2>2 DEF Serve, Upgrade, Refuse, Register, Reject, Run, ReadError, AfterError,
                  Leave, Shutdown, Unregister, CloseConn, Goto, Typed, TypeOK
    <3> QED
      BY <2>1, <3>1, InTurnIdle
  <2>3. CASE ReadFrame(c)
    <3>1. PICK to \in SentTo, from \in SentFrom :
            msg' = [msg EXCEPT ![c] = Message(c, to, from, received[c] + 1)]
      BY <2>3 DEF ReadFrame
    <3>2. /\ pc'[c] = "lookup" /\ received'[c] = received[c] + 1
          /\ msg'[c].src = c /\ msg'[c].seq = received[c] + 1
      BY <2>3, <3>1 DEF ReadFrame, NextFrame, Goto, Message, Typed, TypeOK
    <3>3. \A t \in Conn : Below(Accepted(t)', c, received'[c] + 1)
      BY <1>0, <2>1, <3>2, BelowMore
    <3> QED
      BY <2>1, <3>2, <3>3 DEF InTurn, Behind
  <2>4. CASE ReadMalformed(c)
    <3>1. /\ SendError(c, received[c] + 1) /\ received'[c] = received[c] + 1
          /\ received[c] + 1 \in Nat /\ pc[c] = "read"
      BY <2>4 DEF ReadMalformed, NextFrame, Typed, TypeOK
    <3>2. HasJoined(c)'
      BY <1>0, <3>1 DEF HasJoined, JoinedStates
    <3> QED
      BY <1>0, <2>1, <3>1, <3>2, SendErrorInTurn
  <2>5. CASE LookupRoom(c) \/ Route(c)
    <3>1. /\ pc[c] \in {"lookup", "route"} /\ HasJoined(c) /\ received'[c] = received[c]
          /\ msg[c].src = c /\ msg[c].seq = received[c]
      BY <2>5 DEF LookupRoom, Route, HasJoined, JoinedStates, InTurn
    <3>2. \A t \in Conn : Below(Accepted(t)', c, received[c])
      BY <2>0, <3>1 DEF InTurn, Behind
    <3>3. CASE SendError(c, msg[c].seq)
      BY <1>0, <3>1, <3>2, <3>3, SendErrorInTurn
    <3>4. CASE LookupRoom(c) /\ rooms[RoomOf[c]] # Nil
      <4>1. Goto(c, "route") /\ UNCHANGED msg
        BY <3>4 DEF LookupRoom
      <4>2. pc'[c] = "route" /\ msg'[c] = msg[c]
        BY <4>1 DEF Goto, Typed, TypeOK
      <4> QED
        BY <2>1, <3>1, <3>2, <4>2 DEF InTurn, Behind
    <3>5. CASE Route(c) /\ ~SendError(c, msg[c].seq)
      BY <1>0, <2>1, <3>1, <3>2, <3>5, RouteInTurn
    <3> QED
      BY <2>5, <3>3, <3>4, <3>5 DEF LookupRoom
  <2>6. CASE CheckDone(c)
    <3>1. pc[c] = "check" /\ received'[c] = received[c]
      BY <2>6 DEF CheckDone
    <3>2. PICK t \in targets[c] :
            \/ FinishTarget(c, t)
            \/ cur' = [cur EXCEPT ![c] = t] /\ Goto(c, "push") /\ UNCHANGED <<targets, msg>>
      BY <2>6 DEF CheckDone
    <3>3. t \in Conn
      BY DEF Typed, TypeOK
    <3>4. CASE FinishTarget(c, t)
      BY <1>0, <1>2, <2>1, <3>1, <3>3, <3>4, FinishTargetInTurn
    <3>5. CASE cur' = [cur EXCEPT ![c] = t] /\ Goto(c, "push") /\ UNCHANGED <<targets, msg>>
      <4>1. /\ pc'[c] = "push" /\ cur'[c] = t
            /\ targets'[c] = targets[c] /\ msg'[c] = msg[c] /\ targets[c] \subseteq Conn
        BY <3>5 DEF Goto, Typed, TypeOK
      <4>2. \A d \in targets[c] : Below(Accepted(d)', c, received[c]) /\ HasJoined(d)'
        BY <1>0, <2>0, <3>1, <4>1 DEF InTurn, Behind
      <4> QED
        BY <2>1, <3>1, <3>2, <4>1, <4>2 DEF InTurn, Behind
    <3> QED
      BY <3>2, <3>4, <3>5
  <2>7. CASE Enqueue(c)
    <3>1. pc[c] = "push" /\ cur[c] \in Conn /\ FinishTarget(c, cur[c])
          /\ received'[c] = received[c]
      BY <2>7 DEF Enqueue, Typed, StepOK
    <3> QED
      BY <1>0, <1>2, <2>1, <3>1, FinishTargetInTurn
  <2>8. CASE Write(c) \/ ContextDone(c) \/ Hangup(c)
    <3>1. SameHandler(c) /\ received'[c] = received[c] /\ targets[c] \in SUBSET Conn
      BY <2>8 DEF Write, WriterPoll, WriterSelect, WriteMessage, WriteFails,
                  ContextDone, Hangup, SameHandler, Typed, TypeOK
    <3>2. \A t \in Conn : \A n : Behind(c, t, n) => Below(Accepted(t)', c, n)
      BY <2>0 DEF Behind
    <3> QED
      BY <1>0, <3>1, <3>2, InTurnFrame
  <2> QED
    BY <2>2, <2>3, <2>4, <2>5, <2>6, <2>7, <2>8 DEF Step, Deliver
<1> QED
  BY <1>1, <1>2, StepShrinks

(* ... and those of the others, which it does not concern.                 *)
LEMMA StepInTurn ==
  ASSUME Typed, Membership, HandOK, InOrder, NEW c \in Conn, Step(c)
  PROVE  \A d \in Conn : InTurn(d)'
<1> SUFFICES ASSUME NEW d \in Conn \ {c} PROVE InTurn(d)'
  BY StepOwnTurn DEF InOrder
<1>1. /\ SameHandler(d) /\ received'[d] = received[d]
      /\ \A t \in Conn : HasJoined(t) => HasJoined(t)'
      /\ targets[d] \in SUBSET Conn
  BY StepSameHandler, StepHasJoined DEF Typed, TypeOK
<1>2. \A t \in Conn : \A n : Behind(d, t, n) => Below(Accepted(t)', d, n)
  <2>1. ASSUME NEW t \in Conn, Shrinks(t)
        PROVE  \A n : Behind(d, t, n) => Below(Accepted(t)', d, n)
    BY <2>1 DEF Shrinks, Behind
  <2>2. ASSUME NEW t \in Conn, Sends(c, t), Accepted(t)' = Append(Accepted(t), msg[c])
        PROVE  \A n : Behind(d, t, n) => Below(Accepted(t)', d, n)
    <3>1. msg[c] \in Payload /\ msg[c].src = c /\ Accepted(t) \in Seq(Payload)
      BY <2>2, MailType DEF Sends, Typed, StepOK, InOrder, InTurn
    <3> QED
      BY <2>2, <3>1, AppendBelow DEF Behind
  <2> QED
    BY <2>1, <2>2, StepShrinks
<1> QED
  BY <1>1, <1>2, InTurnFrame DEF InOrder

(* A step that appends to a mail appends a later frame than those it has   *)
(* of the same sender.                                                     *)
LEMMA StepIncreasing ==
  ASSUME Typed, HandOK, InOrder, NEW c \in Conn, Step(c)
  PROVE  \A t \in Conn : Increasing(Accepted(t)')
<1>1. ASSUME NEW t \in Conn, Shrinks(t) PROVE Increasing(Accepted(t)')
  BY <1>1 DEF Shrinks, InOrder
<1>2. ASSUME NEW t \in Conn, Sends(c, t), Accepted(t)' = Append(Accepted(t), msg[c])
      PROVE  Increasing(Accepted(t)')
  <2>1. msg[c] \in Payload /\ Accepted(t) \in Seq(Payload)
    BY <1>2, MailType DEF Sends, Typed, StepOK
  <2>2. Below(Accepted(t), msg[c].src, msg[c].seq)
    BY <1>2 DEF Sends, InOrder, InTurn, Behind
  <2> QED
    BY <1>2, <2>1, <2>2, AppendIncreasing DEF InOrder
<1> QED
  BY <1>1, <1>2, StepShrinks

(* The invariant of this module.                                           *)
Promised == HandOK /\ InOrder

LEMMA InitPromised == Init => Promised
<1> SUFFICES ASSUME Init PROVE HandOK /\ InOrder
  BY DEF Promised
<1>1. HandOK
  BY DEF Init, HandOK
<1>2. ASSUME NEW c \in Conn PROVE Accepted(c) = <<>>
  <2>1. hand[c] = Nil /\ send[c] = <<>> /\ delivered[c] = <<>>
    BY DEF Init
  <2>2. Mail(c) = <<>> \o <<>>
    BY <2>1 DEF Mail
  <2> QED
    BY <2>1, <2>2 DEF Accepted
<1>3. ASSUME NEW c \in Conn PROVE InTurn(c) /\ Increasing(Accepted(c))
  <2>1. pc[c] = "dial"
    BY DEF Init
  <2> QED
    BY <1>2, <2>1 DEF InTurn, Behind, Below, Increasing
<1> QED
  BY <1>1, <1>3 DEF InOrder

LEMMA StepPromised ==
  ASSUME Typed, Membership, Promised, [Next]_vars
  PROVE  Promised'
<1>1. CASE Next
  <2>1. PICK c \in Conn : Step(c)
    BY <1>1 DEF Next
  <2>2. HandOK'
    BY <2>1, StepHand DEF Promised
  <2>3. \A d \in Conn : InTurn(d)'
    BY <2>1, StepInTurn DEF Promised
  <2>4. \A d \in Conn : Increasing(Accepted(d)')
    BY <2>1, StepIncreasing DEF Promised
  <2>5. InOrder'
    BY <2>3, <2>4 DEF InOrder, Increasing
  <2> QED
    BY <2>2, <2>5 DEF Promised
<1>2. CASE UNCHANGED vars
  <2>1. HandOK'
    BY <1>2 DEF vars, Promised, HandOK, HasJoined
  <2>2. \A d \in Conn : Accepted(d)' = Accepted(d)
    BY <1>2 DEF vars, Accepted, Mail
  <2>3. ASSUME NEW d \in Conn PROVE InTurn(d)'
    <3>1. \A t \in Conn : \A n : Behind(d, t, n) => Below(Accepted(t)', d, n)
      BY <2>2 DEF Behind
    <3>2. SameHandler(d) /\ received'[d] = received[d] /\ targets[d] \in SUBSET Conn
          /\ \A t \in Conn : HasJoined(t) => HasJoined(t)'
      BY <1>2 DEF vars, SameHandler, HasJoined, Typed, TypeOK
    <3> QED
      BY <3>1, <3>2, InTurnFrame DEF Promised, InOrder
  <2>4. \A d \in Conn : Increasing(Accepted(d)')
    BY <2>2 DEF Promised, InOrder
  <2>5. InOrder'
    BY <2>3, <2>4 DEF InOrder, Increasing
  <2> QED
    BY <2>1, <2>5 DEF Promised
<1> QED
  BY <1>1, <1>2

LEMMA AlwaysPromised == Spec => []Promised
<1> QED
  BY InitPromised, StepPromised, Inductive, PTL DEF Spec

(* What Outbox lists is what was accepted and not lost.                    *)
LEMMA OutboxAccepted ==
  ASSUME Typed, NEW c \in Conn
  PROVE  Outbox(c) = Accepted(c)
<1> DEFINE inHand == IF hand[c] = Nil THEN <<>> ELSE <<hand[c]>>
<1>1. inHand \in Seq(Payload) /\ send[c] \in Seq(Payload) /\ delivered[c] \in Seq(Payload)
  BY DEF Typed, TypeOK
<1>2. Outbox(c) = (delivered[c] \o inHand) \o send[c]
  BY DEF Outbox
<1>3. Accepted(c) = delivered[c] \o (inHand \o send[c])
  BY DEF Accepted, Mail
<1> HIDE DEF inHand
<1> QED
  BY <1>1, <1>2, <1>3, JoinThree

(* A receiver gets the messages of one sender in the order in which they   *)
(* were sent and none of them twice, whatever the queues drop and however  *)
(* the goroutines interleave (client.go: enqueue, writeLoop).              *)
THEOREM MessagesInOrder == Spec => []FifoPerSender
<1>1. Typed /\ Promised => FifoPerSender
  BY OutboxAccepted DEF Promised, InOrder, Increasing, FifoPerSender
<1> QED
  BY <1>1, AlwaysPromised, Inductive, PTL

-----------------------------------------------------------------------------
(* The promise of RoomService.  The variables of the abstract module, as   *)
(* the instance Service maps them.                                         *)
Status(c) ==
  CASE Joined(c) -> "in"
    [] pc[c] \in {"close", "returned"} -> "left"
    [] OTHER -> "out"

LEMMA StatusCases ==
  ASSUME NEW c \in Conn
  PROVE  /\ Status(c) = "in" <=> Joined(c)
         /\ Status(c) = "left" <=> pc[c] \in {"close", "returned"}
         /\ Status(c) \in {"in", "left", "out"}
         /\ HasJoined(c) => Status(c) # "out"
         /\ ~HasJoined(c) => Status(c) = "out"
BY DEF Status, Joined, JoinedStates, HasJoined

LEMMA StatusFrame ==
  ASSUME NEW d \in Conn, pc'[d] = pc[d]
  PROVE  Status(d)' = Status(d)
BY DEF Status, Joined

SameStatus == \A d \in Conn : Status(d)' = Status(d)

(* To join is to register, to leave is to unregister.                      *)
Joins(c) ==
  /\ Status(c) = "out" /\ Status(c)' = "in"
  /\ \A d \in Conn : Joined(d) => <<RoomOf[d], PeerOf[d]>> # <<RoomOf[c], PeerOf[c]>>
  /\ \A d \in Conn \ {c} : Status(d)' = Status(d)

Leaves(c) ==
  /\ Status(c) = "in" /\ Status(c)' = "left"
  /\ \A d \in Conn \ {c} : Status(d)' = Status(d)

LEMMA StepStatus ==
  ASSUME Typed, Membership, NEW c \in Conn, Step(c)
  PROVE  SameStatus \/ Joins(c) \/ Leaves(c)
<1>1. \A d \in Conn \ {c} : Status(d)' = Status(d)
  BY StepSameHandler, StatusFrame DEF SameHandler
<1>2. CASE Register(c)
  <2> DEFINE r   == RoomOf[c]
             obj == IF rooms[r] = Nil THEN c ELSE rooms[r]
  <2>1. CASE Exists(clients[obj], PeerOf[c])
    <3>1. pc[c] = "upgraded" /\ pc'[c] = "reject"
      BY <1>2, <2>1 DEF Register, RoomFor, Goto, Typed, TypeOK
    <3> QED
      BY <1>1, <3>1 DEF SameStatus, Status, Joined, JoinedStates
  <2>2. CASE ~Exists(clients[obj], PeerOf[c])
    <3>1. pc[c] = "upgraded" /\ pc'[c] = "registered"
      BY <1>2, <2>2 DEF Register, RoomFor, Goto, Typed, TypeOK
    <3>2. Status(c) = "out" /\ Status(c)' = "in"
      BY <3>1 DEF Status, Joined, JoinedStates
    <3>3. ASSUME NEW d \in Conn, Joined(d), RoomOf[d] = r, PeerOf[d] = PeerOf[c]
          PROVE  FALSE
      <4>1. rooms[r] # Nil /\ clients[rooms[r]][PeerOf[c]] = d
        BY <3>3 DEF Membership, MembershipExact, Listed
      <4> QED
        BY <2>2, <4>1, NilAssumption DEF Exists
    <3> QED
      BY <1>1, <3>2, <3>3 DEF Joins
  <2> QED
    BY <2>1, <2>2
<1>3. CASE Unregister(c)
  <2>1. pc[c] = "unregister" /\ pc'[c] = "close"
    BY <1>3 DEF Unregister, Goto, Typed, TypeOK
  <2>2. Status(c) = "in" /\ Status(c)' = "left"
    BY <2>1 DEF Status, Joined, JoinedStates
  <2> QED
    BY <1>1, <2>2 DEF Leaves
<1>4. CASE ~Register(c) /\ ~Unregister(c)
  <2>1. \/ pc'[c] = pc[c]
        \/ pc[c] \in {"dial", "upgraded", "reject"} /\ pc'[c] \in {"upgraded", "reject", "refused"}
        \/ pc[c] \in JoinedStates /\ pc'[c] \in JoinedStates
        \/ pc[c] = "close" /\ pc'[c] = "returned"
    <3> USE DEF Goto, Typed, TypeOK, JoinedStates
    <3>1. CASE Upgrade(c) \/ Refuse(c) \/ Reject(c) \/ Run(c)
      BY <3>1 DEF Upgrade, Refuse, Reject, Run
    <3>2. CASE ReadFrame(c) \/ ReadMalformed(c) \/ ReadError(c)
      BY <3>2 DEF ReadFrame, ReadMalformed, ReadError, AfterError, NextFrame, SendError
    <3>3. CASE LookupRoom(c)
      BY <3>3 DEF LookupRoom, SendError
    <3>4. CASE Route(c)
      BY <3>4 DEF Route, SendError
    <3>5. CASE CheckDone(c) \/ Enqueue(c)
      BY <3>5 DEF CheckDone, Enqueue, FinishTarget
    <3>6. CASE Shutdown(c) \/ CloseConn(c)
      BY <3>6 DEF Shutdown, CloseConn
    <3>7. CASE Write(c) \/ ContextDone(c) \/ Hangup(c)
      BY <3>7 DEF Write, WriterPoll, WriterSelect, WriteMessage, WriteFails,
                  ContextDone, Hangup
    <3> QED
      BY <1>4, <3>1, <3>2, <3>3, <3>4, <3>5, <3>6, <3>7 DEF Step, Serve, Deliver, Leave
  <2>2. Status(c)' = Status(c)
    BY <2>1 DEF Status, Joined, JoinedStates
  <2> QED
    BY <1>1, <2>2 DEF SameStatus
<1> QED
  BY <1>2, <1>3, <1>4

(* The mapped variables are these functions.                               *)
Statuses == [c \in Conn |-> Status(c)]
Mails    ==
  [c \in Conn |-> (IF hand[c] = Nil THEN <<>> ELSE <<hand[c]>>) \o send[c]]

LEMMA MailsAre == \A c \in Conn : Mails[c] = Mail(c) /\ Mails'[c] = Mail(c)'
BY DEF Mails, Mail

LEMMA ServiceActions ==
  ASSUME NEW c \in Conn
  PROVE  /\ UNCHANGED Service!vars <=> UNCHANGED <<Statuses, Mails, delivered>>
         /\ Service!Join(c) <=>
              /\ Statuses[c] = "out"
              /\ \A d \in Conn : Statuses[d] = "in" =>
                   <<RoomOf[d], PeerOf[d]>> # <<RoomOf[c], PeerOf[c]>>
              /\ Statuses' = [Statuses EXCEPT ![c] = "in"]
              /\ UNCHANGED <<Mails, delivered>>
         /\ Service!Leave(c) <=>
              /\ Statuses[c] = "in"
              /\ Statuses' = [Statuses EXCEPT ![c] = "left"]
              /\ UNCHANGED <<Mails, delivered>>
         /\ Service!Deliver(c) <=>
              /\ Mails[c] # <<>>
              /\ Mails' = [Mails EXCEPT ![c] = Tail(@)]
              /\ delivered' = [delivered EXCEPT ![c] = Append(@, Head(Mails[c]))]
              /\ UNCHANGED Statuses
         /\ Service!Lose(c) <=>
              /\ Mails[c] # <<>>
              /\ Mails' = [Mails EXCEPT ![c] = Tail(@)]
              /\ UNCHANGED <<Statuses, delivered>>
<1> USE DEF Statuses, Mails, Status, Mail
<1>1. UNCHANGED Service!vars <=> UNCHANGED <<Statuses, Mails, delivered>>
  BY DEF Service!vars
<1>2. Service!Join(c) <=>
        /\ Statuses[c] = "out"
        /\ \A d \in Conn : Statuses[d] = "in" =>
             <<RoomOf[d], PeerOf[d]>> # <<RoomOf[c], PeerOf[c]>>
        /\ Statuses' = [Statuses EXCEPT ![c] = "in"]
        /\ UNCHANGED <<Mails, delivered>>
  BY DEF Service!Join
<1>3. Service!Leave(c) <=>
        /\ Statuses[c] = "in"
        /\ Statuses' = [Statuses EXCEPT ![c] = "left"]
        /\ UNCHANGED <<Mails, delivered>>
  BY DEF Service!Leave
<1>4. Service!Deliver(c) <=>
        /\ Mails[c] # <<>>
        /\ Mails' = [Mails EXCEPT ![c] = Tail(@)]
        /\ delivered' = [delivered EXCEPT ![c] = Append(@, Head(Mails[c]))]
        /\ UNCHANGED Statuses
  BY DEF Service!Deliver
<1>5. Service!Lose(c) <=>
        /\ Mails[c] # <<>>
        /\ Mails' = [Mails EXCEPT ![c] = Tail(@)]
        /\ UNCHANGED <<Statuses, delivered>>
  BY DEF Service!Lose
<1> QED
  BY <1>1, <1>2, <1>3, <1>4, <1>5

LEMMA ServiceAccepts ==
  ASSUME NEW c \in Conn, NEW t \in Conn, NEW m,
         Statuses[c] = "in", Statuses[t] # "out",
         m.src = c, Service!Addressed(c, t, m),
         Below(delivered[t] \o Mails[t], c, m.seq),
         Mails' = [Mails EXCEPT ![t] = Append(@, m)],
         UNCHANGED <<Statuses, delivered>>
  PROVE  Service!Accept(c, t, m)
<1> USE DEF Statuses, Mails, Status, Mail
<1> QED
  BY DEF Service!Accept, Below

LEMMA ServiceNext ==
  ASSUME NEW c \in Conn, NEW t \in Conn,
         NEW i \in DOMAIN Mails'[t], NEW m, m = Mails'[t][i], Service!Accept(c, t, m)
  PROVE  Service!Next
BY DEF Service!Next, Service!Accept, Mails

(* The steps of the hub, seen through the mapping.                         *)
LEMMA SameDelivered ==
  ASSUME Typed, Typed', \A d \in Conn : delivered'[d] = delivered[d]
  PROVE  UNCHANGED delivered
BY DEF Typed, TypeOK

LEMMA QuietService ==
  ASSUME Typed, Typed', NEW c \in Conn, \A d \in Conn : SameMail(d),
         SameStatus \/ Joins(c) \/ Leaves(c)
  PROVE  Service!Join(c) \/ Service!Leave(c) \/ UNCHANGED Service!vars
<1>1. UNCHANGED delivered
  BY SameDelivered DEF SameMail
<1>2. UNCHANGED Mails
  BY MailsAre DEF SameMail, Mails
<1>3. CASE SameStatus
  <2>1. UNCHANGED Statuses
    BY <1>3 DEF SameStatus, Statuses
  <2> QED
    BY <1>1, <1>2, <2>1, ServiceActions
<1>4. CASE Joins(c)
  <2>1. Statuses' = [Statuses EXCEPT ![c] = "in"] /\ Statuses[c] = "out"
    BY <1>4 DEF Joins, Statuses
  <2>2. \A d \in Conn : Statuses[d] = "in" => <<RoomOf[d], PeerOf[d]>> # <<RoomOf[c], PeerOf[c]>>
    BY <1>4, StatusCases DEF Joins, Statuses
  <2>3. Service!Join(c)
    BY <1>1, <1>2, <2>1, <2>2, ServiceActions
  <2> QED
    BY <2>3
<1>5. CASE Leaves(c)
  <2>1. Statuses' = [Statuses EXCEPT ![c] = "left"] /\ Statuses[c] = "in"
    BY <1>5 DEF Leaves, Statuses
  <2>2. Service!Leave(c)
    BY <1>1, <1>2, <2>1, ServiceActions
  <2> QED
    BY <2>2
<1> QED
  BY <1>3, <1>4, <1>5

LEMMA WriteService ==
  ASSUME Typed, Typed', NEW c \in Conn, Delivers(c) \/ Loses(c)
  PROVE  Service!Deliver(c) \/ Service!Lose(c)
<1>1. UNCHANGED Statuses
  BY StatusFrame DEF Statuses, Delivers, Loses
<1>2. Mails[c] # <<>> /\ Mails' = [Mails EXCEPT ![c] = Tail(@)]
  <2>1. Mail(c) # <<>> /\ Mail(c)' = Tail(Mail(c))
        /\ \A d \in Conn \ {c} : Mail(d)' = Mail(d)
    BY DEF Delivers, Loses, SameMail
  <2>2. Mails[c] # <<>> /\ Mails'[c] = Tail(Mails[c])
        /\ \A d \in Conn \ {c} : Mails'[d] = Mails[d]
    BY <2>1, MailsAre
  <2> QED
    BY <2>2 DEF Mails
<1>3. CASE Delivers(c)
  <2>1. delivered' = [delivered EXCEPT ![c] = Append(@, Head(Mails[c]))]
    BY <1>3, MailsAre DEF Delivers, SameMail, Typed, TypeOK
  <2>2. Service!Deliver(c)
    BY <1>1, <1>2, <2>1, ServiceActions
  <2> QED
    BY <2>2
<1>4. CASE Loses(c)
  <2>1. UNCHANGED delivered
    BY <1>4, SameDelivered DEF Loses, SameMail
  <2>2. Service!Lose(c)
    BY <1>1, <1>2, <2>1, ServiceActions
  <2> QED
    BY <2>2
<1> QED
  BY <1>3, <1>4

LEMMA SendService ==
  ASSUME Typed, Typed', Routed, InOrder, NEW c \in Conn, NEW t \in Conn, Sends(c, t),
         Accepted(t)' = Append(Accepted(t), msg[c])
  PROVE  Service!Next
<1> PICK m : m = msg[c]
  OBVIOUS
<1>1. /\ m \in Payload /\ pc[c] = "push" /\ cur[c] = t /\ FinishTarget(c, t)
      /\ t \in targets[c] /\ m.src = c /\ m.seq = received[c]
      /\ Legitimate(t, m)
  BY DEF Sends, Typed, StepOK, InOrder, InTurn, Routed, Handled
<1>2. UNCHANGED Statuses
  <2>1. GoesTo(c, {"read", "check"})
    BY <1>1, FinishTargetType DEF FinishTargetOK, Typed
  <2>2. \A d \in Conn \ {c} : Status(d)' = Status(d)
    BY <2>1, StatusFrame DEF GoesTo
  <2>3. Status(c)' = Status(c)
    BY <1>1, <2>1 DEF GoesTo, Status, Joined, JoinedStates
  <2> QED
    BY <2>2, <2>3 DEF Statuses
<1>3. UNCHANGED delivered
  BY SameDelivered DEF Sends, SameMail
<1>4. Mails' = [Mails EXCEPT ![t] = Append(@, m)]
  <2>1. Mails'[t] = Append(Mails[t], m) /\ \A d \in Conn \ {t} : Mails'[d] = Mails[d]
    BY MailsAre DEF Sends, SameMail
  <2> QED
    BY <2>1 DEF Mails
<1>5. Statuses[c] = "in" /\ Statuses[t] # "out"
  <2>1. Joined(c) /\ HasJoined(t)
    BY <1>1 DEF Joined, JoinedStates, InOrder, InTurn
  <2> QED
    BY <2>1, StatusCases DEF Statuses
<1>6. Service!Addressed(c, t, m)
  BY <1>1 DEF Service!Addressed, Legitimate, Payload
<1>7. Below(delivered[t] \o Mails[t], c, m.seq)
  BY <1>1, MailsAre DEF InOrder, InTurn, Behind, Accepted
<1>8. Service!Accept(c, t, m)
  BY <1>1, <1>2, <1>3, <1>4, <1>5, <1>6, <1>7, ServiceAccepts
<1>9. \E i \in DOMAIN Mails'[t] : Mails'[t][i] = m
  <2>1. Mail(t) \in Seq(Payload) /\ Mails'[t] = Append(Mail(t), m)
    BY <1>4, MailType, MailsAre DEF Mails
  <2>2. /\ Len(Mail(t)) + 1 \in DOMAIN Append(Mail(t), m)
        /\ Append(Mail(t), m)[Len(Mail(t)) + 1] = m
    BY <1>1, <2>1
  <2> QED
    BY <2>1, <2>2
<1> QED
  BY <1>8, <1>9, ServiceNext

(* Init is Init of the service, and a step of the hub is a step of the     *)
(* service or none.                                                        *)
LEMMA InitService == Init => Service!Init
<1> SUFFICES ASSUME Init PROVE Service!Init
  OBVIOUS
<1>1. \A c \in Conn : pc[c] = "dial" /\ hand[c] = Nil /\ send[c] = <<>>
  BY DEF Init
<1>2. ASSUME NEW c \in Conn PROVE Mail(c) = <<>> /\ Status(c) = "out"
  <2>1. Mail(c) = <<>> \o <<>>
    BY <1>1 DEF Mail
  <2> QED
    BY <1>1, <2>1 DEF Status, Joined, JoinedStates
<1>3. Statuses = [c \in Conn |-> "out"] /\ Mails = [c \in Conn |-> <<>>]
  BY <1>2, MailsAre DEF Statuses, Mails
<1> QED
  BY <1>3 DEF Service!Init, Init, Statuses, Mails, Status, Mail

LEMMA StepService ==
  ASSUME Typed, Membership, Routed, Promised, [Next]_vars
  PROVE  Service!Next \/ UNCHANGED Service!vars
<1>1. CASE Next
  <2>1. PICK c \in Conn : Step(c)
    BY <1>1 DEF Next
  <2>2. Typed' /\ HandOK /\ InOrder
    BY <2>1, StepTyped DEF Promised
  <2>3. CASE \A d \in Conn : SameMail(d)
    BY <2>1, <2>2, <2>3, StepStatus, QuietService DEF Service!Next
  <2>4. CASE Delivers(c) \/ Loses(c)
    BY <2>2, <2>4, WriteService DEF Service!Next
  <2>5. CASE \E t \in Conn : Sends(c, t)
    <3>1. PICK t \in Conn : Sends(c, t)
      BY <2>5
    <3>2. Accepted(t)' = Append(Accepted(t), msg[c])
      BY <2>2, <3>1, SendsAccepted
    <3> QED
      BY <2>2, <3>1, <3>2, SendService
  <2> QED
    BY <2>1, <2>2, <2>3, <2>4, <2>5, StepMail
<1>2. CASE UNCHANGED vars
  BY <1>2 DEF vars, Service!vars, Joined
<1> QED
  BY <1>1, <1>2

(* The hub implements the service it promises to the peers, for every      *)
(* number of rooms, peers and frames and every size of the queues: who     *)
(* joins and leaves, what is accepted from whom for whom, and that what is *)
(* delivered is a subsequence of it in order (hub.go, client.go).          *)
THEOREM HubKeepsPromise == Spec => KeepsPromise
<1>1. Spec => []Routed
  BY AlwaysRouted
<1> QED
  BY <1>1, InitService, StepService, AlwaysPromised, Inductive, PTL
     DEF Spec, KeepsPromise, Service!Spec
=============================================================================
