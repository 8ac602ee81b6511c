------------------------- MODULE NotificationsProofs -------------------------
(***************************************************************************)
(* For every set of identifiers and every number of calls: no timer is     *)
(* lost, no identifier has two toasts, and no toast goes before its time.  *)
(* What runs is what the map knows, under the identifier of the call, so   *)
(* that firing, dismissing and replacing always hit the same one; and a    *)
(* toast with a duration is shown only while its own timer runs.           *)
(***************************************************************************)
EXTENDS Notifications, TLAPS

Call == [id : Id, timed : BOOLEAN]

Typed ==
  /\ calls \in Seq(Call)
  /\ timers \in [Id -> 0..Len(calls)]
  /\ pending \subseteq 1..Len(calls)

(* A timer is kept under the identifier of its toast.                      *)
Own == \A id \in Id : timers[id] # 0 => calls[timers[id]].id = id

Inv == Typed /\ Own /\ NoStrayTimer

(* A new call leaves the earlier ones as they are.                         *)
LEMMA EarlierCalls ==
  ASSUME calls \in Seq(Call), NEW call \in Call
  PROVE  /\ Append(calls, call) \in Seq(Call)
         /\ Len(Append(calls, call)) = Len(calls) + 1 /\ Len(calls) \in Nat
         /\ \A n \in 1..Len(calls) : Append(calls, call)[n] = calls[n]
         /\ Append(calls, call)[Len(calls) + 1] = call
OBVIOUS

LEMMA IdOfCall ==
  ASSUME calls \in Seq(Call), NEW n \in 1..Len(calls)
  PROVE  calls[n].id \in Id /\ n # 0
<1>1. calls[n] \in Call
  OBVIOUS
<1> QED
  BY <1>1 DEF Call

LEMMA InitInv == Init => Inv
BY DEF Init, Inv, Typed, Own, NoStrayTimer, Call

LEMMA NotifyStep ==
  ASSUME Inv, NEW id \in Id, NEW timed \in BOOLEAN, Notify(id, timed)
  PROVE  Inv'
<1> DEFINE n == Len(calls) + 1
<1> DEFINE call == [id |-> id, timed |-> timed]
<1>1. calls \in Seq(Call) /\ call \in Call /\ calls' = Append(calls, call)
  BY DEF Inv, Typed, Notify, Call
<1>2. /\ calls' \in Seq(Call) /\ Len(calls') = Len(calls) + 1 /\ Len(calls) \in Nat
      /\ \A m \in 1..Len(calls) : calls'[m] = calls[m]
      /\ calls'[Len(calls) + 1] = call
  BY <1>1, EarlierCalls
<1>3. CASE timed
  <2>1. /\ timers' = [[timers EXCEPT ![id] = 0] EXCEPT ![id] = n]
        /\ pending' = (pending \ {timers[id]}) \cup {n}
    BY <1>3 DEF Notify, SetTimers, Restarted, Cleared
  <2>2. timers \in [Id -> 0..Len(calls)] /\ pending \subseteq 1..Len(calls)
    BY DEF Inv, Typed
  <2>3. timers' \in [Id -> 0..Len(calls')] /\ timers'[id] = n
        /\ \A i \in Id : i # id => timers'[i] = timers[i]
    BY <1>2, <2>1, <2>2
  <2>4. Typed'
    BY <1>2, <2>1, <2>2, <2>3 DEF Typed
  <2>5. Own'
    BY <1>2, <2>2, <2>3 DEF Inv, Own
  <2>6. NoStrayTimer'
    BY <2>1, <2>3 DEF Inv, NoStrayTimer
  <2>7. QED BY <2>4, <2>5, <2>6 DEF Inv
<1>4. CASE ~timed
  <2>1. timers' = timers /\ pending' = pending
    BY <1>4 DEF Notify, SetTimers, Sticky
  <2>2. Typed'
    BY <1>2, <2>1 DEF Inv, Typed
  <2>3. Own'
    BY <1>2, <2>1 DEF Inv, Typed, Own
  <2>4. QED BY <2>1, <2>2, <2>3 DEF Inv, NoStrayTimer
<1>5. QED BY <1>3, <1>4

(* Dismissing, and the end of a timer, which the map has under the         *)
(* identifier of its toast, both take that one out.                        *)
LEMMA ClearStep ==
  ASSUME Inv, NEW id \in Id, calls' = calls, SetTimers(Cleared(id))
  PROVE  Inv'
<1>1. timers' = [timers EXCEPT ![id] = 0] /\ pending' = pending \ {timers[id]}
  BY DEF SetTimers, Cleared
<1>2. timers'[id] = 0 /\ \A i \in Id : i # id => timers'[i] = timers[i]
  BY <1>1 DEF Inv, Typed
<1>3. Typed'
  <2>1. calls \in Seq(Call) /\ timers \in [Id -> 0..Len(calls)] /\ pending \subseteq 1..Len(calls)
    BY DEF Inv, Typed
  <2>2. 0 \in 0..Len(calls)
    BY <2>1
  <2>3. timers' \in [Id -> 0..Len(calls)]
    BY <1>1, <2>1, <2>2
  <2>4. QED BY <1>1, <2>1, <2>3 DEF Typed
<1>4. Own'
  BY <1>2 DEF Inv, Own
<1>5. NoStrayTimer'
  BY <1>1, <1>2 DEF Inv, NoStrayTimer
<1>6. QED BY <1>3, <1>4, <1>5 DEF Inv

LEMMA FireStep == ASSUME Inv, NEW n, Fire(n) PROVE Inv'
<1>1. n \in pending
  BY DEF Fire
<1>2. PICK id \in Id : timers[id] = n
  BY <1>1 DEF Inv, NoStrayTimer
<1>3. calls[n].id = id
  <2>1. n # 0
    BY <1>1 DEF Inv, Typed
  <2>2. QED BY <1>2, <2>1 DEF Inv, Own
<1>4. SetTimers(Cleared(id)) /\ calls' = calls
  BY <1>2, <1>3 DEF Fire, SetTimers, Cleared
<1>5. QED BY <1>4, ClearStep

LEMMA UnmountStep == Inv /\ Unmount => Inv'
<1>1. SUFFICES ASSUME Inv, Unmount PROVE Inv'
  OBVIOUS
<1>2. pending' = {} /\ calls' = calls /\ timers' = [id \in Id |-> 0]
  BY <1>1 DEF Inv, NoStrayTimer, Unmount
<1>3. QED BY <1>1, <1>2 DEF Inv, Typed, Own, NoStrayTimer

LEMMA StepInv == Inv /\ [Next]_vars => Inv'
<1>1. SUFFICES ASSUME Inv, [Next]_vars PROVE Inv'
  OBVIOUS
<1>2. ASSUME NEW id \in Id, NEW timed \in BOOLEAN, Notify(id, timed) PROVE Inv'
  BY <1>1, <1>2, NotifyStep
<1>3. ASSUME NEW id \in Id, Dismiss(id) PROVE Inv'
  BY <1>1, <1>3, ClearStep DEF Dismiss
<1>4. ASSUME NEW n, Fire(n) PROVE Inv'
  BY <1>1, <1>4, FireStep
<1>5. CASE Unmount
  BY <1>1, <1>5, UnmountStep
<1>6. CASE UNCHANGED vars
  BY <1>1, <1>6 DEF vars, Inv, Typed, Own, NoStrayTimer
<1>7. QED BY <1>1, <1>2, <1>3, <1>4, <1>5, <1>6 DEF Next

(* No timer runs that clearTimer and the unmount cannot find any more.     *)
THEOREM TimersKnown == Spec => []NoStrayTimer
<1>1. Inv => NoStrayTimer
  BY DEF Inv
<1>2. QED BY <1>1, InitInv, StepInv, PTL DEF Spec

(* The unmount leaves no timer behind (the cleanup of useToastTimers).     *)
THEOREM UnmountClears == Spec => [][Unmount => pending' = {}]_vars
<1>1. Inv /\ [Next]_vars => [Unmount => pending' = {}]_vars
  BY DEF Inv, NoStrayTimer, Unmount
<1>2. QED BY <1>1, InitInv, StepInv, PTL DEF Spec

-----------------------------------------------------------------------------
(* What is shown: one toast under an identifier, the newest, and with each *)
(* that has a duration its own timer.  After the unmount nothing is.       *)
Shown ==
  /\ mounted \in BOOLEAN /\ toasts \subseteq 1..Len(calls)
  /\ ~mounted => toasts = {}
  /\ NewestPerId
  /\ \A n \in toasts : calls[n].timed => n \in pending /\ timers[calls[n].id] = n
  /\ \A n \in pending : calls[n].timed

(* A list from which some toasts were taken, the timers of which may stop, *)
(* while those of the others go on.                                        *)
LEMMA FewerToasts ==
  ASSUME Inv, Shown, UNCHANGED calls, mounted' \in BOOLEAN, toasts' \subseteq toasts,
         ~mounted' => toasts' = {}, pending' \subseteq pending,
         \A n \in toasts' : n \in pending => n \in pending' /\ timers'[calls[n].id] = timers[calls[n].id]
  PROVE  Shown'
BY DEF Shown, NewestPerId

(* The end of the toasts and of the timer under an identifier.             *)
LEMMA ClearShown ==
  ASSUME Inv, Shown, NEW id \in Id, UNCHANGED <<calls, mounted>>,
         SetToasts(Others(toasts, id)), SetTimers(Cleared(id))
  PROVE  Shown'
<1>1. timers' = [timers EXCEPT ![id] = 0] /\ pending' = pending \ {timers[id]}
  BY DEF SetTimers, Cleared
<1>2. \A n \in toasts' : n \in toasts /\ calls[n].id # id
  BY DEF SetToasts, Others, Shown
<1>3. \A n \in toasts' : n \in pending => n \in pending' /\ timers'[calls[n].id] = timers[calls[n].id]
  <2> SUFFICES ASSUME NEW n \in toasts', n \in pending
               PROVE  n # timers[id] /\ timers'[calls[n].id] = timers[calls[n].id]
    BY <1>1
  <2>1. calls[n].id \in Id \ {id} /\ n # 0
    BY <1>2, IdOfCall DEF Inv, Shown, Typed
  <2>2. n # timers[id]
    BY <2>1 DEF Inv, Own
  <2> QED
    BY <1>1, <2>1, <2>2 DEF Inv, Typed
<1> QED
  BY <1>1, <1>2, <1>3, FewerToasts DEF Shown, SetToasts

LEMMA NotifyShown ==
  ASSUME Inv, Shown, NEW id \in Id, NEW timed \in BOOLEAN, Notify(id, timed)
  PROVE  Shown'
<1> DEFINE n    == Len(calls) + 1
           call == [id |-> id, timed |-> timed]
<1>1. calls \in Seq(Call) /\ call \in Call /\ calls' = Append(calls, call)
  BY DEF Inv, Typed, Notify, Call
<1>2. /\ Len(calls') = Len(calls) + 1 /\ Len(calls) \in Nat
      /\ \A m \in 1..Len(calls) : calls'[m] = calls[m] /\ calls[m] \in Call
      /\ calls'[n].id = id /\ calls'[n].timed = timed
  BY <1>1, EarlierCalls
<1>3. /\ mounted' = mounted /\ mounted \in BOOLEAN
      /\ toasts' = IF mounted THEN Others(toasts, id) \cup {n} ELSE {}
      /\ toasts \subseteq 1..Len(calls) /\ pending \subseteq 1..Len(calls)
  BY DEF Notify, SetToasts, Shown, Inv, Typed
<1>4. \A m \in toasts' : m = n \/ (m \in toasts /\ calls[m].id # id)
  BY <1>3 DEF Others
<1>5. toasts' \subseteq 1..Len(calls') /\ (~mounted' => toasts' = {})
  <2>1. 1..Len(calls) \subseteq 1..Len(calls') /\ n \in 1..Len(calls')
    BY <1>2
  <2>2. ASSUME NEW m \in toasts' PROVE m \in 1..Len(calls')
    <3> HIDE DEF n
    <3> QED
      BY <1>3, <1>4, <2>1, <2>2
  <2>3. ~mounted' => toasts' = {}
    BY <1>3
  <2> QED
    BY <2>2, <2>3
<1>6. NewestPerId'
  <2> SUFFICES ASSUME NEW m \in toasts', NEW k \in m..Len(calls'),
                      calls'[k].id = calls'[m].id
               PROVE  k = m
    BY DEF NewestPerId
  <2>1. CASE m = n
    BY <1>2, <2>1
  <2>2. CASE m \in toasts /\ calls[m].id # id
    <3>1. m \in 1..Len(calls) /\ calls'[m].id # id
      BY <1>2, <1>3, <2>2
    <3>2. k # n
      BY <1>2, <3>1
    <3>3. k \in m..Len(calls) /\ calls[k].id = calls[m].id
      BY <1>2, <3>1, <3>2
    <3> QED
      BY <2>2, <3>3 DEF Shown, NewestPerId
  <2> QED
    BY <1>4, <2>1, <2>2
<1>7. /\ timed => /\ pending' = (pending \ {timers[id]}) \cup {n} /\ timers'[id] = n
                  /\ \A i \in Id \ {id} : timers'[i] = timers[i]
      /\ ~timed => pending' = pending /\ timers' = timers
  BY DEF Notify, SetTimers, Restarted, Cleared, Sticky, Inv, Typed
<1>8. ASSUME NEW m \in toasts', calls'[m].timed
      PROVE  m \in pending' /\ timers'[calls'[m].id] = m
  <2>1. CASE m = n
    BY <1>2, <1>7, <1>8, <2>1
  <2>2. CASE m \in toasts /\ calls[m].id # id
    <3>1. calls'[m] = calls[m] /\ calls[m].id \in Id \ {id} /\ m # 0
      BY <1>2, <1>3, <2>2 DEF Call
    <3>2. m \in pending /\ timers[calls[m].id] = m
      BY <1>8, <2>2, <3>1 DEF Shown
    <3>3. m # timers[id]
      BY <2>2, <3>1 DEF Inv, Own
    <3> QED
      BY <1>7, <3>1, <3>2, <3>3
  <2> QED
    BY <1>4, <2>1, <2>2
<1>9. \A m \in pending' : calls'[m].timed
  <2> SUFFICES ASSUME NEW m \in pending' PROVE calls'[m].timed
    OBVIOUS
  <2>1. m \in pending \/ (m = n /\ timed)
    BY <1>7
  <2> QED
    BY <1>2, <1>3, <2>1 DEF Shown
<1> QED
  BY <1>3, <1>5, <1>6, <1>8, <1>9 DEF Shown

(* The timer that fires is the one the map has for its toast.              *)
LEMMA FireClears ==
  ASSUME Inv, NEW n, Fire(n)
  PROVE  \E id \in Id : /\ id = calls[n].id /\ timers[id] = n
                        /\ SetToasts(Others(toasts, id)) /\ SetTimers(Cleared(id))
<1>1. n \in pending /\ n # 0
  BY DEF Fire, Inv, Typed
<1>2. PICK id \in Id : timers[id] = n
  BY <1>1 DEF Inv, NoStrayTimer
<1>3. calls[n].id = id
  BY <1>1, <1>2 DEF Inv, Own
<1> QED
  BY <1>2, <1>3 DEF Fire, SetTimers, Cleared

LEMMA InitShown == Init => Shown
BY DEF Init, Shown, NewestPerId

LEMMA StepShown == Inv /\ Shown /\ [Next]_vars => Shown'
<1> SUFFICES ASSUME Inv, Shown, [Next]_vars PROVE Shown'
  OBVIOUS
<1>1. ASSUME NEW id \in Id, NEW timed \in BOOLEAN, Notify(id, timed) PROVE Shown'
  BY <1>1, NotifyShown
<1>2. ASSUME NEW id \in Id, Dismiss(id) PROVE Shown'
  BY <1>2, ClearShown DEF Dismiss
<1>3. ASSUME NEW n, Fire(n) PROVE Shown'
  BY <1>3, FireClears, ClearShown DEF Fire
<1>4. CASE Unmount
  BY <1>4, FewerToasts DEF Unmount
<1>5. CASE UNCHANGED vars
  BY <1>5 DEF vars, Shown, NewestPerId
<1> QED
  BY <1>1, <1>2, <1>3, <1>4, <1>5 DEF Next

LEMMA AlwaysShown == Spec => [](Inv /\ Shown)
<1> QED
  BY InitInv, InitShown, StepInv, StepShown, PTL DEF Spec

(* The variables have their types, and only calls with a duration timers.  *)
THEOREM NotificationsTyped == Spec => []TypeOK
<1>1. Inv /\ Shown => TypeOK
  BY DEF Inv, Typed, Shown, TypeOK, Call
<1> QED
  BY <1>1, AlwaysShown, PTL

(* No two toasts are shown under an identifier, and none that is older     *)
(* than the last call under it: notify, ToastViewport.                     *)
THEOREM NewestShown == Spec => []NewestPerId
<1>1. Inv /\ Shown => NewestPerId
  BY DEF Shown
<1> QED
  BY <1>1, AlwaysShown, PTL

(* A toast with a duration leaves the list only with its own timer, or     *)
(* for a newer one under its identifier: setTimer, clearTimer, dismiss.    *)
THEOREM ShownForItsTime == Spec => ShownInFull
<1>1. ASSUME Inv, Shown, [Next]_vars, NEW n \in toasts, calls[n].timed, mounted',
             \A m \in toasts' : calls'[m].id # calls[n].id
      PROVE  n \in pending \ pending'
  <2>1. /\ n \in pending /\ timers[calls[n].id] = n /\ n \in 1..Len(calls)
        /\ calls[n].id \in Id /\ calls \in Seq(Call)
    BY <1>1, IdOfCall DEF Shown, Inv, Typed
  <2>2. ASSUME NEW id \in Id, SetToasts(Others(toasts, id)), SetTimers(Cleared(id)),
               UNCHANGED <<calls, mounted>>
        PROVE  n \notin pending'
    <3>1. n \notin toasts'
      BY <1>1, <2>2
    <3>2. id = calls[n].id
      BY <1>1, <2>2, <3>1 DEF SetToasts, Others
    <3> QED
      BY <2>1, <2>2, <3>2 DEF SetTimers, Cleared
  <2>3. ASSUME NEW id \in Id, NEW timed \in BOOLEAN, Notify(id, timed) PROVE FALSE
    <3>1. [id |-> id, timed |-> timed] \in Call
      BY DEF Call
    <3>2. /\ calls'[n] = calls[n] /\ calls'[Len(calls) + 1].id = id
          /\ toasts' = Others(toasts, id) \cup {Len(calls) + 1}
      BY <1>1, <2>1, <2>3, <3>1, EarlierCalls DEF Notify, SetToasts
    <3> QED
      BY <1>1, <3>2 DEF Others
  <2>4. CASE UNCHANGED vars
    BY <1>1, <2>4 DEF vars
  <2>5. ASSUME NEW id \in Id, Dismiss(id) PROVE n \notin pending'
    BY <2>2, <2>5 DEF Dismiss
  <2>6. ASSUME NEW k, Fire(k) PROVE n \notin pending'
    BY <1>1, <2>2, <2>6, FireClears DEF Fire
  <2>7. CASE Unmount
    BY <1>1, <2>7 DEF Unmount
  <2> QED
    BY <1>1, <2>1, <2>3, <2>4, <2>5, <2>6, <2>7 DEF Next
<1>2. Inv /\ Shown /\ [Next]_vars =>
        \A n \in toasts :
          LET gone == mounted' /\ \A m \in toasts' : calls'[m].id # calls[n].id
          IN  calls[n].timed /\ gone => n \in pending \ pending'
  BY <1>1
<1> QED
  BY <1>2, AlwaysShown, PTL DEF Spec, ShownInFull
=============================================================================
