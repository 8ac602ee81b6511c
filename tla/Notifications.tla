---------------------------- MODULE Notifications ----------------------------
(***************************************************************************)
(* The notifications of the pages (ToastProvider.tsx): a list of toasts,   *)
(* each under an identifier, and the timers that make them disappear.  A   *)
(* toast is named after the call of notify that made it.  The callers in   *)
(* this repository give neither an identifier nor a duration; the model    *)
(* covers what ToastContext.ts offers: any identifier, also one in use,    *)
(* and a duration that may mean "until dismissed".                         *)
(***************************************************************************)
EXTENDS Naturals, Sequences

CONSTANTS Id, MaxCalls

VARIABLES
  calls,    \* the arguments of the calls of notify so far
  toasts,   \* the calls whose toasts are shown; the list of the provider has
            \*   them in the order of the calls, since it appends new ones
  timers,   \* timers.current: for each identifier a call, or 0
  pending,  \* the calls whose timers the browser is running
  mounted

vars == <<calls, toasts, timers, pending, mounted>>

Init ==
  /\ calls = <<>>
  /\ toasts = {}
  /\ timers = [id \in Id |-> 0]
  /\ pending = {}
  /\ mounted = TRUE

-----------------------------------------------------------------------------
(* Parts of the actions, each after a faulty variant (Bad...) that no      *)
(* action uses: what the properties below would catch.  TimersAfter is the *)
(* pair of timers and pending.                                             *)

(* filter: the toasts of a list that are not under an identifier           *)
BadOthers(list, id) == list
Others(list, id) == {n \in list : calls[n].id # id}

(* clearTimer                                                              *)
BadCleared(id) == [timers |-> [timers EXCEPT ![id] = 0], pending |-> pending]
Cleared(id) ==
  [timers |-> [timers EXCEPT ![id] = 0], pending |-> pending \ {timers[id]}]

(* notify with a duration: clearTimer, then setTimer                       *)
BadRestarted(id, n) == BadCleared(id)
Restarted(id, n) ==
  [timers |-> [Cleared(id).timers EXCEPT ![id] = n], pending |-> Cleared(id).pending \cup {n}]

(* notify without a duration                                               *)
BadSticky(id, n) == Restarted(id, n)
Sticky(id, n) == [timers |-> timers, pending |-> pending]

-----------------------------------------------------------------------------
SetToasts(list) == toasts' = IF mounted THEN list ELSE toasts

SetTimers(r) == timers' = r.timers /\ pending' = r.pending

Notify(id, timed) ==
  LET n == Len(calls) + 1
  IN  /\ n <= MaxCalls
      /\ calls' = Append(calls, [id |-> id, timed |-> timed])
      /\ SetToasts(Others(toasts, id) \cup {n})
      /\ SetTimers(IF timed THEN Restarted(id, n) ELSE Sticky(id, n))
      /\ UNCHANGED mounted

(* dismiss: the cross of a toast, or any user of the context, which offers *)
(* it for every identifier.                                                *)
Dismiss(id) ==
  /\ SetToasts(Others(toasts, id))
  /\ SetTimers(Cleared(id))
  /\ UNCHANGED <<calls, mounted>>

(* The function that setTimer gave to setTimeout.                          *)
Fire(n) ==
  /\ n \in pending
  /\ pending' = pending \ {n}
  /\ timers' = [timers EXCEPT ![calls[n].id] = 0]
  /\ SetToasts(Others(toasts, calls[n].id))
  /\ UNCHANGED <<calls, mounted>>

(* The provider goes.  (A call of getUserMedia that fails later may still  *)
(* notify.)                                                                *)
Unmount ==
  /\ mounted
  /\ mounted' = FALSE
  /\ toasts' = {}
  /\ pending' = pending \ {timers[id] : id \in Id}
  /\ timers' = [id \in Id |-> 0]
  /\ UNCHANGED calls

Next ==
  \/ \E id \in Id, timed \in BOOLEAN : Notify(id, timed)
  \/ \E id \in Id : Dismiss(id)
  \/ \E n \in 1..MaxCalls : Fire(n)
  \/ Unmount

Spec == Init /\ [][Next]_vars

(* A timer of the browser fires in the end.                                *)
FairSpec == Spec /\ \A n \in 1..MaxCalls : WF_vars(Fire(n))

-----------------------------------------------------------------------------
(* Properties.                                                             *)

(* Only calls with a duration have timers.                                 *)
TypeOK ==
  /\ calls \in Seq([id : Id, timed : BOOLEAN]) /\ mounted \in BOOLEAN
  /\ toasts \subseteq 1..Len(calls)
  /\ timers \in [Id -> 0..Len(calls)]
  /\ \A n \in pending : n \in 1..Len(calls) /\ calls[n].timed

(* The list has one toast under an identifier, the newest, whatever was    *)
(* shown before: they are the keys of its elements (notify, ToastViewport).*)
NewestPerId ==
  \A m \in toasts : \A n \in m..Len(calls) : calls[n].id = calls[m].id => n = m

(* No timer runs that clearTimer and the unmount cannot find any more: one *)
(* that fired later would take away the toast of a later call (useToastTimers). *)
NoStrayTimer == pending \subseteq {timers[id] : id \in Id}

(* A toast with a duration is shown for as long as it says: it goes with   *)
(* its own timer, or with a newer toast (notify, setTimer).                *)
ShownInFull ==
  [][\A n \in toasts :
       LET gone == mounted' /\ \A m \in toasts' : calls'[m].id # calls[n].id
       IN  calls[n].timed /\ gone => n \in pending \ pending']_vars

(* ... and no longer (setTimer).                                           *)
TimedToastsGo ==
  \A n \in 1..MaxCalls :
    n \in toasts /\ calls[n].timed ~> n \notin toasts
=============================================================================
