---------------------------- MODULE LinuxTimeouts ----------------------------
(***************************************************************************)
(* Timeouts of control transfers on Linux: LinuxDevice.timeouts and the    *)
(* timerfd (src/src/platform/linux_usbfs/device.rs).                       *)
(*                                                                         *)
(* Threads submit control transfers with a timeout; the event thread reaps *)
(* finished URBs and, when the timerfd fires, discards the URBs whose      *)
(* deadline has passed.  The map of deadlines is behind one lock, but the  *)
(* clock is read before the lock is taken and the kernel works meanwhile.  *)
(*                                                                         *)
(* Time is a counter that advances by TickSize; the last instant, MaxTime, *)
(* stands for all later ones: a timer still armed then has fired.          *)
(*                                                                         *)
(* X_Y is a mutant of X.                                                   *)
(***************************************************************************)
EXTENDS Naturals, FiniteSets

CONSTANTS
  Transfers, \* control transfers, each with its URB and the thread submitting it
  EventThread,
  Nobody,    \* the lock is free
  Timeouts,  \* the timeouts callers pass
  TickSize,  \* how far the clock advances at once
  MaxTime    \* bound on the clock

ASSUME TimeAssumption ==
  /\ Timeouts \subseteq Nat /\ TickSize \in Nat \ {0} /\ MaxTime \in Nat
ASSUME ThreadAssumption == EventThread \notin Transfers /\ Nobody \notin Transfers \union {EventThread}

VARIABLES
  now,      \* the monotonic clock
  timer,    \* when the timerfd fires, or Off
  timeouts, \* LinuxDevice.timeouts
  lock,     \* who holds its mutex
  spc,      \* where each submitting thread is
  deadline, \* TransferData.deadline
  at,       \* the clock reading each submitting thread works with
  urb,      \* the state of each URB
  epc,      \* where the event thread is
  reaped,   \* the transfer it has reaped
  enow      \* the clock reading it works with

submitters == <<spc, deadline, at>>
event == <<epc, reaped, enow>>
vars == <<now, timer, timeouts, lock, submitters, urb, event>>

Off == 2 * MaxTime + 2
Times == 0..MaxTime
Entries == [deadline : Times, urb : Transfers]

TypeOK ==
  /\ now \in Times
  /\ timer \in Nat
  /\ timeouts \subseteq Entries
  /\ lock \in Transfers \union {EventThread, Nobody}
  /\ spc \in [Transfers -> {"idle", "lock", "submit", "insert", "wait"}]
  /\ deadline \in [Transfers -> Times]
  /\ at \in [Transfers -> Times]
  /\ urb \in [Transfers -> {"none", "active", "done", "reaped", "refused", "completed"}]
  /\ epc \in {"idle", "lockReaped", "remove", "notify", "consume", "lockTimer", "expire"}
  /\ reaped \subseteq Transfers
  /\ enow \in Times

Init ==
  /\ now = 0
  /\ timer = Off
  /\ timeouts = {}
  /\ lock = Nobody
  /\ spc = [t \in Transfers |-> "idle"]
  /\ deadline = [t \in Transfers |-> 0]
  /\ at = [t \in Transfers |-> 0]
  /\ urb = [t \in Transfers |-> "none"]
  /\ epc = "idle"
  /\ reaped = {}
  /\ enow = 0

-----------------------------------------------------------------------------
(* update_timeouts                                                         *)

\* No entry of s comes before e in the BTreeMap, up to the order of addresses.
First(s, e) == e \in s /\ \A f \in s : e.deadline <= f.deadline

Remaining_Saturating(d, n) == IF d >= n THEN d - n ELSE 0
Remaining_Swapped(d, n) == IF d >= n THEN n - d ELSE 1
\* How long until deadline d, on a clock reading n; 1 is the code's nanosecond.
Remaining(d, n) == IF d >= n THEN d - n ELSE 1

\* timerfd_settime counts from the present time, and a duration of zero, which
\* the code uses for "no timeouts", disarms the timer.
Armed(s, n) ==
  IF s = {} THEN 0 ELSE Remaining((CHOOSE e \in s : First(s, e)).deadline, n)

SetTimer(s, n) ==
  timer' = IF Armed(s, n) = 0 THEN Off ELSE now + Armed(s, n)

\* The map becomes s, the timer is set by clock reading n, the lock is released.
UpdateTimeouts(s, n) ==
  /\ timeouts' = s
  /\ SetTimer(s, n)
  /\ lock' = Nobody

-----------------------------------------------------------------------------
(* submit_timeout                                                          *)

\* A caller starts a control transfer: the clock is read before anything else.
\* The transfer may be a new one at the address of one that is over.
Start(t, d) ==
  /\ spc[t] = "idle" /\ now + d <= MaxTime
  /\ at' = [at EXCEPT ![t] = now]
  /\ deadline' = [deadline EXCEPT ![t] = now + d]
  /\ urb' = [urb EXCEPT ![t] = "none"]
  /\ spc' = [spc EXCEPT ![t] = "lock"]
  /\ UNCHANGED <<now, timer, timeouts, lock, event>>

LockToSubmit(t) ==
  /\ spc[t] = "lock" /\ lock = Nobody
  /\ lock' = t
  /\ spc' = [spc EXCEPT ![t] = "submit"]
  /\ UNCHANGED <<now, timer, timeouts, deadline, at, urb, event>>

\* submit: the kernel takes the URB, or the transfer is completed at once.
SubmitUrb(t) ==
  /\ spc[t] = "submit"
  /\ \E r \in {"active", "refused"} : urb' = [urb EXCEPT ![t] = r]
  /\ spc' = [spc EXCEPT ![t] = "insert"]
  /\ UNCHANGED <<now, timer, timeouts, lock, deadline, at, event>>

\* The entry is inserted unless the transfer is already complete.
InsertTimeout(t) ==
  /\ spc[t] = "insert"
  /\ spc' = [spc EXCEPT ![t] = "wait"]
  /\ IF urb[t] \in {"refused", "completed"}
     THEN lock' = Nobody /\ UNCHANGED <<timer, timeouts>>
     ELSE UpdateTimeouts(timeouts \union {[deadline |-> deadline[t], urb |-> t]}, at[t])
  /\ UNCHANGED <<now, deadline, at, urb, event>>

\* The caller has its result, or the event thread has freed an abandoned transfer.
TransferOver(t) ==
  /\ spc[t] = "wait" /\ urb[t] \in {"refused", "completed"}
  /\ spc' = [spc EXCEPT ![t] = "idle"]
  /\ UNCHANGED <<now, timer, timeouts, lock, deadline, at, urb, event>>

-----------------------------------------------------------------------------
(* handle_events                                                           *)

\* The event thread reaps a finished URB; its transfer has a deadline.
Reap(t) ==
  /\ epc = "idle" /\ urb[t] = "done"
  /\ urb' = [urb EXCEPT ![t] = "reaped"]
  /\ reaped' = {t}
  /\ epc' = "lockReaped"
  /\ UNCHANGED <<now, timer, timeouts, lock, submitters, enow>>

LockToRemove_NotNeeded ==
  /\ epc = "lockReaped"
  /\ epc' = "remove"
  /\ UNCHANGED <<now, timer, timeouts, lock, submitters, urb, reaped, enow>>
LockToRemove ==
  /\ epc = "lockReaped" /\ lock = Nobody
  /\ lock' = EventThread
  /\ epc' = "remove"
  /\ UNCHANGED <<now, timer, timeouts, submitters, urb, reaped, enow>>

Others_All(t) == timeouts
Others(t) == timeouts \ {[deadline |-> deadline[t], urb |-> t]}

RemoveTimeout ==
  /\ epc = "remove"
  /\ \A t \in reaped : UpdateTimeouts(Others(t), now)
  /\ epc' = "notify"
  /\ UNCHANGED <<now, submitters, urb, reaped, enow>>

\* notify_completion: from now on the transfer and its URB may be freed.
NotifyCompletion ==
  /\ epc = "notify"
  /\ urb' = [t \in Transfers |-> IF t \in reaped THEN "completed" ELSE urb[t]]
  /\ reaped' = {}
  /\ epc' = "idle"
  /\ UNCHANGED <<now, timer, timeouts, lock, submitters, enow>>

-----------------------------------------------------------------------------
(* handle_timeouts                                                         *)

Fired == timer # Off /\ (timer <= now \/ now = MaxTime)

\* epoll reports the timerfd, and the clock is read.
HandleTimeouts ==
  /\ epc = "idle" /\ Fired
  /\ enow' = now
  /\ epc' = "consume"
  /\ UNCHANGED <<now, timer, timeouts, lock, submitters, urb, reaped>>

\* The expiration is read, unless the timer has been set anew and has not fired.
ConsumeExpiration ==
  /\ epc = "consume"
  /\ timer' = IF Fired THEN Off ELSE timer
  /\ epc' = "lockTimer"
  /\ UNCHANGED <<now, timeouts, lock, submitters, urb, reaped, enow>>

LockToExpire ==
  /\ epc = "lockTimer" /\ lock = Nobody
  /\ lock' = EventThread
  /\ epc' = "expire"
  /\ UNCHANGED <<now, timer, timeouts, submitters, urb, reaped, enow>>

\* Entries are due when their deadline is not after the clock reading.
Due_Early(e) == First(timeouts, e)
Due(e) == First(timeouts, e) /\ e.deadline <= enow

Discarded_Ignored(t) == urb[t]
\* discard_urb ends a URB that the kernel still has.
Discarded(t) == IF urb[t] = "active" THEN "done" ELSE urb[t]

\* The first due entry is removed and its URB discarded.
Expire(e) ==
  /\ epc = "expire" /\ Due(e)
  /\ timeouts' = timeouts \ {e}
  /\ urb' = [urb EXCEPT ![e.urb] = Discarded(e.urb)]
  /\ UNCHANGED <<now, timer, lock, submitters, event>>

\* Nothing more is due.
EndExpire ==
  /\ epc = "expire" /\ ~\E e \in timeouts : Due(e)
  /\ UpdateTimeouts(timeouts, enow)
  /\ epc' = "idle"
  /\ UNCHANGED <<now, submitters, urb, reaped, enow>>

-----------------------------------------------------------------------------
(* The kernel and the clock                                                *)

\* The device answers.
FinishUrb(t) ==
  /\ urb[t] = "active"
  /\ urb' = [urb EXCEPT ![t] = "done"]
  /\ UNCHANGED <<now, timer, timeouts, lock, submitters, event>>

Tick ==
  /\ now + TickSize <= MaxTime
  /\ now' = now + TickSize
  /\ UNCHANGED <<timer, timeouts, lock, submitters, urb, event>>

SubmitStep(t) == LockToSubmit(t) \/ SubmitUrb(t) \/ InsertTimeout(t)

EventStep ==
  \/ \E t \in Transfers : Reap(t)
  \/ LockToRemove \/ RemoveTimeout \/ NotifyCompletion
  \/ HandleTimeouts \/ ConsumeExpiration \/ LockToExpire
  \/ \E e \in timeouts : Expire(e)
  \/ EndExpire

Next ==
  \/ \E t \in Transfers, d \in Timeouts : Start(t, d)
  \/ \E t \in Transfers : SubmitStep(t) \/ TransferOver(t) \/ FinishUrb(t)
  \/ EventStep
  \/ Tick

Spec == Init /\ [][Next]_vars

\* The threads run, waiters for the lock get it, and time passes.  The device
\* may never answer.
Fairness ==
  /\ WF_vars(Tick)
  /\ WF_vars(EventStep)
  /\ SF_vars(EventStep /\ lock' = EventThread)
  /\ \A t \in Transfers : SF_vars(SubmitStep(t))

FairSpec == Spec /\ Fairness

-----------------------------------------------------------------------------
(* Properties                                                              *)

\* Every entry is for the submission its URB is now in, and that is not over:
\* no entry outlives its transfer, whose URB handle_timeouts would then discard
\* although it is freed or belongs to another transfer.
NoStaleEntry ==
  \A e \in timeouts :
    urb[e.urb] \in {"active", "done", "reaped"} /\ deadline[e.urb] = e.deadline

\* "This can only be false if submit failed, because we hold the timeouts lock":
\* a transfer found complete in submit_timeout was refused by the kernel.
CompleteOnlyIfRefused == \A t \in Transfers : spc[t] = "insert" => urb[t] # "completed"

\* No timeout strikes before its deadline.
NeverEarly ==
  [][\A t \in Transfers :
       epc = "expire" /\ (\E e \in timeouts : e.urb = t /\ e \notin timeouts')
         => deadline[t] <= now]_vars

\* Whenever nobody is changing them, pending timeouts have a timer that will fire,
\* or the event thread is on its way to handle them.
TimerCoversTimeouts ==
  timeouts # {} /\ lock = Nobody => timer # Off \/ epc = "lockTimer"

\* A control transfer with a timeout ends even if the device never answers.
DeadlineEndsTransfer ==
  \A t \in Transfers : (spc[t] = "insert") ~> (urb[t] \in {"refused", "completed"})
-----------------------------------------------------------------------------
(* The inductive invariant                                                 *)

\* The mutex: submit_timeout holds it from before the kernel has the URB until
\* the entry is in the map, the event thread while it changes the map.
LockInv ==
  /\ \A t \in Transfers : lock = t <=> spc[t] \in {"submit", "insert"}
  /\ lock = EventThread <=> epc \in {"remove", "expire"}

\* The event thread works on one reaped URB, and nobody else has a reaped one.
ReapedInv ==
  /\ epc \in {"lockReaped", "remove", "notify"} => \E t \in Transfers : reaped = {t}
  /\ epc \notin {"lockReaped", "remove", "notify"} => reaped = {}
  /\ \A t \in Transfers : t \in reaped <=> urb[t] = "reaped"

\* How far a URB can be while its thread submits it: it may be reaped before its
\* entry is inserted, but then the event thread waits for the mutex.
UrbInv ==
  \A t \in Transfers :
    /\ spc[t] \in {"lock", "submit"} => urb[t] = "none"
    /\ spc[t] = "insert" => urb[t] \in {"active", "refused", "done", "reaped"}
    /\ spc[t] = "insert" /\ urb[t] = "reaped" => epc = "lockReaped"
    /\ spc[t] = "wait" => urb[t] # "none"
    /\ spc[t] = "idle" => urb[t] \in {"none", "refused", "completed"}

\* An entry was inserted by the submission it is for, and is there until the event
\* thread has removed it with the mutex locked.
EntryInv ==
  \A e \in timeouts :
    /\ spc[e.urb] = "wait" /\ deadline[e.urb] = e.deadline
    /\ urb[e.urb] \in {"active", "done", "reaped"}
    /\ urb[e.urb] = "reaped" => epc \in {"lockReaped", "remove"}

\* n is a time that the clock shows.
OnTick(n) == \E k \in 0..n : n = TickSize * k

\* Clock readings are of the past, and deadlines a timeout after one.
ClockInv ==
  /\ OnTick(now) /\ OnTick(enow) /\ enow <= now
  /\ \A t \in Transfers :
       /\ OnTick(at[t])
       /\ spc[t] # "idle" => \E d \in Timeouts : deadline[t] = at[t] + d

\* No deadline is ever equal to a clock reading, which would disarm the timer (see
\* Armed): no timeout is a whole number of ticks.
NeverExact == \A d \in Timeouts : ~OnTick(d)

\* The timer is armed unless handle_timeouts has consumed its expiration and has not
\* set it again.
CoverInv == timeouts # {} /\ epc \notin {"lockTimer", "expire"} => timer # Off

TimeoutsInv == TypeOK /\ LockInv /\ ReapedInv /\ UrbInv /\ EntryInv /\ ClockInv
=============================================================================
