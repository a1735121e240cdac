--------------------------- MODULE CallbacksProofs ---------------------------
(***************************************************************************)
(* What the OS calls back, and when: proofs about MCCallbacks, and with it *)
(* LinuxTimeouts, WindowsControl and Hotplug, for any transfers, timeouts  *)
(* and devices.                                                            *)
(*                                                                         *)
(* Linux: an entry of the map of deadlines is there only while its         *)
(* transfer is neither complete nor restarted (EntryInv), because the      *)
(* event thread, which alone completes it, has first locked the map to     *)
(* remove the entry (ReapedInv), and cannot do so before the submitting    *)
(* thread has inserted it (LockInv, UrbInv).  The timer is armed whenever  *)
(* there are entries (CoverInv), if no deadline is a clock reading.        *)
(*                                                                         *)
(* Windows: what refers to a transfer by its address is gone before the    *)
(* transfer is completed, because whoever completes it has unset its timer *)
(* and waited for its callback (TimerInv), and there is one completer      *)
(* (CompleterInv).                                                         *)
(***************************************************************************)
EXTENDS MCCallbacks, Sequences, WellFoundedInduction, TLAPS

-----------------------------------------------------------------------------
(* Windows: the timers of control transfers                                *)

\* There are no transfers.
LEMMA ControlStart == W!ControlInit => W!ControlInv
BY DEF W!ControlInit, W!ControlInv, W!ControlTypeOK, W!CompleterInv, W!TimerInv,
       W!TimerReferencesPending, W!NoStrayTimer

\* Every step keeps the types.
LEMMA ControlTypes == W!ControlTypeOK /\ [W!ControlNext]_windows => W!ControlTypeOK'
<1> SUFFICES ASSUME W!ControlTypeOK, [W!ControlNext]_windows PROVE W!ControlTypeOK'
  OBVIOUS
<1> USE DEF W!ControlTypeOK, W!At, W!CancelTimer
<1>1. CASE UNCHANGED windows
  BY <1>1 DEF windows
<1>2. ASSUME NEW t \in Transfers, W!NewTransfer(t) \/ W!SubmitStep(t) \/ W!FutureOver(t)
      PROVE  W!ControlTypeOK'
  BY <1>2 DEF W!NewTransfer, W!SubmitStep, W!RefuseIndex, W!LockMutex, W!TimerNewPanics, W!Set, W!ControlTransfer, W!Unlock,
              W!PostSubmit, W!PostSubmitCompletes, W!FutureOver
<1>3. ASSUME NEW t \in Transfers, W!Elapse(t) \/ W!TimerStep(t)
      PROVE  W!ControlTypeOK'
  BY <1>3 DEF W!Elapse, W!TimerStep, W!TimerStarts, W!TimerLocks, W!TimerCancels
<1>4. ASSUME NEW t \in Transfers, W!RequestEnds(t) \/ W!IoStep(t)
      PROVE  W!ControlTypeOK'
  BY <1>4 DEF W!RequestEnds, W!IoStep, W!IoCallback, W!IoNotifies
<1> QED
  BY <1>1, <1>2, <1>3, <1>4 DEF W!ControlNext

\* The thread that submits a transfer and waits for it.
LEMMA SubmitKeeps ==
  ASSUME W!ControlInv, NEW t \in Transfers, W!NewTransfer(t) \/ W!SubmitStep(t) \/ W!FutureOver(t)
  PROVE  W!CompleterInv' /\ W!TimerInv' /\ W!TimerReferencesPending' /\ W!NoStrayTimer'
<1> USE DEF W!ControlInv, W!ControlTypeOK, W!CompleterInv, W!TimerInv, W!TimerReferencesPending,
            W!NoStrayTimer, W!At
<1>1. CASE W!NewTransfer(t)
  BY <1>1 DEF W!NewTransfer
<1>2. CASE W!RefuseIndex(t) \/ W!LockMutex(t) \/ W!TimerNewPanics(t)
  BY <1>2 DEF W!RefuseIndex, W!LockMutex, W!TimerNewPanics
<1>3. CASE W!Set(t) \/ W!ControlTransfer(t)
  BY <1>3 DEF W!Set, W!ControlTransfer
<1>4. CASE W!Unlock(t)
  BY <1>4 DEF W!Unlock
<1>5. CASE W!PostSubmit(t) \/ W!PostSubmitCompletes(t)
  BY <1>5 DEF W!PostSubmit, W!PostSubmitCompletes, W!CancelTimer, W!CallbacksOver
<1>6. CASE W!FutureOver(t)
  BY <1>6 DEF W!FutureOver
<1> QED
  BY <1>1, <1>2, <1>3, <1>4, <1>5, <1>6 DEF W!SubmitStep

\* The timer and its callback refer to a transfer that was pending when it was set.
LEMMA TimerKeeps ==
  ASSUME W!ControlInv, NEW t \in Transfers, W!Elapse(t) \/ W!TimerStep(t)
  PROVE  W!CompleterInv' /\ W!TimerInv' /\ W!TimerReferencesPending' /\ W!NoStrayTimer'
<1> USE DEF W!ControlInv, W!ControlTypeOK, W!CompleterInv, W!TimerInv, W!TimerReferencesPending,
            W!NoStrayTimer
<1>1. CASE W!Elapse(t) \/ W!TimerStarts(t)
  BY <1>1 DEF W!Elapse, W!TimerStarts
<1>2. CASE W!TimerLocks(t) \/ W!TimerCancels(t)
  BY <1>2 DEF W!TimerLocks, W!TimerCancels
<1> QED
  BY <1>1, <1>2 DEF W!TimerStep

\* The request and its callback.
LEMMA RequestKeeps ==
  ASSUME W!ControlInv, NEW t \in Transfers, W!RequestEnds(t) \/ W!IoStep(t)
  PROVE  W!CompleterInv' /\ W!TimerInv' /\ W!TimerReferencesPending' /\ W!NoStrayTimer'
<1> USE DEF W!ControlInv, W!ControlTypeOK, W!CompleterInv, W!TimerInv, W!TimerReferencesPending,
            W!NoStrayTimer
<1>1. CASE W!RequestEnds(t)
  BY <1>1 DEF W!RequestEnds
<1>2. CASE W!IoCallback(t)
  BY <1>2 DEF W!IoCallback, W!CancelTimer
<1>3. CASE W!IoNotifies(t)
  BY <1>3 DEF W!IoNotifies, W!CallbacksOver
<1> QED
  BY <1>1, <1>2, <1>3 DEF W!IoStep

\* A step of anybody.
LEMMA ControlStep == W!ControlInv /\ [W!ControlNext]_windows => W!ControlInv'
<1> SUFFICES ASSUME W!ControlInv, [W!ControlNext]_windows PROVE W!ControlInv'
  OBVIOUS
<1>1. W!ControlTypeOK'
  BY ControlTypes DEF W!ControlInv
<1>2. W!CompleterInv' /\ W!TimerInv' /\ W!TimerReferencesPending' /\ W!NoStrayTimer'
  <2>1. CASE UNCHANGED windows
    BY <2>1 DEF windows, W!ControlInv, W!CompleterInv, W!TimerInv, W!TimerReferencesPending, W!NoStrayTimer
  <2>2. CASE W!ControlNext
    BY <2>2, SubmitKeeps, TimerKeeps, RequestKeeps DEF W!ControlNext
  <2> QED
    BY <2>1, <2>2
<1> QED
  BY <1>1, <1>2 DEF W!ControlInv

\* The inductive invariant, for any transfers.
THEOREM ControlInvariant == W!ControlSpec => []W!ControlInv
BY ControlStart, ControlStep, PTL DEF W!ControlSpec, W!control, windows

\* A timer that is set, and a timer callback that runs, belong to a transfer that is not
\* complete: the callback never has a reference to a box that its owner has again.
THEOREM TimersBelongToPending == W!ControlSpec => [](W!TimerReferencesPending /\ W!NoStrayTimer)
<1>1. W!ControlInv => W!TimerReferencesPending /\ W!NoStrayTimer
  BY DEF W!ControlInv
<1> QED
  BY <1>1, ControlInvariant, PTL

-----------------------------------------------------------------------------
(* Linux: the map of deadlines and its timer                               *)

USE TimeAssumption, ThreadAssumption

\* The map has a first entry, which is the one update_timeouts looks at.
LEMMA FirstExists ==
  ASSUME NEW s \in SUBSET Entries, s # {}
  PROVE  (CHOOSE e \in s : First(s, e)) \in s
<1> DEFINE D == {e.deadline : e \in s}
<1>1. D \subseteq Nat /\ D # {}
  BY DEF Entries, Times
<1>2. PICK m \in D : \A k \in D : m <= k
  <2>1. IsWellFoundedOn(OpToRel(<, Nat), Nat)
    BY NatLessThanWellFounded
  <2>2. PICK m \in D : \A y \in D : ~(<<y, m>> \in OpToRel(<, Nat))
    BY <1>1, <2>1, WFMin
  <2>3. ASSUME NEW k \in D PROVE m <= k
    <3>1. ~(k < m)
      BY <2>2, <1>1 DEF OpToRel
    <3> QED
      BY <3>1, <1>1
  <2> QED
    BY <2>3
<1>3. PICK e \in s : e.deadline = m
  OBVIOUS
<1>4. First(s, e)
  BY <1>2, <1>3 DEF First
<1> QED
  BY <1>4

\* The remaining time is what is left until the deadline, and never zero after it.
LEMMA RemainingType ==
  ASSUME NEW d \in Times, NEW n \in Times
  PROVE  /\ Remaining(d, n) \in 0..(MaxTime + 1)
         /\ d # n => Remaining(d, n) # 0
BY DEF Remaining, Times

\* The timer is set to a time, or disarmed; it is armed if there is an entry and none
\* has the clock reading for its deadline.
LEMMA TimerSet ==
  ASSUME NEW s \in SUBSET Entries, NEW n \in Times, now \in Times, SetTimer(s, n)
  PROVE  /\ timer' \in Nat
         /\ s # {} /\ (\A e \in s : e.deadline # n) => timer' # Off
<1>1. CASE s = {}
  BY <1>1 DEF SetTimer, Armed, Off
<1>2. CASE s # {}
  <2> DEFINE f == CHOOSE e \in s : First(s, e)
  <2>1. f \in s
    BY <1>2, FirstExists
  <2>2. f.deadline \in Times
    BY <2>1 DEF Entries
  <2>3. Armed(s, n) = Remaining(f.deadline, n)
    BY <1>2 DEF Armed
  <2> HIDE DEF f
  <2> QED
    BY <2>1, <2>2, <2>3, RemainingType DEF SetTimer, Off, Times
<1> QED
  BY <1>1, <1>2

\* No entry, no transfer.
LEMMA TimeoutsStart == Init => TimeoutsInv /\ CoverInv
<1> SUFFICES ASSUME Init PROVE TimeoutsInv /\ CoverInv
  OBVIOUS
<1>1. OnTick(0)
  BY DEF OnTick
<1> QED
  BY <1>1 DEF Init, TimeoutsInv, CoverInv, TypeOK, LockInv, ReapedInv, UrbInv, EntryInv, ClockInv,
              Off, Times

\* Every step keeps the types.
LEMMA TimeoutsTypes == TypeOK /\ ReapedInv /\ [Next]_vars => TypeOK'
<1> SUFFICES ASSUME TypeOK, ReapedInv, [Next]_vars PROVE TypeOK'
  OBVIOUS
<1> USE DEF TypeOK
<1>1. CASE UNCHANGED vars
  BY <1>1 DEF vars, submitters, event
<1>2. ASSUME NEW t \in Transfers, NEW d \in Timeouts, Start(t, d) PROVE TypeOK'
  BY <1>2 DEF Start, event, Times
<1>3. ASSUME NEW t \in Transfers, LockToSubmit(t) PROVE TypeOK'
  BY <1>3 DEF LockToSubmit, event
<1>4. ASSUME NEW t \in Transfers, SubmitUrb(t) PROVE TypeOK'
  BY <1>4 DEF SubmitUrb, event
<1>5. ASSUME NEW t \in Transfers, InsertTimeout(t) PROVE TypeOK'
  <2>1. UNCHANGED <<now, deadline, at, urb, event>> /\ spc' = [spc EXCEPT ![t] = "wait"]
    BY <1>5 DEF InsertTimeout
  <2>2. timeouts' \subseteq Entries /\ timer' \in Nat /\ lock' = Nobody
    <3>1. CASE urb[t] \in {"refused", "completed"}
      BY <1>5, <3>1 DEF InsertTimeout
    <3>2. CASE urb[t] \notin {"refused", "completed"}
      <4> DEFINE s == timeouts \union {[deadline |-> deadline[t], urb |-> t]}
      <4>1. UpdateTimeouts(s, at[t])
        BY <1>5, <3>2 DEF InsertTimeout
      <4>2. s \subseteq Entries /\ at[t] \in Times
        BY DEF Entries
      <4> HIDE DEF s
      <4> QED
        BY <4>1, <4>2, TimerSet DEF UpdateTimeouts
    <3> QED
      BY <3>1, <3>2
  <2> QED
    BY <2>1, <2>2 DEF event
<1>6. ASSUME NEW t \in Transfers, TransferOver(t) PROVE TypeOK'
  BY <1>6 DEF TransferOver, event
<1>7. ASSUME NEW t \in Transfers, FinishUrb(t) PROVE TypeOK'
  BY <1>7 DEF FinishUrb, submitters, event
<1>8. ASSUME NEW t \in Transfers, Reap(t) PROVE TypeOK'
  BY <1>8 DEF Reap, submitters
<1>9. CASE LockToRemove
  BY <1>9 DEF LockToRemove, submitters
<1>10. CASE RemoveTimeout
  <2>1. PICK t \in reaped : UpdateTimeouts(Others(t), now)
    BY <1>10 DEF RemoveTimeout, ReapedInv
  <2>2. Others(t) \subseteq Entries
    BY DEF Others
  <2>3. timeouts' \subseteq Entries /\ timer' \in Nat /\ lock' = Nobody
    BY <2>1, <2>2, TimerSet DEF UpdateTimeouts
  <2> QED
    BY <1>10, <2>3 DEF RemoveTimeout, submitters
<1>11. CASE NotifyCompletion
  BY <1>11 DEF NotifyCompletion, submitters
<1>12. CASE HandleTimeouts \/ ConsumeExpiration \/ LockToExpire
  BY <1>12 DEF HandleTimeouts, ConsumeExpiration, LockToExpire, submitters, Off, Times
<1>13. ASSUME NEW e \in timeouts, Expire(e) PROVE TypeOK'
  BY <1>13 DEF Expire, Discarded, submitters, event
<1>14. CASE EndExpire
  BY <1>14, TimerSet DEF EndExpire, UpdateTimeouts, submitters
<1>15. CASE Tick
  BY <1>15 DEF Tick, submitters, event, Times
<1> QED
  BY <1>1, <1>2, <1>3, <1>4, <1>5, <1>6, <1>7, <1>8, <1>9, <1>10, <1>11, <1>12, <1>13, <1>14, <1>15
     DEF Next, SubmitStep, EventStep

\* Every clock reading is a whole number of ticks, and so is the next one.
LEMMA NextTick == now \in Times /\ OnTick(now) /\ Tick => OnTick(now')
<1> SUFFICES ASSUME now \in Times, OnTick(now), Tick PROVE OnTick(now')
  OBVIOUS
<1>1. PICK k \in 0..now : now = TickSize * k
  BY DEF OnTick
<1>2. now' = TickSize * (k + 1)
  BY <1>1 DEF Tick, Times
<1>3. k + 1 \in 0..now'
  BY <1>1 DEF Tick, Times
<1> QED
  BY <1>2, <1>3 DEF OnTick

\* The threads that submit control transfers.
LEMMA SubmittersKeep ==
  ASSUME TimeoutsInv, NEW t \in Transfers,
         (\E d \in Timeouts : Start(t, d)) \/ SubmitStep(t) \/ TransferOver(t)
  PROVE  LockInv' /\ ReapedInv' /\ UrbInv' /\ EntryInv' /\ ClockInv'
<1> USE DEF TimeoutsInv, TypeOK, LockInv, ReapedInv, UrbInv, EntryInv, ClockInv
<1>1. ASSUME NEW d \in Timeouts, Start(t, d)
      PROVE  LockInv' /\ ReapedInv' /\ UrbInv' /\ EntryInv' /\ ClockInv'
  BY <1>1 DEF Start, event, Entries
<1>2. CASE LockToSubmit(t)
  BY <1>2 DEF LockToSubmit, event, Entries
<1>3. CASE SubmitUrb(t)
  BY <1>3 DEF SubmitUrb, event, Entries
<1>4. CASE InsertTimeout(t)
  BY <1>4 DEF InsertTimeout, UpdateTimeouts, event, Entries
<1>5. CASE TransferOver(t)
  BY <1>5 DEF TransferOver, event, Entries
<1> QED
  BY <1>1, <1>2, <1>3, <1>4, <1>5 DEF SubmitStep

\* The event thread on its way from a finished URB to its transfer.
LEMMA ReapingKeeps ==
  ASSUME TimeoutsInv, (\E t \in Transfers : Reap(t)) \/ LockToRemove \/ RemoveTimeout \/ NotifyCompletion
  PROVE  LockInv' /\ ReapedInv' /\ UrbInv' /\ EntryInv' /\ ClockInv'
<1> USE DEF TimeoutsInv, TypeOK, LockInv, ReapedInv, UrbInv, EntryInv, ClockInv
<1>1. ASSUME NEW t \in Transfers, Reap(t)
      PROVE  LockInv' /\ ReapedInv' /\ UrbInv' /\ EntryInv' /\ ClockInv'
  BY <1>1 DEF Reap, submitters, Entries
<1>2. CASE LockToRemove
  BY <1>2 DEF LockToRemove, submitters, Entries
<1>3. CASE RemoveTimeout
  <2>1. PICK t \in Transfers : reaped = {t}
    BY <1>3 DEF RemoveTimeout
  <2>2. timeouts' = Others(t) /\ lock' = Nobody
    BY <1>3, <2>1 DEF RemoveTimeout, UpdateTimeouts
  <2>3. \A e \in timeouts' : e.urb # t
    BY <2>2 DEF Others, Entries
  <2> QED
    BY <1>3, <2>1, <2>2, <2>3 DEF RemoveTimeout, Others, submitters, Entries
<1>4. CASE NotifyCompletion
  BY <1>4 DEF NotifyCompletion, submitters, Entries
<1> QED
  BY <1>1, <1>2, <1>3, <1>4

\* The event thread when the timerfd has fired.
LEMMA ExpiringKeeps ==
  ASSUME TimeoutsInv,
         \/ HandleTimeouts \/ ConsumeExpiration \/ LockToExpire \/ EndExpire
         \/ \E e \in timeouts : Expire(e)
  PROVE  LockInv' /\ ReapedInv' /\ UrbInv' /\ EntryInv' /\ ClockInv'
<1> USE DEF TimeoutsInv, TypeOK, LockInv, ReapedInv, UrbInv, EntryInv, ClockInv
<1>1. CASE HandleTimeouts
  BY <1>1 DEF HandleTimeouts, submitters, Entries, Times
<1>2. CASE ConsumeExpiration \/ LockToExpire
  BY <1>2 DEF ConsumeExpiration, LockToExpire, submitters, Entries
<1>3. ASSUME NEW e \in timeouts, Expire(e)
      PROVE  LockInv' /\ ReapedInv' /\ UrbInv' /\ EntryInv' /\ ClockInv'
  BY <1>3 DEF Expire, Discarded, submitters, event, Entries
<1>4. CASE EndExpire
  BY <1>4 DEF EndExpire, UpdateTimeouts, submitters, Entries
<1> QED
  BY <1>1, <1>2, <1>3, <1>4

\* The kernel and the clock.
LEMMA KernelKeeps ==
  ASSUME TimeoutsInv, (\E t \in Transfers : FinishUrb(t)) \/ Tick
  PROVE  LockInv' /\ ReapedInv' /\ UrbInv' /\ EntryInv' /\ ClockInv'
<1> USE DEF TimeoutsInv, TypeOK, LockInv, ReapedInv, UrbInv, EntryInv, ClockInv
<1>1. ASSUME NEW t \in Transfers, FinishUrb(t)
      PROVE  LockInv' /\ ReapedInv' /\ UrbInv' /\ EntryInv' /\ ClockInv'
  BY <1>1 DEF FinishUrb, submitters, event, Entries
<1>2. CASE Tick
  <2>1. now' \in Nat /\ now <= now' /\ OnTick(now')
    BY <1>2, NextTick DEF Tick, Times
  <2> QED
    BY <1>2, <2>1 DEF Tick, submitters, event, Times
<1> QED
  BY <1>1, <1>2

\* Every step of the threads, the kernel and the clock.
LEMMA TimeoutsStep == TimeoutsInv /\ [Next]_vars => TimeoutsInv'
<1> SUFFICES ASSUME TimeoutsInv, [Next]_vars PROVE TimeoutsInv'
  OBVIOUS
<1>1. TypeOK'
  BY TimeoutsTypes DEF TimeoutsInv
<1>2. LockInv' /\ ReapedInv' /\ UrbInv' /\ EntryInv' /\ ClockInv'
  <2>1. CASE UNCHANGED vars
    BY <2>1 DEF vars, submitters, event, TimeoutsInv, LockInv, ReapedInv, UrbInv, EntryInv, ClockInv
  <2>2. ASSUME NEW t \in Transfers, (\E d \in Timeouts : Start(t, d)) \/ SubmitStep(t) \/ TransferOver(t)
        PROVE  LockInv' /\ ReapedInv' /\ UrbInv' /\ EntryInv' /\ ClockInv'
    BY <2>2, SubmittersKeep
  <2>3. CASE EventStep
    BY <2>3, ReapingKeeps, ExpiringKeeps DEF EventStep
  <2>4. CASE Tick \/ \E t \in Transfers : FinishUrb(t)
    BY <2>4, KernelKeeps
  <2> QED
    BY <2>1, <2>2, <2>3, <2>4 DEF Next
<1> QED
  BY <1>1, <1>2 DEF TimeoutsInv

\* No timeout is a whole number of ticks, so none ends exactly when a clock is read.
LEMMA NeverEqual ==
  ASSUME TimeoutsInv, NeverExact, NEW t \in Transfers, spc[t] # "idle",
         NEW n \in Times, OnTick(n)
  PROVE  deadline[t] # n
<1> SUFFICES ASSUME deadline[t] = n PROVE FALSE
  OBVIOUS
<1>1. PICK d \in Timeouts : n = at[t] + d
  BY DEF TimeoutsInv, ClockInv
<1>2. at[t] \in Nat /\ d \in Nat
  BY DEF TimeoutsInv, TypeOK, Times
<1>3. PICK k \in 0..n : n = TickSize * k
  BY DEF OnTick
<1>4. PICK j \in 0..at[t] : at[t] = TickSize * j
  BY DEF TimeoutsInv, ClockInv, OnTick
<1>5. d = TickSize * (k - j)
  BY <1>1, <1>2, <1>3, <1>4 DEF Times
<1>6. k - j \in Int /\ k - j >= 0
  <2> SUFFICES ASSUME k - j < 0 PROVE FALSE
    BY <1>2, <1>3, <1>4 DEF Times
  <2>1. j - k >= 1
    BY <1>2, <1>3, <1>4 DEF Times
  <2>2. TickSize * (j - k) >= TickSize
    BY <2>1, <1>2, <1>3, <1>4 DEF Times
  <2> QED
    BY <2>2, <1>1, <1>2, <1>3, <1>4, <1>5 DEF Times
<1>7. k - j <= d
  BY <1>5, <1>6, <1>2
<1> QED
  BY <1>2, <1>5, <1>6, <1>7 DEF NeverExact, OnTick

\* A step sets the timer again when it changes the map, and handle_timeouts does when it
\* is done with the expiration that it consumed.
LEMMA CoverStep == TimeoutsInv /\ NeverExact /\ CoverInv /\ [Next]_vars => CoverInv'
<1> SUFFICES ASSUME TimeoutsInv, NeverExact, CoverInv, [Next]_vars PROVE CoverInv'
  OBVIOUS
<1> USE DEF CoverInv
<1>1. now \in Times /\ enow \in Times /\ OnTick(now) /\ OnTick(enow) /\ timeouts \subseteq Entries
  BY DEF TimeoutsInv, ClockInv, TypeOK
<1>2. ASSUME NEW n \in Times, OnTick(n), NEW e \in timeouts PROVE e.deadline # n
  <2>1. e.urb \in Transfers /\ spc[e.urb] # "idle" /\ deadline[e.urb] = e.deadline
    BY <1>1 DEF TimeoutsInv, EntryInv, Entries
  <2> QED
    BY <1>2, <2>1, NeverEqual
<1>3. CASE UNCHANGED vars
  BY <1>3 DEF vars, submitters, event
<1>4. ASSUME NEW t \in Transfers, NEW d \in Timeouts, Start(t, d) PROVE CoverInv'
  BY <1>4 DEF Start, event
<1>5. ASSUME NEW t \in Transfers, LockToSubmit(t) \/ SubmitUrb(t) \/ TransferOver(t) PROVE CoverInv'
  BY <1>5 DEF LockToSubmit, SubmitUrb, TransferOver, event
<1>6. ASSUME NEW t \in Transfers, InsertTimeout(t) PROVE CoverInv'
  <2>1. CASE urb[t] \in {"refused", "completed"}
    BY <1>6, <2>1 DEF InsertTimeout, event
  <2>2. CASE urb[t] \notin {"refused", "completed"}
    <3> DEFINE s == timeouts \union {[deadline |-> deadline[t], urb |-> t]}
    <3>1. UpdateTimeouts(s, at[t])
      BY <1>6, <2>2 DEF InsertTimeout
    <3>2. s \subseteq Entries /\ at[t] \in Times /\ OnTick(at[t]) /\ spc[t] # "idle"
      BY <1>6 DEF InsertTimeout, TimeoutsInv, ClockInv, TypeOK, Entries
    <3>3. \A e \in s : e.deadline # at[t]
      BY <3>2, <1>2, NeverEqual
    <3>4. s # {}
      OBVIOUS
    <3> HIDE DEF s
    <3> QED
      BY <1>1, <3>1, <3>2, <3>3, <3>4, TimerSet DEF UpdateTimeouts
  <2> QED
    BY <2>1, <2>2
<1>7. ASSUME NEW t \in Transfers, Reap(t) \/ FinishUrb(t) PROVE CoverInv'
  BY <1>7 DEF Reap, FinishUrb, submitters, event
<1>8. CASE LockToRemove \/ NotifyCompletion \/ HandleTimeouts \/ ConsumeExpiration \/ LockToExpire \/ Tick
  BY <1>8 DEF LockToRemove, NotifyCompletion, HandleTimeouts, ConsumeExpiration, LockToExpire, Tick,
              submitters, event, Off
<1>9. CASE RemoveTimeout
  <2>1. PICK t \in Transfers : UpdateTimeouts(Others(t), now)
    BY <1>9 DEF RemoveTimeout, TimeoutsInv, ReapedInv, TypeOK
  <2>2. Others(t) \subseteq timeouts
    BY DEF Others
  <2>3. \A e \in Others(t) : e.deadline # now
    BY <1>1, <1>2, <2>2
  <2> QED
    BY <1>1, <2>1, <2>2, <2>3, TimerSet DEF UpdateTimeouts
<1>10. ASSUME NEW e \in timeouts, Expire(e) PROVE CoverInv'
  BY <1>10 DEF Expire, event
<1>11. CASE EndExpire
  BY <1>1, <1>2, <1>11, TimerSet DEF EndExpire, UpdateTimeouts
<1> QED
  BY <1>3, <1>4, <1>5, <1>6, <1>7, <1>8, <1>9, <1>10, <1>11 DEF Next, SubmitStep, EventStep

\* What the invariants say of entries and of the timer.
LEMMA EntriesAreFresh == TimeoutsInv => NoStaleEntry /\ CompleteOnlyIfRefused
BY DEF TimeoutsInv, EntryInv, UrbInv, NoStaleEntry, CompleteOnlyIfRefused

\* Nobody has the mutex, so the event thread is not about to expire entries.
LEMMA TimerCovers == TimeoutsInv /\ CoverInv => TimerCoversTimeouts
<1> SUFFICES ASSUME TimeoutsInv, CoverInv, lock = Nobody, timeouts # {}
             PROVE  timer # Off \/ epc = "lockTimer"
  BY DEF TimerCoversTimeouts
<1> QED
  BY DEF TimeoutsInv, LockInv, CoverInv

\* Only an entry whose deadline has passed is removed by handle_timeouts.
LEMMA ExpiredIsDue ==
  ASSUME TimeoutsInv, [Next]_vars, NEW t \in Transfers, epc = "expire",
         NEW e \in timeouts, e.urb = t, e \notin timeouts'
  PROVE  deadline[t] <= now
<1>1. CASE UNCHANGED vars
  BY <1>1 DEF vars
<1>2. ASSUME NEW u \in Transfers, NEW d \in Timeouts, Start(u, d) PROVE FALSE
  BY <1>2 DEF Start
<1>3. ASSUME NEW u \in Transfers, SubmitStep(u) \/ TransferOver(u) \/ FinishUrb(u) PROVE FALSE
  BY <1>3 DEF SubmitStep, LockToSubmit, SubmitUrb, InsertTimeout, UpdateTimeouts, TransferOver, FinishUrb
<1>4. ASSUME NEW f \in timeouts, Expire(f) PROVE deadline[t] <= now
  <2>1. e = f /\ e.deadline <= enow
    BY <1>4 DEF Expire, Due
  <2>2. deadline[t] = e.deadline /\ enow <= now
    BY DEF TimeoutsInv, EntryInv, ClockInv
  <2> QED
    BY <2>1, <2>2 DEF TimeoutsInv, TypeOK, Times
<1>5. CASE EndExpire
  BY <1>5 DEF EndExpire, UpdateTimeouts
<1>6. ASSUME NEW u \in Transfers, Reap(u) PROVE FALSE
  BY <1>6 DEF Reap
<1>7. CASE LockToRemove \/ RemoveTimeout \/ NotifyCompletion \/ HandleTimeouts \/ ConsumeExpiration \/ LockToExpire
  BY <1>7 DEF LockToRemove, RemoveTimeout, NotifyCompletion, HandleTimeouts, ConsumeExpiration, LockToExpire
<1>8. CASE Tick
  BY <1>8 DEF Tick
<1> QED
  BY <1>1, <1>2, <1>3, <1>4, <1>5, <1>6, <1>7, <1>8 DEF Next, EventStep

-----------------------------------------------------------------------------
(* Hotplug watches: types                                                  *)

\* Events are of devices or of no interest.
LEMMA EventTypes ==
  /\ H!Other \in H!Events
  /\ \A d \in Devices : H!Arrival(d) \in H!Events /\ H!Removal(d) \in H!Events
  /\ \A e \in H!Events : e.kind = "add" => e.dev \in Devices
<1>1. ASSUME NEW e \in H!Events, e.kind = "add" PROVE e.dev \in Devices
  <2>1. CASE \E d \in Devices : e = H!Arrival(d)
    BY <2>1 DEF H!Arrival
  <2>2. CASE \E d \in Devices : e = H!Removal(d)
    <3>1. e.kind = "remove"
      BY <2>2 DEF H!Removal
    <3> QED
      BY <1>1, <3>1
  <2>3. CASE e = H!Other
    <3>1. e.kind = "other"
      BY <2>3 DEF H!Other
    <3> QED
      BY <1>1, <3>1
  <2> QED
    BY <1>1, <2>1, <2>2, <2>3 DEF H!Events
<1>2. H!Other \in H!Events
  BY DEF H!Events
<1>3. \A d \in Devices : H!Arrival(d) \in H!Events /\ H!Removal(d) \in H!Events
  BY DEF H!Events
<1> QED
  BY <1>1, <1>2, <1>3

\* The OS has an event for the watch.
LEMMA HappensTypes ==
  ASSUME H!TypeOK, NEW e \in H!Events, H!Happens(e)
  PROVE  /\ raw' \in Seq(H!Events) /\ matched' \in Seq(H!Events)
         /\ callback' \in BOOLEAN /\ armed' \subseteq {"socket", "matched", "terminated"}
<1>1. CASE hpc = "none"
  BY <1>1 DEF H!Happens, H!TypeOK
<1>2. CASE hpc # "none"
  <2>1. raw' \in Seq(H!Events) /\ matched' \in Seq(H!Events)
    <3>1. Append(raw, e) \in Seq(H!Events) /\ Append(matched, e) \in Seq(H!Events)
      BY DEF H!TypeOK
    <3> QED
      BY <1>2, <3>1 DEF H!Happens, H!TypeOK
  <2>2. armed' \subseteq {"socket", "matched", "terminated"}
    BY <1>2 DEF H!Happens, H!TypeOK
  <2>3. callback' \in BOOLEAN
    BY <1>2 DEF H!Happens, H!TypeOK
  <2> QED
    BY <2>1, <2>2, <2>3
<1> QED
  BY <1>1, <1>2

\* What the task does: it delivers an event, returns Pending or goes on.
TaskTyped ==
  /\ known \subseteq Devices /\ stalled \in BOOLEAN /\ missed \in BOOLEAN /\ hevent \in H!Events
  /\ hpc \in {"list", "idle", "poll", "pop", "probe", "terminated", "register", "arm", "none"}

\* Each of them keeps the types.
LEMMA TaskTypes ==
  ASSUME H!TypeOK
  PROVE  /\ \A e \in H!Events : H!Deliver(e) => TaskTyped'
         /\ \A b \in BOOLEAN : H!Pend(b) /\ missed' \in BOOLEAN => TaskTyped'
         /\ H!Sleep => TaskTyped'
         /\ \A e \in H!Events :
              \A p \in {"pop", "probe", "terminated", "register", "arm"} : H!GoOn(p, e) => TaskTyped'
<1> USE EventTypes DEF TaskTyped
<1>1. ASSUME NEW e \in H!Events, H!Deliver(e) PROVE TaskTyped'
  <2>1. known' \subseteq Devices
    BY <1>1 DEF H!Deliver, H!TypeOK
  <2> QED
    BY <1>1, <2>1 DEF H!Deliver, H!TypeOK
<1>2. ASSUME NEW b \in BOOLEAN, H!Pend(b), missed' \in BOOLEAN PROVE TaskTyped'
  BY <1>2 DEF H!Pend, H!TypeOK
<1>3. H!Sleep => TaskTyped'
  BY <1>2 DEF H!Sleep, H!TypeOK
<1>4. ASSUME NEW e \in H!Events, NEW p \in {"pop", "probe", "terminated", "register", "arm"}, H!GoOn(p, e)
      PROVE  TaskTyped'
  BY <1>4 DEF H!GoOn, H!TypeOK
<1> QED
  BY <1>1, <1>2, <1>3, <1>4

\* Devices come and go.
LEMMA PlugTypes ==
  ASSUME H!TypeOK, (\E d \in Devices : H!Plug(d) \/ H!Unplug(d)) \/ H!OtherUevent
  PROVE  H!TypeOK'
<1>1. PICK e \in H!Events : H!Happens(e)
  BY EventTypes DEF H!Plug, H!Unplug, H!OtherUevent
<1>2. /\ raw' \in Seq(H!Events) /\ matched' \in Seq(H!Events)
      /\ callback' \in BOOLEAN /\ armed' \subseteq {"socket", "matched", "terminated"}
  BY <1>1, HappensTypes
<1>3. /\ plugs' \in 0..MaxPlugs /\ connected' \subseteq Devices /\ fresh' \subseteq Devices
      /\ UNCHANGED <<platform, events, waker, woken, hpc, hevent, known, stalled, missed>>
  <2>1. ASSUME NEW d \in Devices, H!Plug(d) \/ H!Unplug(d)
        PROVE  <1>3!:
    BY <2>1, WatchAssumption DEF H!TypeOK, H!Plug, H!Unplug, H!task
  <2>2. CASE H!OtherUevent
    BY <2>2, WatchAssumption DEF H!TypeOK, H!OtherUevent, H!task
  <2> QED
    BY <2>1, <2>2
<1> QED
  BY <1>2, <1>3 DEF H!TypeOK

\* The OS and its callbacks.
LEMMA WakingTypes ==
  ASSUME H!TypeOK, H!EpollReady \/ H!CallbackQueues \/ H!ListenerQueues \/ H!Wake
  PROVE  H!TypeOK'
<1> USE DEF H!TypeOK
<1>1. CASE H!EpollReady
  BY <1>1 DEF H!EpollReady, H!os, H!task
<1>2. raw # <<>> => Tail(raw) \in Seq(H!Events) /\ Append(events, Head(raw)) \in Seq(H!Events)
  OBVIOUS
<1>3. CASE H!CallbackQueues
  <2>1. raw' \in Seq(H!Events) /\ events' \in Seq(H!Events) /\ callback' \in BOOLEAN
    BY <1>2, <1>3 DEF H!CallbackQueues
  <2> QED
    BY <1>3, <2>1 DEF H!CallbackQueues, H!os, H!task
<1>4. CASE H!ListenerQueues
  <2>1. raw' \in Seq(H!Events) /\ events' \in Seq(H!Events)
    BY <1>2, <1>4 DEF H!ListenerQueues
  <2>2. waker' \in BOOLEAN /\ woken' \in BOOLEAN
    BY <1>4 DEF H!ListenerQueues
  <2> QED
    BY <1>4, <2>1, <2>2 DEF H!ListenerQueues, H!os, H!task
<1>5. CASE H!Wake
  BY <1>5 DEF H!Wake, H!os, H!task
<1> QED
  BY <1>1, <1>3, <1>4, <1>5

\* TypeOK is what TaskTyped leaves out, with it.
LEMMA SameTypes ==
  ASSUME TaskTyped', platform' \in Platforms, connected' \subseteq Devices, fresh' \subseteq Devices,
         plugs' \in 0..MaxPlugs, armed' \subseteq {"socket", "matched", "terminated"},
         raw' \in Seq(H!Events), matched' \in Seq(H!Events), events' \in Seq(H!Events),
         waker' \in BOOLEAN, callback' \in BOOLEAN, woken' \in BOOLEAN
  PROVE  H!TypeOK'
BY DEF TaskTyped, H!TypeOK

\* Heads and tails of the queues.
LEMMA QueueTypes ==
  ASSUME NEW q \in Seq(H!Events), q # <<>>
  PROVE  Head(q) \in H!Events /\ Tail(q) \in Seq(H!Events)
OBVIOUS

\* The task and what it polls.
LEMMA PollTypes == H!TypeOK /\ H!PollInv /\ (H!TaskStep \/ H!DropWatch) => H!TypeOK'
<1> SUFFICES ASSUME H!TypeOK, H!PollInv, H!TaskStep \/ H!DropWatch PROVE H!TypeOK'
  OBVIOUS
<1>0. H!Other \in H!Events
  BY EventTypes
<1>1. CASE H!List \/ H!TaskWoken
  BY <1>1 DEF H!List, H!TaskWoken, H!os, H!watch, H!TypeOK
<1>2. CASE H!Poll
  <2>1. TaskTyped'
    BY <1>0, <1>2, TaskTypes DEF H!Poll
  <2>2. waker' \in BOOLEAN
    BY <1>2 DEF H!Poll
  <2> QED
    BY <1>2, <2>1, <2>2, SameTypes DEF H!Poll, H!os, H!TypeOK
<1>3. CASE H!PollWebusb
  <2>1. TaskTyped' /\ events' \in Seq(H!Events) /\ waker' \in BOOLEAN
    <3>1. CASE events = <<>>
      BY <1>3, <3>1, TaskTypes DEF H!PollWebusb, H!TypeOK
    <3>2. CASE events # <<>>
      BY <1>3, <3>2, TaskTypes, QueueTypes DEF H!PollWebusb, H!TypeOK
    <3> QED
      BY <3>1, <3>2
  <2> QED
    BY <1>3, <2>1, SameTypes DEF H!PollWebusb, H!os, H!TypeOK
<1>4. CASE H!Receive
  <2>1. TaskTyped' /\ raw' \in Seq(H!Events)
    <3>1. CASE raw = <<>>
      BY <1>0, <1>4, <3>1, TaskTypes DEF H!Receive, H!TypeOK
    <3>2. CASE raw # <<>>
      <4> DEFINE e == Head(raw)
      <4>1. e \in H!Events /\ raw' \in Seq(H!Events)
        BY <1>4, <3>2, QueueTypes DEF H!Receive, H!TypeOK
      <4>2. H!GoOn("probe", e) \/ H!Deliver(e) \/ H!GoOn("register", H!Other)
        BY <1>4, <3>2 DEF H!Receive
      <4> QED
        BY <1>0, <4>1, <4>2, TaskTypes
    <3> QED
      BY <3>1, <3>2
  <2> QED
    BY <1>4, <2>1, SameTypes DEF H!Receive, H!os, H!watch, H!TypeOK
<1>5. CASE H!Register
  <2>1. TaskTyped'
    BY <1>0, <1>5, TaskTypes DEF H!Register
  <2> QED
    BY <1>5, <2>1, SameTypes DEF H!Register, H!os, H!TypeOK
<1>6. CASE H!Arm
  <2>1. TaskTyped'
    BY <1>6, TaskTypes DEF H!Arm
  <2> QED
    BY <1>6, <2>1, SameTypes DEF H!Arm, H!os, H!TypeOK
<1>7. CASE H!PopEvent
  <2>1. TaskTyped' /\ events' \in Seq(H!Events)
    <3>1. CASE events = <<>>
      BY <1>7, <3>1, TaskTypes DEF H!PopEvent, H!TypeOK
    <3>2. CASE events # <<>>
      BY <1>7, <3>2, TaskTypes, QueueTypes DEF H!PopEvent, H!TypeOK
    <3> QED
      BY <3>1, <3>2
  <2> QED
    BY <1>7, <2>1, SameTypes DEF H!PopEvent, H!os, H!TypeOK
<1>8. CASE H!NextMatched
  <2>1. TaskTyped' /\ matched' \in Seq(H!Events) /\ armed' \subseteq {"socket", "matched", "terminated"}
    <3>1. CASE matched = <<>>
      BY <1>0, <1>8, <3>1, TaskTypes DEF H!NextMatched, H!TypeOK
    <3>2. CASE matched # <<>>
      BY <1>8, <3>2, TaskTypes, QueueTypes DEF H!NextMatched, H!TypeOK
    <3> QED
      BY <3>1, <3>2
  <2> QED
    BY <1>8, <2>1, SameTypes DEF H!NextMatched, H!os, H!TypeOK
<1>9. CASE H!NextTerminated
  <2>1. TaskTyped' /\ raw' \in Seq(H!Events) /\ armed' \subseteq {"socket", "matched", "terminated"}
    <3>1. CASE raw = <<>>
      BY <1>9, <3>1, TaskTypes DEF H!NextTerminated, H!TypeOK
    <3>2. CASE raw # <<>>
      BY <1>9, <3>2, TaskTypes, QueueTypes DEF H!NextTerminated, H!TypeOK
    <3> QED
      BY <3>1, <3>2
  <2> QED
    BY <1>9, <2>1, SameTypes DEF H!NextTerminated, H!os, H!TypeOK
<1>10. CASE H!Probe
  <2>1. TaskTyped'
    <3>1. hevent \in H!Events /\ missed \in BOOLEAN
      BY DEF H!TypeOK
    <3>2. \/ H!Deliver(hevent) \/ H!GoOn("register", H!Other) \/ H!GoOn("pop", H!Other)
          \/ H!Pend(TRUE) /\ UNCHANGED missed
      <4>1. platform \in {"linux", "macos", "windows"}
        BY <1>10, WatchAssumption DEF H!Probe, H!PollInv, H!TypeOK
      <4> QED
        BY <1>10, <4>1 DEF H!Probe
    <3> QED
      BY <1>0, <3>1, <3>2, TaskTypes
  <2> QED
    BY <1>10, <2>1, SameTypes DEF H!Probe, H!os, H!watch, H!TypeOK
<1>11. CASE H!DropWatch
  <2>1. <<>> \in Seq(H!Events)
    OBVIOUS
  <2>2. TaskTyped'
    BY <1>11 DEF H!DropWatch, H!TypeOK, TaskTyped
  <2> QED
    BY <1>11, <2>1, <2>2, SameTypes DEF H!DropWatch, H!os, H!TypeOK
<1> QED
  BY <1>1, <1>2, <1>3, <1>4, <1>5, <1>6, <1>7, <1>8, <1>9, <1>10, <1>11 DEF H!TaskStep

\* The platform stays, and on WebUSB nothing leads into the middle of poll_next.
LEMMA PollStep == H!PollInv /\ H!Next => H!PollInv'
<1> SUFFICES ASSUME H!PollInv, H!Next PROVE H!PollInv'
  OBVIOUS
<1> USE DEF H!PollInv
<1>1. ASSUME NEW d \in Devices, H!Plug(d) \/ H!Unplug(d) PROVE H!PollInv'
  BY <1>1 DEF H!Plug, H!Unplug, H!task
<1>2. CASE H!OtherUevent \/ H!EpollReady \/ H!CallbackQueues \/ H!ListenerQueues \/ H!Wake
  BY <1>2 DEF H!OtherUevent, H!EpollReady, H!CallbackQueues, H!ListenerQueues, H!Wake, H!task
<1>3. CASE H!List \/ H!TaskWoken \/ H!Poll \/ H!PollWebusb \/ H!DropWatch
  BY <1>3 DEF H!List, H!TaskWoken, H!Poll, H!PollWebusb, H!DropWatch, H!Deliver, H!Sleep, H!Pend, H!GoOn
<1>4. CASE H!Receive \/ H!Register \/ H!Arm \/ H!PopEvent \/ H!NextMatched \/ H!NextTerminated \/ H!Probe
  <2>1. platform' = platform /\ platform # "webusb"
    BY <1>4 DEF H!Receive, H!Register, H!Arm, H!PopEvent, H!NextMatched, H!NextTerminated, H!Probe
  <2> QED
    BY <2>1
<1> QED
  BY <1>1, <1>2, <1>3, <1>4 DEF H!Next, H!TaskStep

\* A watch is new.
LEMMA WatchStart == H!Init => H!TypeOK /\ H!PollInv
<1> SUFFICES ASSUME H!Init PROVE H!TypeOK /\ H!PollInv
  OBVIOUS
<1>1. /\ TaskTyped /\ H!PollInv
      /\ raw \in Seq(H!Events) /\ matched \in Seq(H!Events) /\ events \in Seq(H!Events)
  <2>1. hevent \in H!Events /\ hpc = "list" /\ known = {} /\ stalled = FALSE /\ missed = FALSE
    BY EventTypes DEF H!Init
  <2>2. raw = <<>> /\ matched = <<>> /\ events = <<>>
    BY DEF H!Init
  <2>3. <<>> \in Seq(H!Events)
    OBVIOUS
  <2>4. TaskTyped /\ H!PollInv
    BY <2>1 DEF TaskTyped, H!PollInv
  <2> QED
    BY <2>2, <2>3, <2>4
<1>2. /\ platform \in Platforms /\ connected \subseteq Devices /\ fresh \subseteq Devices
      /\ plugs \in 0..MaxPlugs /\ armed \subseteq {"socket", "matched", "terminated"}
      /\ waker \in BOOLEAN /\ callback \in BOOLEAN /\ woken \in BOOLEAN
  <2>1. armed \subseteq {"socket", "matched", "terminated"}
    BY DEF H!Init
  <2>2. waker \in BOOLEAN /\ callback \in BOOLEAN /\ woken \in BOOLEAN
    BY DEF H!Init
  <2> QED
    BY <2>1, <2>2, WatchAssumption DEF H!Init
<1> QED
  BY <1>1, <1>2 DEF TaskTyped, H!TypeOK

\* Every step of the OS, its callbacks and the task.
LEMMA WatchStep == H!TypeOK /\ H!PollInv /\ H!Next => H!TypeOK' /\ H!PollInv'
BY PlugTypes, WakingTypes, PollTypes, PollStep DEF H!Next

-----------------------------------------------------------------------------
(* The programs together                                                   *)

\* The invariants of the three modules; each program keeps its own, and leaves the
\* rest as it is initially.
CallbacksInv == TimeoutsInv /\ W!ControlInv /\ H!TypeOK /\ H!PollInv

\* A step of one of them is a step of all others, or none.
LEMMA ProgramStep ==
  ASSUME [MCNext]_all
  PROVE  /\ [Next]_vars
         /\ [W!ControlNext]_windows
         /\ H!Next \/ UNCHANGED hotplug
BY DEF MCNext, all, OnLinux, OnWindows, Watching

\* TypeOK and PollInv of a watch that is left alone.
LEMMA WatchUnchanged == H!TypeOK /\ H!PollInv /\ UNCHANGED hotplug => H!TypeOK' /\ H!PollInv'
BY DEF hotplug, H!TypeOK, H!PollInv

\* The inductive invariant of programs with control transfers on Linux or Windows, or
\* with a watch: for any transfers, timeouts and devices.
THEOREM SpecCallbacksInv == MCSpec => []CallbacksInv
<1>1. MCInit => CallbacksInv
  BY TimeoutsStart, ControlStart, WatchStart DEF MCInit, CallbacksInv
<1>2. CallbacksInv /\ [MCNext]_all => CallbacksInv'
  BY ProgramStep, TimeoutsStep, ControlStep, WatchStep, WatchUnchanged DEF CallbacksInv
<1> QED
  BY <1>1, <1>2, PTL DEF MCSpec

\* All state has its type.
THEOREM SpecCallbacksTypeOK == MCSpec => []CallbacksTypeOK
<1>1. CallbacksInv => CallbacksTypeOK
  BY DEF CallbacksInv, CallbacksTypeOK, TimeoutsInv, W!ControlInv
<1> QED
  BY <1>1, SpecCallbacksInv, PTL

\* handle_timeouts discards no URB before its deadline, whatever happens between its
\* reading of the clock and its locking of the map.
THEOREM SpecNeverEarly == MCSpec => NeverEarly
<1>1. CallbacksInv /\ [MCNext]_all =>
        [\A t \in Transfers :
           epc = "expire" /\ (\E e \in timeouts : e.urb = t /\ e \notin timeouts')
             => deadline[t] <= now]_vars
  BY ProgramStep, ExpiredIsDue DEF CallbacksInv
<1> QED
  BY <1>1, SpecCallbacksInv, PTL DEF MCSpec, NeverEarly

\* What refers to a transfer by its address never outlives it: an entry of the map on
\* Linux, a timer and its callback on Windows.
THEOREM SpecNoneOutlives ==
  MCSpec => [](NoStaleEntry /\ CompleteOnlyIfRefused /\ W!TimerReferencesPending /\ W!NoStrayTimer)
<1>1. CallbacksInv =>
        NoStaleEntry /\ CompleteOnlyIfRefused /\ W!TimerReferencesPending /\ W!NoStrayTimer
  BY EntriesAreFresh DEF CallbacksInv, W!ControlInv
<1> QED
  BY <1>1, SpecCallbacksInv, PTL

\* ... and what should end it is there as long as it is needed, when no deadline is
\* equal to a clock reading: then update_timeouts never disarms the timer by mistake.
THEOREM SpecNothingStale ==
  ASSUME NeverExact
  PROVE  MCSpec => []NothingStale
<1>1. MCInit => CoverInv
  BY TimeoutsStart DEF MCInit
<1>2. CallbacksInv /\ CoverInv /\ [MCNext]_all => CoverInv'
  BY ProgramStep, CoverStep DEF CallbacksInv
<1>3. CallbacksInv /\ CoverInv => NothingStale
  BY EntriesAreFresh, TimerCovers DEF CallbacksInv, W!ControlInv, NothingStale
<1> QED
  BY <1>1, <1>2, <1>3, SpecCallbacksInv, PTL DEF MCSpec
=============================================================================
