------------------------ MODULE TransferBlockingProofs ------------------------
(***************************************************************************)
(* Proofs about TransferBlocking, for any transfers and buffers.           *)
(*                                                                         *)
(* The hand-over of the transfer is that of TransferHandshakeProofs, whose *)
(* invariant says who has a transfer; OneTransfer says that the program    *)
(* has a handle to at most one that is pending, and abandons none.  What   *)
(* the program does not wait for any more is then not with the kernel.     *)
(***************************************************************************)
EXTENDS TransferBlocking, TLAPS

-----------------------------------------------------------------------------
(* The hand-over                                                           *)

\* The hand-over of the program's transfer, with the lemmas proved about it.
HP == INSTANCE TransferHandshakeProofs WITH EventThreads <- {EventThread}

\* The hand-over of LinuxEndpoint is that of TransferHandshakeProofs.
LEMMA SameHandshake == H!IInv <=> HP!IInv
BY DEF H!IInv, HP!IInv, H!TypeOK, HP!TypeOK, H!NoDanglingPointer, HP!NoDanglingPointer,
  H!ExclusiveAccess, HP!ExclusiveAccess, H!NoOrphan, HP!NoOrphan, H!NoPanic, HP!NoPanic,
  H!CallInv, HP!CallInv, H!HandlerInv, HP!HandlerInv, H!Out, HP!Out, H!UserOwns, HP!UserOwns,
  H!Submitting, HP!Submitting, H!Engaged, HP!Engaged, H!Threads, HP!Threads, H!States, HP!States,
  H!NotifyStates, HP!NotifyStates, H!Registrations, HP!Registrations

\* No transfer has been handed over yet.
LEMMA HandshakeStart == H!Init => H!IInv
<1>1. HP!UserAssumption /\ HP!NoTransferAssumption
  BY BlockingAssumption DEF HP!UserAssumption, HP!NoTransferAssumption
<1>2. H!Init => HP!Init
  BY DEF H!Init, HP!Init, H!Threads, HP!Threads
<1> QED
  BY <1>1, <1>2, SameHandshake, HP!InitIInv

\* See SameHandshake.
LEMMA SameStep == [H!Next]_(H!vars) <=> [HP!Next]_(HP!vars)
<1> USE DEF H!vars, HP!vars, H!user, HP!user, H!handlers, HP!handlers, H!Return, HP!Return,
            H!HaveIdle, HP!HaveIdle, H!IsComplete, HP!IsComplete
<1>1. H!vars' = H!vars <=> HP!vars' = HP!vars
  OBVIOUS
<1>2. ASSUME NEW t \in Transfers PROVE H!Handles(t) <=> HP!Handles(t)
  BY DEF H!Handles, HP!Handles, H!PreSubmit, HP!PreSubmit, H!SimulateComplete, HP!SimulateComplete,
     H!DropIdle, HP!DropIdle, H!DropPending, HP!DropPending, H!FreedByDrop, HP!FreedByDrop
<1>3. ASSUME NEW t \in Transfers, NEW m PROVE H!StartWait(t, m) <=> HP!StartWait(t, m)
  BY DEF H!StartWait, HP!StartWait
<1>4. H!CallStep <=> HP!CallStep
  BY DEF H!CallStep, HP!CallStep, H!SubmitOk, HP!SubmitOk, H!SubmitErr, HP!SubmitErr,
     H!SubmitReturn, HP!SubmitReturn, H!Subscribe, HP!Subscribe, H!Registration, HP!Registration,
     H!CheckComplete, HP!CheckComplete, H!CheckPending, HP!CheckPending, H!TimeIsUp, HP!TimeIsUp
<1>5. /\ H!Expire <=> HP!Expire
      /\ H!Unpark <=> HP!Unpark
      /\ H!SpuriousUnpark <=> HP!SpuriousUnpark
      /\ H!TaskWoken <=> HP!TaskWoken
      /\ H!TaskMovesOn <=> HP!TaskMovesOn
  BY DEF H!Expire, HP!Expire, H!Unpark, HP!Unpark, H!SpuriousUnpark, HP!SpuriousUnpark,
     H!TaskWoken, HP!TaskWoken, H!TaskMovesOn, HP!TaskMovesOn
<1>6. ASSUME NEW h, NEW t PROVE H!Reap(h, t) <=> HP!Reap(h, t)
  BY DEF H!Reap, HP!Reap
<1>7. ASSUME NEW h PROVE H!HandlerStep(h) <=> HP!HandlerStep(h)
  BY DEF H!HandlerStep, HP!HandlerStep, H!TakeNotifyState, HP!TakeNotifyState, H!SwapIdle, HP!SwapIdle,
     H!AfterSwap, HP!AfterSwap, H!Wake, HP!Wake, H!Given, HP!Given, H!Free, HP!Free
<1>8. H!Threads = HP!Threads
  BY DEF H!Threads, HP!Threads
<1>9. H!Next <=> HP!Next
  BY <1>2, <1>3, <1>4, <1>5, <1>6, <1>7, <1>8 DEF H!Next, HP!Next
<1> QED
  BY <1>1, <1>9

\* A step of the hand-over keeps its invariant, see IInvStep.
LEMMA HandshakeStep == H!IInv /\ [H!Next]_(H!vars) => H!IInv'
<1>1. HP!UserAssumption /\ HP!NoTransferAssumption
  BY BlockingAssumption DEF HP!UserAssumption, HP!NoTransferAssumption
<1>2. (H!IInv <=> HP!IInv)'
  BY SameHandshake, PTL
<1>3. HP!IInv /\ [HP!Next]_(HP!vars) => HP!IInv'
  BY <1>1, HP!IInvStep
<1> QED
  BY <1>2, <1>3, SameHandshake, SameStep


-----------------------------------------------------------------------------
(* The URBs of the kernel                                                  *)

\* What is left of a sequence without one of its elements.
LEMMA Removed ==
  ASSUME NEW S, NEW s \in Seq(S), NEW i \in 1..Len(s)
  PROVE  /\ RemoveAt(s, i) \in Seq(S) /\ Len(RemoveAt(s, i)) = Len(s) - 1
         /\ \A j \in 1..(Len(s) - 1) : RemoveAt(s, i)[j] = IF j < i THEN s[j] ELSE s[j + 1]
<1> DEFINE a == SubSeq(s, 1, i - 1)
           b == SubSeq(s, i + 1, Len(s))
<1>1. a \in Seq(S) /\ Len(a) = i - 1 /\ \A j \in 1..(i - 1) : a[j] = s[j]
  OBVIOUS
<1>2. b \in Seq(S) /\ Len(b) = Len(s) - i /\ \A j \in 1..(Len(s) - i) : b[j] = s[j + i]
  OBVIOUS
<1>3. RemoveAt(s, i) = a \o b
  BY DEF RemoveAt
<1> HIDE DEF a, b
<1>4. a \o b \in Seq(S)
  BY ONLY <1>1, <1>2
<1>5. Len(a \o b) = Len(a) + Len(b)
  <2>1. a \in Seq(S) /\ b \in Seq(S)
    BY <1>1, <1>2
  <2> QED
    BY ONLY <2>1
<1>6. Len(a \o b) = Len(s) - 1
  BY <1>1, <1>2, <1>5
<1>7. ASSUME NEW j \in 1..(Len(s) - 1) PROVE (a \o b)[j] = IF j < i THEN s[j] ELSE s[j + 1]
  <2>1. CASE j < i
    BY <1>1, <1>2, <2>1
  <2>2. CASE ~(j < i)
    <3>1. (a \o b)[j] = b[j - (i - 1)]
      BY <1>1, <1>2, <2>2
    <3>2. j - (i - 1) \in 1..(Len(s) - i)
      BY <2>2
    <3> QED
      BY <1>2, <3>1, <3>2, <2>2
  <2> QED
    BY <2>1, <2>2
<1> QED
  BY <1>3, <1>4, <1>6, <1>7

\* A URB that leaves the schedule, finished or discarded, stays with the kernel until it is
\* reaped.
LEMMA StaysInKernel ==
  ASSUME SequencesInv, NEW i \in DOMAIN active, NEW s \in Statuses,
         active' = RemoveAt(active, i), done' = Append(done, [urb |-> active[i], status |-> s])
  PROVE  /\ kernel' = kernel
         /\ active' \in Seq(Transfers) /\ done' \in Seq([urb : Transfers, status : Statuses])
<1> DEFINE R == [urb : Transfers, status : Statuses]
           e == [urb |-> active[i], status |-> s]
<1>1. active \in Seq(Transfers) /\ done \in Seq(R) /\ i \in 1..Len(active)
  BY DEF SequencesInv
<1>2. active[i] \in Transfers
  BY <1>1
<1>3. e \in R /\ e.urb = active[i]
  BY <1>2
<1>4. done' = Append(done, e)
  OBVIOUS
<1> HIDE DEF R, e
<1>5. /\ done' \in Seq(R) /\ Len(done') = Len(done) + 1
      /\ \A j \in 1..Len(done) : done'[j] = done[j]
      /\ done'[Len(done) + 1] = e
  BY <1>1, <1>3, <1>4
<1>6. /\ active' \in Seq(Transfers) /\ Len(active') = Len(active) - 1
      /\ \A j \in 1..(Len(active) - 1) : active'[j] = IF j < i THEN active[j] ELSE active[j + 1]
  BY <1>1, Removed
<1>7. Len(active) \in Nat /\ Len(done) \in Nat /\ DOMAIN active = 1..Len(active) /\ DOMAIN done = 1..Len(done)
  BY <1>1
<1>8. DOMAIN active' = 1..(Len(active) - 1) /\ DOMAIN done' = 1..(Len(done) + 1)
  BY <1>5, <1>6
<1>9. DoneUrbs' = DoneUrbs \union {active[i]}
  BY <1>3, <1>5, <1>7, <1>8 DEF DoneUrbs
<1>10. ActiveUrbs' \subseteq ActiveUrbs
  <2>1. ASSUME NEW j \in DOMAIN active' PROVE \E k \in DOMAIN active : active'[j] = active[k]
    <3>1. CASE j < i
      <4>1. j \in DOMAIN active /\ active'[j] = active[j]
        BY <1>1, <1>6, <1>7, <1>8, <3>1
      <4> QED
        BY <4>1
    <3>2. CASE ~(j < i)
      <4>1. j + 1 \in DOMAIN active /\ active'[j] = active[j + 1]
        BY <1>1, <1>6, <1>7, <1>8, <3>2
      <4> QED
        BY <4>1
    <3> QED
      BY <3>1, <3>2
  <2> QED
    BY <2>1 DEF ActiveUrbs
<1>11. ActiveUrbs \subseteq ActiveUrbs' \union {active[i]} /\ active[i] \in ActiveUrbs
  <2>1. ASSUME NEW k \in DOMAIN active \ {i} PROVE \E j \in DOMAIN active' : active'[j] = active[k]
    <3>1. CASE k < i
      <4>1. k \in DOMAIN active' /\ active'[k] = active[k]
        BY <1>1, <1>6, <1>7, <1>8, <3>1
      <4> QED
        BY <4>1
    <3>2. CASE ~(k < i)
      <4>1. k - 1 \in DOMAIN active' /\ ~(k - 1 < i) /\ (k - 1) + 1 = k
        BY <1>1, <1>7, <1>8, <2>1, <3>2
      <4>2. active'[k - 1] = active[k]
        BY <1>6, <1>8, <4>1
      <4> QED
        BY <4>1, <4>2
    <3> QED
      BY <3>1, <3>2
  <2> QED
    BY <2>1 DEF ActiveUrbs
<1> QED
  BY <1>5, <1>6, <1>9, <1>10, <1>11 DEF kernel, R

\* The oldest URB of the schedule ends, or the one that cancel_all visits.
LEMMA KernelKeeps ==
  ASSUME SequencesInv, Cancel \/ \E s \in {"ok", "error"} : FinishUrb(s)
  PROVE  /\ kernel' = kernel
         /\ active' \in Seq(Transfers) /\ done' \in Seq([urb : Transfers, status : Statuses])
<1>1. CASE Cancel
  <2>1. CASE UNCHANGED <<active, done>>
    BY <2>1 DEF SequencesInv, kernel, DoneUrbs, ActiveUrbs
  <2>2. CASE \E i \in DOMAIN active :
               active' = RemoveAt(active, i) /\ done' = Append(done, [urb |-> active[i], status |-> "cancelled"])
    BY <2>2, StaysInKernel DEF Statuses
  <2> QED
    BY <1>1, <2>1, <2>2 DEF Cancel
<1>2. ASSUME NEW s \in {"ok", "error"}, FinishUrb(s)
      PROVE  kernel' = kernel /\ active' \in Seq(Transfers) /\ done' \in Seq([urb : Transfers, status : Statuses])
  <2>1. active # <<>> /\ active \in Seq(Transfers)
    BY <1>2 DEF FinishUrb, SequencesInv
  <2>2. 1 \in DOMAIN active /\ Head(active) = active[1]
    BY <2>1
  <2>3. RemoveAt(active, 1) = Tail(active)
    <3>1. SubSeq(active, 1, 0) = <<>> /\ SubSeq(active, 2, Len(active)) = Tail(active) /\ Tail(active) \in Seq(Transfers)
      BY <2>1
    <3>2. <<>> \o Tail(active) = Tail(active)
      BY <3>1
    <3> QED
      BY <3>1, <3>2 DEF RemoveAt
  <2> QED
    BY <1>2, <2>2, <2>3, StaysInKernel DEF FinishUrb, Statuses
<1> QED
  BY <1>1, <1>2

\* The kernel has one URB more when it accepts one, and one less when it is reaped.
LEMMA SequencesKept ==
  ASSUME SequencesInv,
         pending' \in {pending, <<>>} \/ \E t \in Transfers : pending' = Append(pending, t),
         active' = active \/ (\E t \in Transfers : active' = Append(active, t)) \/ active' \in Seq(Transfers),
         \/ done' = done \/ (done # <<>> /\ done' = Tail(done))
         \/ done' \in Seq([urb : Transfers, status : Statuses]),
         idle_transfer' \in Transfers \union {NoTransfer}, displaced' \in Transfers \union {NoTransfer}
  PROVE  SequencesInv'
<1> DEFINE R == [urb : Transfers, status : Statuses]
<1>1. pending \in Seq(Transfers) /\ active \in Seq(Transfers) /\ done \in Seq(R)
  BY DEF SequencesInv
<1>2. done' = done \/ (done # <<>> /\ done' = Tail(done)) \/ done' \in Seq(R)
  OBVIOUS
<1> HIDE DEF R
<1>3. done' \in Seq(R)
  <2>1. done # <<>> => Tail(done) \in Seq(R)
    BY <1>1
  <2> QED
    BY <1>1, <1>2, <2>1
<1>4. pending' \in Seq(Transfers) /\ active' \in Seq(Transfers)
  <2>1. <<>> \in Seq(Transfers)
    OBVIOUS
  <2>2. \A t \in Transfers : Append(pending, t) \in Seq(Transfers) /\ Append(active, t) \in Seq(Transfers)
    BY <1>1
  <2> QED
    BY <1>1, <2>1, <2>2, Zenon
<1> QED
  BY <1>3, <1>4 DEF SequencesInv, R

-----------------------------------------------------------------------------
(* The program                                                             *)

\* The steps of the endpoint, its kernel and its event thread that the program takes.
Steps ==
  \/ \E t \in Transfers, b \in Buffers : Submit(t, b) \/ SubmitErr(t, b)
  \/ NextComplete("timed") \/ WaitStep \/ PopFront
  \/ StartCancel("cancel") \/ Cancel \/ EndCancel
  \/ SubmitUrb \/ SubmitUrbFails \/ SubmitReturns \/ DropDisplaced
  \/ GiveUp \/ Disconnect \/ EventStep \/ NotifyCompletion(User)
  \/ \E s \in {"ok", "error"} : FinishUrb(s)

\* The program that only calls transfer_blocking takes no others.
LEMMA TakesSteps ==
  ASSUME call # "free", [BlockingNext]_blockingVars
  PROVE  Steps \/ UNCHANGED vars
BY DEF BlockingNext, blockingVars, Program, Surroundings, FreeCalls, Start, Wait, Waiting, TimedOut,
       CancelIt, Finished, Inside, Steps

\* Each is a step of the hand-over, or none of it.
LEMMA StepsHandOver ==
  ASSUME H!TypeOK, SequencesInv, Steps \/ UNCHANGED vars
  PROVE  [H!Next]_(H!vars)
<1> USE DEF usbfs, owner, handshake, shared, ghosts
<1>0. UNCHANGED <<handshake, kernel>> => UNCHANGED H!vars
  BY DEF H!vars, H!user, H!handlers
<1>1. UNCHANGED <<active, done>> => UNCHANGED kernel
  BY DEF kernel, DoneUrbs, ActiveUrbs
<1>2. UNCHANGED <<handshake, active, done>> => UNCHANGED H!vars
  BY <1>0, <1>1
<1>3. ASSUME NEW t \in Transfers, NEW b \in Buffers, Submit(t, b) \/ SubmitErr(t, b) PROVE H!Next
  BY <1>3 DEF Submit, SubmitErr, H!Handles, H!Next
<1>4. CASE NextComplete("timed")
  <2>1. pending # <<>> /\ H!StartWait(Head(pending), "timed")
    BY <1>4 DEF NextComplete
  <2>2. Head(pending) \in Transfers
    BY <2>1 DEF SequencesInv
  <2> QED
    BY <2>1, <2>2 DEF H!Next
<1>5. CASE SubmitUrb \/ SubmitUrbFails \/ SubmitReturns
  BY <1>5 DEF SubmitUrb, SubmitUrbFails, SubmitReturns, H!Next, H!CallStep
<1>6. CASE WaitStep \/ PopFront \/ GiveUp
  BY <1>6 DEF WaitStep, PopFront, GiveUp, H!Next, H!CallStep
<1>7. CASE DropDisplaced
  <2>1. displaced \in Transfers /\ H!DropIdle(displaced)
    BY <1>7 DEF DropDisplaced, SequencesInv
  <2> QED
    BY <2>1 DEF H!Next, H!Handles
<1>8. CASE Cancel \/ \E s \in {"ok", "error"} : FinishUrb(s)
  <2>1. UNCHANGED kernel
    BY <1>8, KernelKeeps
  <2>2. UNCHANGED handshake
    BY <1>8 DEF Cancel, FinishUrb
  <2> QED
    BY <1>0, <2>1, <2>2
<1>9. CASE EndCancel \/ StartCancel("cancel") \/ Disconnect \/ ReapNoDevice
  BY <1>2, <1>9 DEF EndCancel, StartCancel, Disconnect, ReapNoDevice
<1>10. CASE ReapUrb
  <2>1. done # <<>> /\ H!Reap(EventThread, Head(done).urb)
    BY <1>10 DEF ReapUrb
  <2>2. Head(done) \in [urb : Transfers, status : Statuses]
    <3> DEFINE R == [urb : Transfers, status : Statuses]
    <3>1. done \in Seq(R)
      BY DEF SequencesInv
    <3> HIDE DEF R
    <3>2. Head(done) \in R
      BY <2>1, <3>1
    <3> QED
      BY <3>2 DEF R
  <2> QED
    BY <2>1, <2>2 DEF H!Next
<1>11. CASE NotifyCompletion(EventThread) \/ NotifyCompletion(User)
  BY <1>11 DEF NotifyCompletion, H!Next, H!Threads
<1>12. CASE UNCHANGED vars
  BY <1>2, <1>12 DEF vars
<1> QED
  BY <1>3, <1>4, <1>5, <1>6, <1>7, <1>8, <1>9, <1>10, <1>11, <1>12 DEF Steps, EventStep

\* The sequences after each of them.
LEMMA SequencesStep ==
  ASSUME H!TypeOK, H!CallInv, OneTransfer, SequencesInv, Steps \/ UNCHANGED vars
  PROVE  SequencesInv'
<1> USE DEF usbfs, owner, handshake, shared, ghosts
<1>1. CASE UNCHANGED <<pending, active, done, idle_transfer, displaced>>
  BY <1>1 DEF SequencesInv
<1>2. ASSUME NEW t \in Transfers, NEW b \in Buffers, Submit(t, b) \/ SubmitErr(t, b) PROVE SequencesInv'
  <2>1. UNCHANGED <<active, done, displaced>> /\ (pending' = pending \/ pending' = Append(pending, t))
       /\ idle_transfer' = NoTransfer
    BY <1>2 DEF Submit, SubmitErr, GetTransfer
  <2> QED
    BY <2>1, SequencesKept DEF SequencesInv
<1>3. CASE SubmitUrb \/ SubmitReturns
  <2>1. ut \in Transfers /\ upc \in {"submit", "inline"}
    BY <1>3 DEF SubmitUrb, SubmitReturns, H!SubmitOk, H!SubmitReturn, OneTransfer
  <2>2. UNCHANGED <<done, idle_transfer, displaced>> /\ pending' = Append(pending, ut) /\ active' \in {active, Append(active, ut)}
    BY <1>3 DEF SubmitUrb, SubmitReturns, PushBack
  <2> QED
    BY <2>1, <2>2, SequencesKept DEF SequencesInv
<1>4. CASE PopFront
  <2>1. ut \in Transfers /\ pending # <<>>
    BY <1>4 DEF PopFront, H!CallInv, OneTransfer
  <2>2. UNCHANGED <<active, done>> /\ displaced' = idle_transfer /\ idle_transfer' = ut /\ pending' = Tail(pending)
    BY <1>4 DEF PopFront
  <2>3. Tail(pending) \in Seq(Transfers)
    BY <2>1 DEF SequencesInv
  <2> QED
    BY <2>1, <2>2, <2>3 DEF SequencesInv
<1>5. CASE DropDisplaced
  BY <1>5 DEF DropDisplaced, SequencesInv
<1>6. CASE Cancel \/ \E s \in {"ok", "error"} : FinishUrb(s)
  <2>1. UNCHANGED <<pending, idle_transfer, displaced>>
    BY <1>6 DEF Cancel, FinishUrb
  <2> QED
    BY <1>6, <2>1, KernelKeeps DEF SequencesInv
<1>7. CASE ReapUrb
  <2>1. UNCHANGED <<pending, active, idle_transfer, displaced>> /\ done # <<>> /\ done' = Tail(done)
    BY <1>7 DEF ReapUrb
  <2> QED
    BY <2>1, SequencesKept DEF SequencesInv
<1>8. \/ NextComplete("timed") \/ WaitStep \/ GiveUp \/ StartCancel("cancel") \/ EndCancel \/ SubmitUrbFails
      \/ Disconnect \/ ReapNoDevice \/ NotifyCompletion(EventThread) \/ NotifyCompletion(User) \/ UNCHANGED vars
      => UNCHANGED <<pending, active, done, idle_transfer, displaced>>
  BY DEF NextComplete, WaitStep, GiveUp, StartCancel, EndCancel, SubmitUrbFails, Disconnect, ReapNoDevice,
         NotifyCompletion, vars
<1> QED
  BY <1>1, <1>2, <1>3, <1>4, <1>5, <1>6, <1>7, <1>8 DEF Steps, EventStep

\* What the steps inside the calls do to the handles: they keep those of one transfer.
LEMMA StepsInside ==
  ASSUME H!TypeOK, H!CallInv, SequencesInv, OneTransfer, call # "free", call' = call,
         \/ SubmitUrb \/ SubmitUrbFails \/ SubmitReturns \/ DropDisplaced \/ Cancel \/ EndCancel
         \/ Disconnect \/ EventStep \/ NotifyCompletion(User) \/ \E s \in {"ok", "error"} : FinishUrb(s)
  PROVE  OneTransfer'
<1> USE DEF OneTransfer
<1>1. CASE SubmitUrb \/ SubmitReturns
  <2>1. upc \in {"submit", "inline"} /\ upc' = "run" /\ UNCHANGED <<live, handle>>
    BY <1>1 DEF SubmitUrb, SubmitReturns, H!SubmitOk, H!SubmitReturn
  <2>2. pending' = Append(pending, ut)
    BY <1>1 DEF SubmitUrb, SubmitReturns, PushBack
  <2>3. pending = <<>> /\ ut \in Transfers /\ call # "out"
    BY <2>1
  <2>4. pending' = <<ut>>
    BY <2>2, <2>3
  <2>5. \A t \in Transfers : <<t>> # <<>>
    OBVIOUS
  <2>6. \A t \in Transfers : handle'[t] = "pending" => pending' = <<t>>
    BY <2>1, <2>3, <2>4, <2>5
  <2> QED
    BY <2>1, <2>3, <2>4, <2>6
<1>2. CASE SubmitUrbFails
  <2>1. upc = "submit" /\ upc' = "inline" /\ UNCHANGED <<live, handle, ut, pending>>
    BY <1>2 DEF SubmitUrbFails, H!SubmitErr, owner
  <2> QED
    BY <2>1
<1>3. CASE DropDisplaced
  <2>1. displaced \in Transfers
    BY <1>3 DEF DropDisplaced, SequencesInv
  <2>2. /\ handle' = [handle EXCEPT ![displaced] = "none"] /\ live' = live \ {displaced}
        /\ UNCHANGED <<upc, ut, pending>>
    BY <1>3 DEF DropDisplaced, H!DropIdle, H!user
  <2>3. handle \in [Transfers -> {"none", "idle", "pending"}] /\ live \subseteq Transfers
    BY DEF H!TypeOK
  <2> QED
    BY <2>1, <2>2, <2>3
<1>4. CASE UNCHANGED <<handle, upc, ut, pending>> /\ live' \subseteq live
  BY <1>4
<1>5. Cancel \/ EndCancel \/ Disconnect \/ ReapUrb \/ ReapNoDevice \/ (\E s \in {"ok", "error"} : FinishUrb(s))
      => UNCHANGED <<handle, upc, ut, pending, live>>
  BY DEF Cancel, EndCancel, Disconnect, ReapUrb, ReapNoDevice, FinishUrb, handshake, owner, H!Reap, H!user
<1>6. ASSUME NEW h, NotifyCompletion(h) PROVE UNCHANGED <<handle, upc, ut, pending>> /\ live' \subseteq live
  BY <1>6 DEF NotifyCompletion, owner, H!HandlerStep, H!TakeNotifyState, H!SwapIdle, H!Wake, H!Free, H!user
<1> QED
  BY <1>1, <1>2, <1>3, <1>4, <1>5, <1>6 DEF EventStep

\* The calls themselves: submission, the wait and cancel_all.
LEMMA CallsKeep ==
  ASSUME H!TypeOK, H!CallInv, SequencesInv, OneTransfer, call # "free",
         \/ Wait \/ Waiting \/ CancelIt \/ Finished \/ (GiveUp /\ call' = call)
         \/ \E t \in Transfers, b \in Buffers : Start(t, b)
  PROVE  OneTransfer'
<1> USE DEF OneTransfer
<1>0. handle \in [Transfers -> {"none", "idle", "pending"}] /\ live \subseteq Transfers
  BY DEF H!TypeOK
<1>1. ASSUME NEW t \in Transfers, NEW b \in Buffers, Start(t, b) PROVE OneTransfer'
  <2>1. pending = <<>> /\ call' = "first" /\ upc = "run"
    BY <1>1 DEF Start
  <2>2. live' = live \union {t} /\ handle' = [handle EXCEPT ![t] = "pending"]
    BY <1>1 DEF Start, Submit, SubmitErr, H!PreSubmit, H!SimulateComplete
  <2>3. \A s \in Transfers : handle[s] # "pending"
    BY <2>1
  <2>4. \A s \in Transfers : handle'[s] = "pending" => s = t
    BY <1>0, <2>2, <2>3
  <2>5. \A s \in live' : handle'[s] # "none"
    BY <1>0, <2>2
  <2>6. CASE Submit(t, b)
    <3>1. pending' = <<>> /\ upc' = "submit" /\ ut' = t
      BY <2>1, <2>6 DEF Submit, H!PreSubmit
    <3> QED
      BY <2>1, <2>4, <2>5, <3>1
  <2>7. CASE SubmitErr(t, b)
    <3>1. pending' = <<t>> /\ upc' = "run"
      BY <2>1, <2>7 DEF SubmitErr, H!SimulateComplete, H!user
    <3> QED
      BY <2>1, <2>4, <2>5, <3>1
  <2> QED
    BY <1>1, <2>6, <2>7 DEF Start
<1>2. CASE Wait
  <2>1. /\ pending # <<>> /\ upc = "run" /\ upc' = "subscribe" /\ ut' = Head(pending)
        /\ UNCHANGED <<live, handle, pending, call>>
    BY <1>2 DEF Wait, NextComplete, H!StartWait, owner
  <2> QED
    BY <2>1
<1>3. CASE Waiting
  <2>1. /\ upc \in {"subscribe", "check", "parked", "blocked"}
        /\ \/ upc' = "run"
           \/ upc' \in {"subscribe", "check", "parked", "blocked"} /\ ut' = ut
        /\ UNCHANGED <<live, handle, pending>>
    BY <1>3 DEF Waiting, WaitStep, H!Subscribe, H!CheckPending, H!Unpark, H!SpuriousUnpark, H!TaskWoken,
         H!Return, owner
  <2>2. call' # "out"
    BY <1>3, <2>1 DEF Waiting, TimedOut
  <2> QED
    BY <2>1, <2>2
<1>4. CASE CancelIt
  <2>1. UNCHANGED <<live, handle, upc, ut, pending>> /\ call' = "again"
    BY <1>4 DEF CancelIt, StartCancel, handshake
  <2> QED
    BY <2>1
<1>5. CASE Finished
  <2>1. /\ upc = "check" /\ upc' = "run" /\ handle' = [handle EXCEPT ![ut] = "idle"]
        /\ pending' = Tail(pending) /\ UNCHANGED live
    BY <1>5 DEF Finished, PopFront, H!CheckComplete, H!Return
  <2>2. ut \in Transfers /\ handle[ut] = "pending"
    BY <2>1 DEF H!CallInv
  <2>3. pending = <<ut>>
    BY <2>1, <2>2
  <2>4. pending' = <<>>
    BY <2>1, <2>3
  <2>5. \A s \in Transfers : handle'[s] # "pending"
    <3>1. \A s \in Transfers : <<s>> = <<ut>> => s = ut
      OBVIOUS
    <3>2. \A s \in Transfers : handle[s] = "pending" => s = ut
      BY <2>1, <2>3, <3>1
    <3> QED
      BY <1>0, <2>1, <2>2, <3>2
  <2>6. \A s \in live' : handle'[s] # "none"
    BY <1>0, <2>1
  <2> QED
    BY <2>1, <2>4, <2>5, <2>6
<1>6. CASE GiveUp /\ call' = call
  <2>1. /\ upc \in {"subscribe", "check", "parked", "blocked"} /\ (upc' = "run" \/ UNCHANGED <<upc, ut>>)
        /\ UNCHANGED <<live, handle, pending>>
    BY <1>6 DEF GiveUp, H!Expire, H!TaskMovesOn, H!Return, owner
  <2> QED
    BY <1>6, <2>1
<1> QED
  BY <1>1, <1>2, <1>3, <1>4, <1>5, <1>6

\* A step of the program keeps the invariant.
LEMMA BlockingStep == BlockingInv /\ [BlockingNext]_blockingVars => BlockingInv'
<1> SUFFICES ASSUME BlockingInv, [BlockingNext]_blockingVars, call' # "free" PROVE H!IInv' /\ SequencesInv' /\ OneTransfer'
  BY DEF BlockingInv
<1>1. call # "free"
  BY DEF BlockingNext, blockingVars, Program, Surroundings, FreeCalls, Start, Wait, Waiting, TimedOut,
       CancelIt, Finished, Inside
<1>2. H!IInv /\ SequencesInv /\ OneTransfer
  BY <1>1 DEF BlockingInv
<1>3. H!TypeOK /\ H!CallInv
  BY <1>2 DEF H!IInv
<1>4. Steps \/ UNCHANGED vars
  BY <1>1, TakesSteps
<1>5. H!IInv'
  BY <1>2, <1>3, <1>4, StepsHandOver, HandshakeStep
<1>6. SequencesInv'
  BY <1>2, <1>3, <1>4, SequencesStep
<1>7. OneTransfer'
  <2>1. CASE UNCHANGED blockingVars
    BY <1>2, <2>1 DEF blockingVars, vars, handshake, owner, OneTransfer
  <2>2. CASE BlockingNext
    BY <1>1, <1>2, <1>3, <2>2, CallsKeep, StepsInside DEF BlockingNext, Program, Surroundings, FreeCalls, Inside
  <2> QED
    BY <2>1, <2>2
<1> QED
  BY <1>5, <1>6, <1>7

\* Nothing has been submitted.
LEMMA BlockingStart == BlockingInit => BlockingInv
<1> SUFFICES ASSUME BlockingInit PROVE H!IInv /\ SequencesInv /\ OneTransfer
  BY DEF BlockingInv
<1>1. H!Init
  BY DEF BlockingInit, Init
<1>2. H!IInv
  BY <1>1, HandshakeStart
<1>3. pending = <<>> /\ active = <<>> /\ done = <<>> /\ idle_transfer = NoTransfer /\ displaced = NoTransfer
  BY DEF BlockingInit, Init
<1>4. SequencesInv
  BY <1>3 DEF SequencesInv
<1>5. live = {} /\ handle = [t \in Transfers |-> "none"] /\ upc = "run"
  BY <1>1 DEF H!Init
<1>6. OneTransfer
  BY <1>3, <1>5 DEF OneTransfer
<1> QED
  BY <1>2, <1>4, <1>6

\* BlockingInv holds throughout.
THEOREM BlockingInvariant == BlockingSpec => []BlockingInv
<1>1. BlockingInit => BlockingInv
  BY BlockingStart
<1>2. BlockingInv /\ [BlockingNext]_blockingVars => BlockingInv'
  BY BlockingStep
<1> QED
  BY <1>1, <1>2, PTL DEF BlockingSpec

\* "Always consumes the transfer it submits": when transfer_blocking returns, whether the
\* device answered, the timeout elapsed or the two raced, neither the queue nor the kernel
\* has a transfer.
THEOREM BlockingLeavesNothing == BlockingSpec => []NothingLeftPending
<1>1. BlockingInv => NothingLeftPending
  <2> SUFFICES ASSUME BlockingInv, call = "out" PROVE pending = <<>> /\ kernel = {}
    BY DEF NothingLeftPending
  <2>1. H!IInv /\ OneTransfer
    BY DEF BlockingInv
  <2>2. pending = <<>> /\ upc = "run"
    BY <2>1 DEF OneTransfer
  <2>3. ASSUME NEW t \in kernel PROVE FALSE
    <3>1. t \in Transfers /\ H!Out(t)
      BY <2>1, <2>3 DEF H!IInv, H!TypeOK, H!Out
    <3>2. t \in live
      BY <2>1, <3>1 DEF H!IInv, H!NoDanglingPointer
    <3>3. handle[t] # "idle"
      BY <2>1, <3>1 DEF H!IInv, H!ExclusiveAccess, H!UserOwns
    <3>4. handle[t] = "pending"
      BY <2>1, <3>1, <3>2, <3>3 DEF H!IInv, H!TypeOK, OneTransfer
    <3> QED
      BY <2>1, <2>2, <3>1, <3>4 DEF OneTransfer
  <2> QED
    BY <2>2, <2>3
<1> QED
  BY <1>1, BlockingInvariant, PTL
=============================================================================
