------------------------ MODULE LinuxEndpointProofs ------------------------
(***************************************************************************)
(* Proofs about the LinuxEndpoint of MCBackends, for any transfers and     *)
(* buffers.                                                                *)
(*                                                                         *)
(* LinuxInv: the invariant of the hand-over is that of                     *)
(* TransferHandshakeProofs; HandleInv and BufferInv tie its transfers to   *)
(* the queue and to their buffers, CallerInv says where the caller is.     *)
(*                                                                         *)
(* ResultInv: the kernel has the URBs of the queue in the order of the     *)
(* queue (UrbInv, ScheduleInv), whether a transfer has ended or not is     *)
(* told by its URB until it is reaped (ReapedInv) and by its status        *)
(* afterwards, and what was cancelled or succeeded agrees with when        *)
(* cancel_all was called (CancelledInv, SuccessInv, WalkInv).              *)
(*                                                                         *)
(* The last part maps each step to EndpointQueue.                          *)
(***************************************************************************)
EXTENDS MCBackends, Sequences, TLAPS

-----------------------------------------------------------------------------
(* Sequences: the queue, its URBs, and what was reaped                     *)

\* What is left of a sequence without one of its elements.
LEMMA Removed ==
  ASSUME NEW S, NEW s \in Seq(S), NEW i \in 1..Len(s)
  PROVE  /\ E!RemoveAt(s, i) \in Seq(S) /\ Len(E!RemoveAt(s, i)) = Len(s) - 1
         /\ \A j \in 1..(Len(s) - 1) : E!RemoveAt(s, i)[j] = IF j < i THEN s[j] ELSE s[j + 1]
<1> DEFINE a == SubSeq(s, 1, i - 1)
           b == SubSeq(s, i + 1, Len(s))
<1>1. a \in Seq(S) /\ Len(a) = i - 1 /\ \A j \in 1..(i - 1) : a[j] = s[j]
  OBVIOUS
<1>2. b \in Seq(S) /\ Len(b) = Len(s) - i /\ \A j \in 1..(Len(s) - i) : b[j] = s[j + i]
  OBVIOUS
<1>3. E!RemoveAt(s, i) = a \o b
  BY DEF E!RemoveAt
<1> HIDE DEF a, b
<1>4. a \o b \in Seq(S)
  BY ONLY <1>1, <1>2
<1>5. Len(a \o b) = Len(a) + Len(b)
  <2>1. a \in Seq(S) /\ b \in Seq(S)
    BY <1>1, <1>2
  <2> QED
    BY ONLY <2>1
<1>6. Len(a \o b) = Len(s) - 1
  BY <1>1, <1>2, <1>5
<1>7. ASSUME NEW j \in 1..(Len(s) - 1) PROVE (a \o b)[j] = IF j < i THEN s[j] ELSE s[j + 1]
  <2>1. CASE j < i
    BY <1>1, <1>2, <2>1
  <2>2. CASE ~(j < i)
    <3>1. (a \o b)[j] = b[j - (i - 1)]
      BY <1>1, <1>2, <2>2
    <3>2. j - (i - 1) \in 1..(Len(s) - i)
      BY <2>2
    <3> QED
      BY <1>2, <3>1, <3>2, <2>2
  <2> QED
    BY <2>1, <2>2
<1> QED
  BY <1>3, <1>4, <1>6, <1>7

\* What is left of a sequence without its first element.
LEMMA Popped ==
  ASSUME NEW S, NEW s \in Seq(S), s # <<>>
  PROVE  /\ Tail(s) \in Seq(S) /\ Len(Tail(s)) = Len(s) - 1 /\ Head(s) = s[1] /\ 1 \in 1..Len(s)
         /\ \A j \in 1..(Len(s) - 1) : Tail(s)[j] = s[j + 1]
OBVIOUS

\* What a sequence is with one element more.
LEMMA Appended ==
  ASSUME NEW S, NEW s \in Seq(S), NEW x \in S
  PROVE  /\ Append(s, x) \in Seq(S) /\ Len(Append(s, x)) = Len(s) + 1
         /\ \A j \in 1..Len(s) : Append(s, x)[j] = s[j]
         /\ Append(s, x)[Len(s) + 1] = x
OBVIOUS

-----------------------------------------------------------------------------
(* The endpoint of Linux                                                   *)

\* The hand-over of the transfers of a Linux endpoint, with the lemmas proved about it.
HP == INSTANCE TransferHandshakeProofs WITH EventThreads <- {EventThread}, kernel <- X!kernel

\* The hand-over of LinuxEndpoint is that of TransferHandshakeProofs.
LEMMA SameHandshake == X!H!IInv <=> HP!IInv
BY DEF X!H!IInv, HP!IInv, X!H!TypeOK, HP!TypeOK, X!H!NoDanglingPointer, HP!NoDanglingPointer,
  X!H!ExclusiveAccess, HP!ExclusiveAccess, X!H!NoOrphan, HP!NoOrphan, X!H!NoPanic, HP!NoPanic,
  X!H!CallInv, HP!CallInv, X!H!HandlerInv, HP!HandlerInv, X!H!Out, HP!Out, X!H!UserOwns, HP!UserOwns,
  X!H!Submitting, HP!Submitting, X!H!Engaged, HP!Engaged, X!H!Threads, HP!Threads, X!H!States, HP!States,
  X!H!NotifyStates, HP!NotifyStates, X!H!Registrations, HP!Registrations

\* No transfer has been handed over yet.
LEMMA HandshakeStart == X!H!Init => X!H!IInv
<1>1. HP!UserAssumption /\ HP!NoTransferAssumption
  BY LinuxAssumption DEF HP!UserAssumption, HP!NoTransferAssumption
<1>2. X!H!Init => HP!Init
  BY DEF X!H!Init, HP!Init, X!H!Threads, HP!Threads
<1> QED
  BY <1>1, <1>2, SameHandshake, HP!InitIInv

\* See SameHandshake.
LEMMA SameStep == [X!H!Next]_(X!H!vars) <=> [HP!Next]_(HP!vars)
<1> USE DEF X!H!vars, HP!vars, X!H!user, HP!user, X!H!handlers, HP!handlers, X!H!Return, HP!Return,
            X!H!HaveIdle, HP!HaveIdle, X!H!IsComplete, HP!IsComplete
<1>1. X!H!vars' = X!H!vars <=> HP!vars' = HP!vars
  OBVIOUS
<1>2. ASSUME NEW t \in Transfers PROVE X!H!Handles(t) <=> HP!Handles(t)
  BY DEF X!H!Handles, HP!Handles, X!H!PreSubmit, HP!PreSubmit, X!H!SimulateComplete, HP!SimulateComplete,
     X!H!DropIdle, HP!DropIdle, X!H!DropPending, HP!DropPending, X!H!FreedByDrop, HP!FreedByDrop
<1>3. ASSUME NEW t \in Transfers, NEW m PROVE X!H!StartWait(t, m) <=> HP!StartWait(t, m)
  BY DEF X!H!StartWait, HP!StartWait
<1>4. X!H!CallStep <=> HP!CallStep
  BY DEF X!H!CallStep, HP!CallStep, X!H!SubmitOk, HP!SubmitOk, X!H!SubmitErr, HP!SubmitErr,
     X!H!SubmitReturn, HP!SubmitReturn, X!H!Subscribe, HP!Subscribe, X!H!Registration, HP!Registration,
     X!H!CheckComplete, HP!CheckComplete, X!H!CheckPending, HP!CheckPending, X!H!TimeIsUp, HP!TimeIsUp
<1>5. /\ X!H!Expire <=> HP!Expire
      /\ X!H!Unpark <=> HP!Unpark
      /\ X!H!SpuriousUnpark <=> HP!SpuriousUnpark
      /\ X!H!TaskWoken <=> HP!TaskWoken
      /\ X!H!TaskMovesOn <=> HP!TaskMovesOn
  BY DEF X!H!Expire, HP!Expire, X!H!Unpark, HP!Unpark, X!H!SpuriousUnpark, HP!SpuriousUnpark,
     X!H!TaskWoken, HP!TaskWoken, X!H!TaskMovesOn, HP!TaskMovesOn
<1>6. ASSUME NEW h, NEW t PROVE X!H!Reap(h, t) <=> HP!Reap(h, t)
  BY DEF X!H!Reap, HP!Reap
<1>7. ASSUME NEW h PROVE X!H!HandlerStep(h) <=> HP!HandlerStep(h)
  BY DEF X!H!HandlerStep, HP!HandlerStep, X!H!TakeNotifyState, HP!TakeNotifyState, X!H!SwapIdle, HP!SwapIdle,
     X!H!AfterSwap, HP!AfterSwap, X!H!Wake, HP!Wake, X!H!Given, HP!Given, X!H!Free, HP!Free
<1>8. X!H!Threads = HP!Threads
  BY DEF X!H!Threads, HP!Threads
<1>9. X!H!Next <=> HP!Next
  BY <1>2, <1>3, <1>4, <1>5, <1>6, <1>7, <1>8 DEF X!H!Next, HP!Next
<1> QED
  BY <1>1, <1>9

\* A step of the hand-over keeps its invariant, see IInvStep.
LEMMA HandshakeStep == X!H!IInv /\ [X!H!Next]_(X!H!vars) => X!H!IInv'
<1>1. HP!UserAssumption /\ HP!NoTransferAssumption
  BY LinuxAssumption DEF HP!UserAssumption, HP!NoTransferAssumption
<1>2. (X!H!IInv <=> HP!IInv)'
  BY SameHandshake, PTL
<1>3. HP!IInv /\ [HP!Next]_(HP!vars) => HP!IInv'
  BY <1>1, HP!IInvStep
<1> QED
  BY <1>2, <1>3, SameHandshake, SameStep


\* What the conjuncts of X!TypeOK say of the sequences.
LEMMA LinuxQueues ==
  ASSUME X!TypeOK
  PROVE  /\ queue \in Seq(Transfers) /\ urbs \in Seq(Transfers)
         /\ finished \in Seq([urb : Transfers, status : X!Statuses])
         /\ Len(queue) \in Nat /\ Len(urbs) \in Nat /\ Len(finished) \in Nat
         /\ DOMAIN queue = 1..Len(queue) /\ DOMAIN urbs = 1..Len(urbs) /\ DOMAIN finished = 1..Len(finished)
         /\ \A i \in 1..Len(queue) : queue[i] \in Transfers
         /\ \A i \in 1..Len(urbs) : urbs[i] \in Transfers
         /\ \A i \in 1..Len(finished) : finished[i] \in [urb : Transfers, status : X!Statuses]
<1> DEFINE R == [urb : Transfers, status : X!Statuses]
<1>1. queue \in Seq(Transfers) /\ urbs \in Seq(Transfers) /\ finished \in Seq(R)
  BY DEF X!TypeOK
<1> HIDE DEF R
<1>2. \A i \in 1..Len(finished) : finished[i] \in R
  BY <1>1
<1> QED
  BY <1>1, <1>2 DEF R

\* usbfs moves a URB from the schedule to those that have ended.
Moves(i, s) ==
  urbs' = X!RemoveAt(urbs, i) /\ finished' = Append(finished, [urb |-> urbs[i], status |-> s])

\* What the two sequences are then; the transfer stays with the kernel.
LEMMA Moved ==
  ASSUME X!TypeOK, NEW i \in DOMAIN urbs, NEW s \in {"ok", "error", "cancelled"}, Moves(i, s)
  PROVE  /\ X!kernel' = X!kernel
         /\ urbs' \in Seq(Transfers) /\ finished' \in Seq([urb : Transfers, status : X!Statuses])
         /\ \A j \in DOMAIN finished' :
              IF j = Len(finished) + 1 THEN finished'[j].urb = urbs[i] /\ finished'[j].status = s
              ELSE j \in DOMAIN finished /\ finished'[j] = finished[j]
         /\ \A j \in DOMAIN finished : j \in DOMAIN finished' /\ finished'[j] = finished[j] /\ j < Len(finished) + 1
         /\ Len(finished) + 1 \in DOMAIN finished'
         /\ \A j \in DOMAIN urbs' :
              IF j < i THEN j \in DOMAIN urbs /\ urbs'[j] = urbs[j]
              ELSE j + 1 \in DOMAIN urbs /\ j + 1 # i /\ urbs'[j] = urbs[j + 1]
         /\ \A k \in DOMAIN urbs \ {i} : \E j \in DOMAIN urbs' : urbs'[j] = urbs[k]
<1> DEFINE e == [urb |-> urbs[i], status |-> s]
<1>1. e \in [urb : Transfers, status : X!Statuses] /\ e.urb = urbs[i] /\ e.status = s
  BY LinuxQueues DEF X!Statuses
<1>2. /\ finished' \in Seq([urb : Transfers, status : X!Statuses]) /\ Len(finished') = Len(finished) + 1
      /\ (\A j \in 1..Len(finished) : finished'[j] = finished[j])
      /\ finished'[Len(finished) + 1] = e
  <2>1. finished' = Append(finished, e) /\ finished \in Seq([urb : Transfers, status : X!Statuses])
    BY LinuxQueues DEF Moves
  <2> HIDE DEF e
  <2> QED
    BY <1>1, <2>1, Appended
<1>3. /\ urbs' \in Seq(Transfers) /\ Len(urbs') = Len(urbs) - 1
      /\ \A j \in 1..(Len(urbs) - 1) : urbs'[j] = IF j < i THEN urbs[j] ELSE urbs[j + 1]
  <2>1. urbs' = X!RemoveAt(urbs, i) /\ urbs \in Seq(Transfers) /\ i \in 1..Len(urbs)
    BY LinuxQueues DEF Moves
  <2>2. X!RemoveAt(urbs, i) = E!RemoveAt(urbs, i)
    BY DEF X!RemoveAt, E!RemoveAt
  <2> QED
    BY <2>1, <2>2, Removed
<1> HIDE DEF e
<1>4. DOMAIN finished' = 1..(Len(finished) + 1) /\ DOMAIN urbs' = 1..(Len(urbs) - 1)
  BY <1>2, <1>3
<1>5. Len(finished) \in Nat /\ Len(urbs) \in Nat /\ DOMAIN finished = 1..Len(finished) /\ DOMAIN urbs = 1..Len(urbs)
  BY LinuxQueues
<1>6. \A j \in DOMAIN finished' :
        IF j = Len(finished) + 1 THEN finished'[j] = e
        ELSE j \in DOMAIN finished /\ finished'[j] = finished[j]
  BY <1>2, <1>4, <1>5
<1>7. /\ \A j \in DOMAIN finished : j \in DOMAIN finished' /\ finished'[j] = finished[j] /\ j < Len(finished) + 1
      /\ Len(finished) + 1 \in DOMAIN finished'
  BY <1>2, <1>4, <1>5
<1>8. \A j \in DOMAIN urbs' : IF j < i THEN j \in DOMAIN urbs /\ urbs'[j] = urbs[j]
                              ELSE j + 1 \in DOMAIN urbs /\ j + 1 # i /\ urbs'[j] = urbs[j + 1]
  BY <1>3, <1>4, <1>5
<1>9. ASSUME NEW k \in DOMAIN urbs \ {i} PROVE \E j \in DOMAIN urbs' : urbs'[j] = urbs[k]
  <2>1. CASE k < i
    <3>1. k \in DOMAIN urbs'
      BY <1>4, <1>5, <2>1
    <3> QED
      BY <1>3, <1>4, <2>1, <3>1
  <2>2. CASE ~(k < i)
    <3>1. k - 1 \in DOMAIN urbs' /\ ~(k - 1 < i) /\ (k - 1) + 1 = k
      BY <1>4, <1>5, <1>9, <2>2
    <3>2. urbs'[k - 1] = urbs[k]
      BY <1>3, <1>4, <3>1
    <3> QED
      BY <3>1, <3>2
  <2> QED
    BY <2>1, <2>2
<1>10. X!DoneUrbs' = X!DoneUrbs \union {urbs[i]}
  BY <1>1, <1>6, <1>7 DEF X!DoneUrbs
<1>11. X!ActiveUrbs' \subseteq X!ActiveUrbs
  BY <1>8 DEF X!ActiveUrbs
<1>12. X!ActiveUrbs \subseteq X!ActiveUrbs' \union {urbs[i]} /\ urbs[i] \in X!ActiveUrbs
  BY <1>9 DEF X!ActiveUrbs
<1>13. X!kernel' = X!kernel
  BY <1>10, <1>11, <1>12 DEF X!kernel
<1> QED
  BY <1>1, <1>2, <1>3, <1>6, <1>7, <1>8, <1>9, <1>13

\* The oldest URB of the schedule ends, or the one that cancel_all visits.
LEMMA FinishMoves ==
  ASSUME X!TypeOK, NEW s, X!FinishUrb(s)
  PROVE  1 \in DOMAIN urbs /\ Moves(1, s)
<1>1. urbs # <<>> /\ urbs \in Seq(Transfers) /\ 1 \in 1..Len(urbs)
  BY LinuxQueues DEF X!FinishUrb
<1>2. X!RemoveAt(urbs, 1) = Tail(urbs)
  <2>1. SubSeq(urbs, 1, 0) = <<>> /\ SubSeq(urbs, 2, Len(urbs)) = Tail(urbs)
    BY <1>1
  <2>2. Tail(urbs) \in Seq(Transfers)
    BY <1>1
  <2>3. <<>> \o Tail(urbs) = Tail(urbs)
    BY <2>2
  <2> QED
    BY <2>1, <2>3 DEF X!RemoveAt
<1> QED
  BY <1>1, <1>2, LinuxQueues DEF X!FinishUrb, Moves

\* A transfer whose URB finishes or is discarded stays with the kernel.
LEMMA FinishedStays ==
  ASSUME X!TypeOK, (\E s \in {"ok", "error"} : X!FinishUrb(s)) \/ X!Cancel
  PROVE  /\ X!kernel' = X!kernel
         /\ urbs' \in Seq(Transfers) /\ finished' \in Seq([urb : Transfers, status : X!Statuses])
<1>1. CASE X!Cancel
  <2>1. CASE UNCHANGED <<urbs, finished>>
    BY <2>1, LinuxQueues DEF X!kernel, X!DoneUrbs, X!ActiveUrbs
  <2>2. CASE \E i \in DOMAIN urbs : Moves(i, "cancelled")
    BY <2>2, Moved
  <2> QED
    BY <1>1, <2>1, <2>2 DEF X!Cancel, Moves
<1>2. CASE \E s \in {"ok", "error"} : X!FinishUrb(s)
  BY <1>2, FinishMoves, Moved
<1> QED
  BY <1>1, <1>2

\* Every step of the endpoint but the one that opens it again is a step of the hand-over, or
\* none of it.
LEMMA StepsHandOver ==
  ASSUME X!TypeOK, X!CallerInv, [X!Next]_linuxEndpoint
  PROVE  [X!H!Next]_(X!H!vars) \/ X!OpenEndpoint
<1> USE DEF X!usbfs, X!owner, X!handshake, X!shared, X!ghosts
<1>0. UNCHANGED <<X!handshake, X!kernel>> => UNCHANGED X!H!vars
  BY DEF X!H!vars, X!H!user, X!H!handlers
<1>1. UNCHANGED <<urbs, finished>> => UNCHANGED X!kernel
  BY DEF X!kernel, X!DoneUrbs, X!ActiveUrbs
<1>2. UNCHANGED <<X!handshake, urbs, finished>> => UNCHANGED X!H!vars
  BY <1>0, <1>1
<1>3. ASSUME NEW t \in Transfers, NEW b \in LinuxBuffers, X!Submit(t, b) \/ X!SubmitErr(t, b) PROVE X!H!Next
  BY <1>3 DEF X!Submit, X!SubmitErr, X!H!Handles, X!H!Next
<1>4. ASSUME NEW m \in Modes, X!NextComplete(m) PROVE X!H!Next
  <2>1. queue # <<>> /\ X!H!StartWait(Head(queue), m)
    BY <1>4 DEF X!NextComplete
  <2>2. Head(queue) \in Transfers
    BY <2>1, LinuxQueues
  <2>3. m \in {"poll", "wait", "timed"}
    BY LinuxAssumption
  <2> QED
    BY <2>1, <2>2, <2>3 DEF X!H!Next
<1>5. CASE X!SubmitUrb \/ X!SubmitUrbFails \/ X!SubmitReturns
  BY <1>5 DEF X!SubmitUrb, X!SubmitUrbFails, X!SubmitReturns, X!H!Next, X!H!CallStep
<1>6. CASE X!WaitStep \/ X!PopFront \/ X!GiveUp
  BY <1>6 DEF X!WaitStep, X!PopFront, X!GiveUp, X!H!Next, X!H!CallStep
<1>7. CASE X!DropDisplaced
  <2>1. displaced \in Transfers /\ X!H!DropIdle(displaced)
    BY <1>7 DEF X!DropDisplaced, X!TypeOK
  <2> QED
    BY <2>1 DEF X!H!Next, X!H!Handles
<1>8. CASE X!Cancel \/ \E s \in {"ok", "error"} : X!FinishUrb(s)
  <2>1. UNCHANGED X!kernel
    BY <1>8, FinishedStays
  <2>2. UNCHANGED X!handshake
    BY <1>8 DEF X!Cancel, X!FinishUrb
  <2> QED
    BY <1>0, <2>1, <2>2
<1>9. CASE X!EndCancel \/ X!StartCancel("cancel") \/ X!StartCancel("dropCancel") \/ X!DropInner \/ X!Disconnect \/ X!ReapNoDevice
  BY <1>2, <1>9 DEF X!EndCancel, X!StartCancel, X!DropInner, X!Disconnect, X!ReapNoDevice
<1>10. CASE X!Drop
  <2>1. X!StartCancel("dropCancel") \/ UNCHANGED <<X!handshake, urbs, finished>>
    BY <1>10 DEF X!Drop
  <2> QED
    BY <1>2, <1>9, <2>1
<1>11. CASE X!DropFront
  <2>1. queue # <<>> /\ X!H!DropPending(Head(queue))
    BY <1>11 DEF X!DropFront
  <2>2. Head(queue) \in Transfers
    BY <2>1, LinuxQueues
  <2> QED
    BY <2>1, <2>2 DEF X!H!Next, X!H!Handles
<1>12. CASE X!DropIdleTransfer
  <2>1. CASE idle_transfer = NoTransfer
    BY <1>2, <1>12, <2>1 DEF X!DropIdleTransfer
  <2>2. CASE idle_transfer # NoTransfer
    <3>1. idle_transfer \in Transfers /\ X!H!DropIdle(idle_transfer)
      BY <1>12, <2>2 DEF X!DropIdleTransfer, X!TypeOK
    <3> QED
      BY <3>1 DEF X!H!Next, X!H!Handles
  <2> QED
    BY <2>1, <2>2
<1>13. CASE X!ReapUrb
  <2>1. finished # <<>> /\ X!H!Reap(EventThread, Head(finished).urb)
    BY <1>13 DEF X!ReapUrb
  <2>2. Head(finished) \in [urb : Transfers, status : X!Statuses]
    BY <2>1, LinuxQueues
  <2> QED
    BY <2>1, <2>2 DEF X!H!Next
<1>14. CASE X!NotifyCompletion(EventThread) \/ X!NotifyCompletion(User)
  BY <1>14 DEF X!NotifyCompletion, X!H!Next, X!H!Threads
<1>15. CASE UNCHANGED linuxEndpoint
  BY <1>2, <1>15 DEF linuxEndpoint
<1>16. CASE X!Next
  <2>1. CASE \E t \in Transfers, b \in LinuxBuffers : X!Submit(t, b) \/ X!SubmitErr(t, b)
    BY <1>3, <2>1
  <2>2. CASE \E m \in Modes : X!NextComplete(m)
    BY <1>4, <2>2
  <2>3. CASE X!OwnerStep
    BY <1>5, <1>6, <1>7, <1>8, <1>9, <1>11, <1>12, <2>3 DEF X!OwnerStep
  <2>4. CASE X!EventStep
    BY <1>9, <1>13, <1>14, <2>4 DEF X!EventStep
  <2> QED
    BY <1>6, <1>8, <1>9, <1>10, <1>14, <1>16, <2>1, <2>2, <2>3, <2>4 DEF X!Next
<1> QED
  BY <1>15, <1>16

\* The hand-over goes on as TransferHandshake has it; Notify starts afresh with an endpoint.
LEMMA HandOverKeeps ==
  ASSUME X!LinuxInv, [X!Next]_linuxEndpoint
  PROVE  X!H!IInv'
<1>1. X!TypeOK /\ X!CallerInv /\ X!H!IInv
  BY DEF X!LinuxInv
<1>2. CASE [X!H!Next]_(X!H!vars)
  BY <1>1, <1>2, HandshakeStep
<1>3. CASE X!OpenEndpoint
  <2>1. /\ UNCHANGED <<live, state, handle, upc, ut, mode, expired, hpc, job, wake, X!kernel>>
        /\ notify' = "None" /\ woken' = {}
    BY <1>3 DEF X!OpenEndpoint, X!kernel, X!DoneUrbs, X!ActiveUrbs, X!usbfs
  <2>2. X!H!TypeOK'
    BY <1>1, <2>1 DEF X!H!IInv, X!H!TypeOK, X!H!NotifyStates
  <2>3. X!H!NoDanglingPointer' /\ X!H!ExclusiveAccess' /\ X!H!NoOrphan' /\ X!H!NoPanic' /\ X!H!CallInv' /\ X!H!HandlerInv'
    BY <1>1, <2>1 DEF X!H!IInv, X!H!NoDanglingPointer, X!H!ExclusiveAccess, X!H!NoOrphan, X!H!NoPanic, X!H!CallInv,
       X!H!HandlerInv, X!H!Out, X!H!UserOwns, X!H!Submitting, X!H!Engaged
  <2> QED
    BY <2>2, <2>3 DEF X!H!IInv
<1> QED
  BY <1>1, <1>2, <1>3, StepsHandOver

\* The buffers of the queue, by indices.
LEMMA QueuedBuffers ==
  ASSUME X!TypeOK
  PROVE  \A b : b \in X!Queued <=> \E i \in 1..Len(queue) : buffer[queue[i]] = b
BY LinuxQueues DEF X!Queued, X!Queue

\* An address is free when no box of the endpoint is left: the kernel has only such boxes.
LEMMA FreeKeeps ==
  ASSUME X!H!IInv', ~endpoints' => live' = {} /\ linuxPhase' = "closed"
  PROVE  X!FreeMeansQuiescent'
<1>1. (\A t \in Transfers : t \in X!kernel' => t \in live') /\ X!kernel' \subseteq Transfers
  BY DEF X!H!IInv, X!H!TypeOK, X!H!NoDanglingPointer, X!H!Out
<1> QED
  BY <1>1 DEF X!FreeMeansQuiescent

\* What holds of the rest of the state and of its next.
Rest ==
  /\ linuxPhase \in {"open", "cancel", "dropCancel", "drop", "closed"}
  /\ idle_transfer \in Transfers \union {NoTransfer} /\ displaced \in Transfers \union {NoTransfer}
  /\ status \in [Transfers -> X!Statuses]
  /\ urbs \in Seq(Transfers)
  /\ finished \in Seq([urb : Transfers, status : X!Statuses])
  /\ connected \in BOOLEAN /\ registered \in BOOLEAN /\ endpoints \in BOOLEAN
  /\ linuxAsked \subseteq LinuxBuffers
  /\ linuxAfter \in [LinuxBuffers -> SUBSET LinuxBuffers]

\* A step that leaves queue and buffers alone, and the handles of the queue.
LEMMA QuietKeeps ==
  ASSUME X!LinuxInv, X!H!IInv', UNCHANGED <<queue, buffer>>, Rest',
         \A i \in 1..Len(queue) : handle'[queue[i]] = "pending",
         upc' \in {"submit", "inline"} => upc \in {"submit", "inline"} /\ ut' = ut /\ handle' = handle,
         upc' \in {"subscribe", "check", "parked", "blocked"} => queue # <<>> /\ ut' = Head(queue),
         upc' # "run" => linuxPhase' = "open",
         linuxPhase' \notin {"cancel", "dropCancel"} => cursor' = 0,
         linuxPhase' = "closed" => queue = <<>>,
         cursor' \in 0..Len(queue),
         ~endpoints' => live' = {} /\ linuxPhase' = "closed"
  PROVE  X!LinuxInv'
<1>0. X!TypeOK /\ X!CallerInv /\ X!HandleInv /\ X!BufferInv /\ DOMAIN queue = 1..Len(queue)
  BY LinuxQueues DEF X!LinuxInv
<1>1. X!TypeOK'
  BY <1>0 DEF X!TypeOK, Rest, X!H!IInv
<1>2. X!CallerInv'
  BY <1>0 DEF X!CallerInv
<1>3. X!HandleInv'
  BY <1>0 DEF X!HandleInv
<1>4. X!Queued' = X!Queued
  BY DEF X!Queued, X!Queue
<1>5. X!BufferInv'
  BY <1>0, <1>4 DEF X!BufferInv
<1> QED
  BY <1>1, <1>2, <1>3, <1>5, FreeKeeps DEF X!LinuxInv

\* A step that adds a transfer to the queue, between two calls of an open endpoint.
LEMMA PushKeeps ==
  ASSUME X!LinuxInv, X!H!IInv', Rest', linuxPhase = "open", UNCHANGED <<linuxPhase, cursor, endpoints>>,
         upc' = "run", NEW t \in Transfers, queue' = Append(queue, t),
         \A i \in 1..Len(queue) : queue[i] # t,
         buffer' \in [Transfers -> LinuxBuffers \union {NoBuffer}],
         buffer'[t] \in LinuxBuffers \ X!Queued,
         \A s \in Transfers : s # t => buffer'[s] = buffer[s] /\ handle'[s] = handle[s],
         handle'[t] = "pending"
  PROVE  X!LinuxInv'
<1>0. /\ X!TypeOK /\ X!CallerInv /\ X!HandleInv /\ X!BufferInv /\ DOMAIN queue = 1..Len(queue)
      /\ queue \in Seq(Transfers) /\ Len(queue) \in Nat
      /\ \A i \in 1..Len(queue) : queue[i] \in Transfers
  BY LinuxQueues DEF X!LinuxInv
<1>1. /\ queue' \in Seq(Transfers) /\ Len(queue') = Len(queue) + 1
      /\ (\A j \in 1..Len(queue) : queue'[j] = queue[j])
      /\ queue'[Len(queue) + 1] = t
  BY <1>0, Appended
<1>2. DOMAIN queue' = 1..(Len(queue) + 1)
  BY <1>1
<1>3. \A j \in DOMAIN queue' : IF j = Len(queue) + 1 THEN queue'[j] = t
                               ELSE j \in DOMAIN queue /\ queue'[j] = queue[j] /\ queue[j] # t /\ queue[j] \in Transfers
  BY <1>0, <1>1, <1>2
<1>4. X!TypeOK'
  <2>1. cursor' \in 0..Len(queue')
    BY <1>0, <1>1 DEF X!TypeOK
  <2> QED
    BY <1>1, <2>1 DEF X!TypeOK, Rest, X!H!IInv
<1>5. X!CallerInv'
  BY <1>0 DEF X!CallerInv
<1>6. X!HandleInv'
  BY <1>0, <1>3 DEF X!HandleInv
<1>7. X!BufferInv'
  <2>1. \A j \in DOMAIN queue : buffer[queue[j]] \in X!Queued
    BY <1>0, QueuedBuffers
  <2> QED
    BY <1>0, <1>3, <2>1 DEF X!BufferInv
<1>8. X!FreeMeansQuiescent'
  <2>1. endpoints
    BY DEF X!LinuxInv, X!FreeMeansQuiescent
  <2> QED
    BY <2>1, FreeKeeps
<1> QED
  BY <1>4, <1>5, <1>6, <1>7, <1>8 DEF X!LinuxInv

\* A step that takes the oldest transfer from the queue, at the end of a call or in drop.
LEMMA TailKeeps ==
  ASSUME X!LinuxInv, X!H!IInv', Rest', linuxPhase \in {"open", "drop"}, UNCHANGED <<linuxPhase, cursor, endpoints>>,
         upc' = "run", queue # <<>>, queue' = Tail(queue),
         buffer' \in [Transfers -> LinuxBuffers \union {NoBuffer}],
         \A s \in Transfers : s # queue[1] => buffer'[s] = buffer[s] /\ handle'[s] = handle[s]
  PROVE  X!LinuxInv'
<1>0. /\ X!TypeOK /\ X!CallerInv /\ X!HandleInv /\ X!BufferInv /\ DOMAIN queue = 1..Len(queue)
      /\ queue \in Seq(Transfers) /\ Len(queue) \in Nat
      /\ \A i \in 1..Len(queue) : queue[i] \in Transfers
  BY LinuxQueues DEF X!LinuxInv
<1>1. /\ queue' \in Seq(Transfers) /\ Len(queue') = Len(queue) - 1 /\ 1 \in 1..Len(queue)
      /\ \A j \in 1..(Len(queue) - 1) : queue'[j] = queue[j + 1]
  BY <1>0, Popped
<1>2. DOMAIN queue' = 1..(Len(queue) - 1)
  BY <1>1
<1>3. \A j \in DOMAIN queue' : j \in Nat /\ j + 1 \in DOMAIN queue /\ queue'[j] = queue[j + 1] /\ j + 1 # 1
  BY <1>0, <1>1, <1>2
<1>4. \A j \in DOMAIN queue' : queue[j + 1] \in Transfers /\ queue[j + 1] # queue[1]
  BY <1>0, <1>1, <1>3 DEF X!HandleInv
<1>5. X!TypeOK'
  <2>1. cursor' = 0 /\ cursor' \in 0..Len(queue')
    BY <1>0, <1>1 DEF X!CallerInv
  <2> QED
    BY <1>1, <2>1 DEF X!TypeOK, Rest, X!H!IInv
<1>6. X!CallerInv'
  BY <1>0 DEF X!CallerInv
<1>7. X!HandleInv'
  BY <1>0, <1>3, <1>4 DEF X!HandleInv
<1>8. X!BufferInv'
  <2>1. \A j \in DOMAIN queue' : buffer'[queue'[j]] = buffer[queue[j + 1]]
    BY <1>3, <1>4
  <2>2. \A j \in DOMAIN queue' : buffer'[queue'[j]] \in LinuxBuffers
    BY <1>0, <1>3, <2>1 DEF X!BufferInv
  <2>3. ASSUME NEW i \in DOMAIN queue', NEW j \in DOMAIN queue', buffer'[queue'[i]] = buffer'[queue'[j]]
        PROVE  i = j
    <3>1. i \in Nat /\ j \in Nat /\ i + 1 \in DOMAIN queue /\ j + 1 \in DOMAIN queue
      BY <1>3
    <3>2. buffer[queue[i + 1]] = buffer[queue[j + 1]]
      BY <2>1, <2>3
    <3>3. \A m, n \in DOMAIN queue : buffer[queue[m]] = buffer[queue[n]] => m = n
      BY <1>0 DEF X!BufferInv
    <3>4. i + 1 = j + 1
      BY <3>1, <3>2, <3>3
    <3> QED
      BY ONLY <3>1, <3>4
  <2> QED
    BY <2>2, <2>3 DEF X!BufferInv
<1>9. X!FreeMeansQuiescent'
  <2>1. endpoints
    BY DEF X!LinuxInv, X!FreeMeansQuiescent
  <2> QED
    BY <2>1, FreeKeeps
<1> QED
  BY <1>5, <1>6, <1>7, <1>8, <1>9 DEF X!LinuxInv

\* What LinuxInv says of a state, taken apart.
LEMMA LinuxFacts ==
  ASSUME X!LinuxInv
  PROVE  /\ X!TypeOK /\ X!CallerInv /\ X!HandleInv /\ X!BufferInv /\ X!H!IInv /\ X!H!TypeOK /\ Rest
         /\ handle \in [Transfers -> {"none", "idle", "pending"}] /\ live \subseteq Transfers
         /\ buffer \in [Transfers -> LinuxBuffers \union {NoBuffer}]
         /\ DOMAIN queue = 1..Len(queue) /\ Len(queue) \in Nat /\ cursor \in 0..Len(queue)
         /\ \A i \in 1..Len(queue) : queue[i] \in Transfers /\ handle[queue[i]] = "pending"
         /\ \A t \in Transfers : handle[t] # "none" => t \in live
         /\ ~endpoints => live = {} /\ linuxPhase = "closed"
<1>1. X!TypeOK /\ X!CallerInv /\ X!HandleInv /\ X!BufferInv /\ X!H!IInv
  BY DEF X!LinuxInv
<1>2. X!H!TypeOK /\ Rest /\ cursor \in 0..Len(queue) /\ buffer \in [Transfers -> LinuxBuffers \union {NoBuffer}]
  BY <1>1 DEF X!TypeOK, Rest
<1>3. handle \in [Transfers -> {"none", "idle", "pending"}] /\ live \subseteq Transfers
  BY <1>2 DEF X!H!TypeOK
<1>4. /\ DOMAIN queue = 1..Len(queue) /\ Len(queue) \in Nat
      /\ \A i \in 1..Len(queue) : queue[i] \in Transfers /\ handle[queue[i]] = "pending"
  BY <1>1, LinuxQueues DEF X!HandleInv
<1>5. \A t \in Transfers : handle[t] # "none" => t \in live
  BY <1>1 DEF X!H!IInv, X!H!NoDanglingPointer
<1>6. ~endpoints => live = {} /\ linuxPhase = "closed"
  BY DEF X!LinuxInv, X!FreeMeansQuiescent
<1> QED
  BY <1>1, <1>2, <1>3, <1>4, <1>5, <1>6

\* submit and submit_err take a transfer that is in no use.
LEMMA SubmissionKeeps ==
  ASSUME X!LinuxInv, X!H!IInv', NEW t \in Transfers, NEW b \in LinuxBuffers, X!Submit(t, b) \/ X!SubmitErr(t, b)
  PROVE  X!LinuxInv'
<1> USE LinuxFacts DEF X!usbfs, X!owner, X!handshake, X!shared, X!ghosts
<1>1. X!H!HaveIdle(t) /\ X!Ready /\ b \notin X!Queued /\ buffer' = [buffer EXCEPT ![t] = b]
      /\ handle' = [handle EXCEPT ![t] = "pending"] /\ UNCHANGED <<linuxPhase, cursor, endpoints>>
      /\ linuxPhase = "open" /\ upc = "run"
  BY DEF X!Submit, X!SubmitErr, X!H!PreSubmit, X!H!SimulateComplete, X!Ready
<1>2. \A i \in 1..Len(queue) : queue[i] # t
  BY <1>1 DEF X!H!HaveIdle
<1>3. /\ buffer' \in [Transfers -> LinuxBuffers \union {NoBuffer}] /\ buffer'[t] \in LinuxBuffers \ X!Queued
      /\ (\A s \in Transfers : s # t => buffer'[s] = buffer[s] /\ handle'[s] = handle[s])
      /\ handle'[t] = "pending"
  BY <1>1
<1>4. endpoints /\ cursor = 0
  BY <1>1 DEF X!CallerInv
<1>5. idle_transfer' = NoTransfer
  BY DEF X!Submit, X!SubmitErr, X!GetTransfer
<1>6. CASE X!SubmitErr(t, b)
  <2>1. status' \in [Transfers -> X!Statuses]
    BY <1>6 DEF X!SubmitErr, Rest, X!Statuses
  <2>2. Rest'
    BY <1>5, <1>6, <2>1 DEF X!SubmitErr, Rest
  <2>3. queue' = Append(queue, t) /\ upc' = "run"
    BY <1>1, <1>6 DEF X!SubmitErr, X!H!SimulateComplete, X!H!user
  <2> HIDE DEF X!usbfs, X!owner, X!handshake, X!shared, X!ghosts
  <2> QED
    BY <1>1, <1>2, <1>3, <2>2, <2>3, PushKeeps
<1>7. CASE X!Submit(t, b)
  <2>1. Rest'
    BY <1>5, <1>7 DEF X!Submit, Rest
  <2>2. UNCHANGED queue /\ upc' = "submit" /\ ut' = t
    BY <1>7 DEF X!Submit, X!H!PreSubmit
  <2>3. X!TypeOK'
    BY <1>3, <2>1, <2>2, <1>1 DEF X!TypeOK, Rest, X!H!IInv
  <2>4. X!CallerInv'
    BY <1>1, <1>2, <1>3, <1>4, <2>2 DEF X!CallerInv
  <2>5. X!HandleInv'
    BY <1>2, <1>3, <2>2 DEF X!HandleInv
  <2>6. X!Queued' = X!Queued
    BY <1>2, <1>3, <2>2 DEF X!Queued, X!Queue
  <2>7. X!BufferInv'
    BY <1>2, <1>3, <2>2, <2>6 DEF X!BufferInv
  <2>8. X!FreeMeansQuiescent'
    BY <1>1, <1>4, FreeKeeps
  <2> QED
    BY <2>3, <2>4, <2>5, <2>7, <2>8 DEF X!LinuxInv
<1> QED
  BY <1>6, <1>7

\* The transfer enters the queue when submit is over.
LEMMA PushBackKeeps ==
  ASSUME X!LinuxInv, X!H!IInv', X!SubmitUrb \/ X!SubmitReturns
  PROVE  X!LinuxInv'
<1> USE LinuxFacts DEF X!usbfs, X!owner, X!handshake, X!shared, X!ghosts
<1>1. X!PushBack(ut) /\ upc \in {"submit", "inline"} /\ upc' = "run" /\ UNCHANGED <<handle, connected, status>>
  BY DEF X!SubmitUrb, X!SubmitReturns, X!H!SubmitOk, X!H!SubmitReturn
<1>2. /\ ut \in Transfers /\ handle[ut] = "pending" /\ (\A i \in 1..Len(queue) : queue[i] # ut)
      /\ linuxPhase = "open" /\ buffer[ut] \in LinuxBuffers \ X!Queued
  BY <1>1 DEF X!CallerInv, X!BufferInv
<1>3. /\ queue' = Append(queue, ut) /\ UNCHANGED <<linuxPhase, cursor, endpoints, buffer>>
      /\ linuxAfter' \in [LinuxBuffers -> SUBSET LinuxBuffers]
  BY <1>1 DEF X!PushBack, Rest
<1>4. urbs' \in Seq(Transfers) /\ UNCHANGED finished
  <2>1. urbs \in Seq(Transfers)
    BY LinuxQueues
  <2>2. UNCHANGED finished /\ (urbs' = Append(urbs, ut) \/ urbs' = urbs)
    BY DEF X!SubmitUrb, X!SubmitReturns
  <2> QED
    BY <1>2, <2>1, <2>2
<1>5. Rest'
  BY <1>1, <1>3, <1>4 DEF X!PushBack, Rest
<1> QED
  BY <1>1, <1>2, <1>3, <1>5, PushKeeps

\* The front leaves the queue, complete or because the endpoint is dropped.
LEMMA FrontKeeps ==
  ASSUME X!LinuxInv, X!H!IInv', X!PopFront \/ X!DropFront
  PROVE  X!LinuxInv'
<1> USE LinuxFacts DEF X!usbfs, X!owner, X!handshake, X!shared, X!ghosts
<1>0. queue # <<>> /\ Head(queue) = queue[1] /\ 1 \in 1..Len(queue) /\ queue[1] \in Transfers
  <2>1. queue # <<>> /\ queue \in Seq(Transfers)
    BY LinuxQueues DEF X!PopFront, X!DropFront, X!CallerInv
  <2> QED
    BY <2>1, Popped
<1>1. linuxAfter' \in [LinuxBuffers -> SUBSET LinuxBuffers] /\ linuxAsked' \subseteq LinuxBuffers
  BY DEF X!PopFront, X!DropFront, Rest
<1>2. CASE X!PopFront
  <2>1. ut = queue[1] /\ upc = "check" /\ linuxPhase = "open"
    BY <1>0, <1>2 DEF X!PopFront, X!CallerInv
  <2>2. /\ queue' = Tail(queue) /\ upc' = "run" /\ UNCHANGED <<linuxPhase, cursor, endpoints>>
        /\ buffer' = [buffer EXCEPT ![ut] = NoBuffer] /\ handle' = [handle EXCEPT ![ut] = "idle"]
        /\ status' = [status EXCEPT ![ut] = "ok"] /\ idle_transfer' = ut /\ displaced' = idle_transfer
        /\ UNCHANGED <<urbs, finished, connected, registered>>
    BY <1>2 DEF X!PopFront, X!H!CheckComplete, X!H!Return
  <2>3. Rest'
    BY <1>0, <1>1, <2>1, <2>2 DEF Rest, X!Statuses
  <2>4. /\ buffer' \in [Transfers -> LinuxBuffers \union {NoBuffer}]
        /\ \A s \in Transfers : s # queue[1] => buffer'[s] = buffer[s] /\ handle'[s] = handle[s]
    BY <1>0, <2>1, <2>2
  <2> HIDE DEF X!usbfs, X!owner, X!handshake, X!shared, X!ghosts
  <2> QED
    BY <1>0, <2>1, <2>2, <2>3, <2>4, TailKeeps
<1>3. CASE X!DropFront
  <2>1. /\ queue' = Tail(queue) /\ upc' = "run" /\ linuxPhase = "drop"
        /\ UNCHANGED <<linuxPhase, cursor, endpoints, buffer, urbs, finished, connected, registered, status, idle_transfer, displaced>>
        /\ handle' = [handle EXCEPT ![queue[1]] = "none"]
    BY <1>0, <1>3 DEF X!DropFront, X!H!DropPending, X!H!user
  <2>2. Rest'
    BY <1>1, <2>1 DEF Rest
  <2>3. /\ buffer' \in [Transfers -> LinuxBuffers \union {NoBuffer}]
        /\ \A s \in Transfers : s # queue[1] => buffer'[s] = buffer[s] /\ handle'[s] = handle[s]
    BY <1>0, <2>1
  <2> HIDE DEF X!usbfs, X!owner, X!handshake, X!shared, X!ghosts
  <2> QED
    BY <1>0, <2>1, <2>2, <2>3, TailKeeps
<1> QED
  BY <1>2, <1>3

\* The steps of the hand-over that concern no handle: waiting, giving up, the kernel, the threads.
LEMMA HandOverQuiet ==
  ASSUME X!LinuxInv, X!H!IInv',
         \/ X!WaitStep \/ X!GiveUp \/ X!SubmitUrbFails \/ X!ReapUrb
         \/ \E h \in {EventThread, User} : X!NotifyCompletion(h)
         \/ \E m \in Modes : X!NextComplete(m)
  PROVE  X!LinuxInv'
<1> USE LinuxFacts DEF X!usbfs, X!owner, X!handshake, X!shared, X!ghosts, X!H!user, X!H!handlers
<1>1. CASE X!WaitStep \/ X!GiveUp
  <2>1. UNCHANGED <<queue, buffer, handle, live, linuxPhase, cursor, endpoints, idle_transfer, displaced, status,
                    urbs, finished, connected, registered, linuxAsked, linuxAfter>>
    BY <1>1 DEF X!WaitStep, X!GiveUp, X!H!Subscribe, X!H!CheckPending, X!H!Unpark, X!H!SpuriousUnpark,
       X!H!TaskWoken, X!H!Expire, X!H!TaskMovesOn
  <2>2. upc \in {"subscribe", "check", "parked", "blocked"} /\ (upc' = "run" \/ (upc' \in {"subscribe", "check", "parked", "blocked"} /\ ut' = ut))
    BY <1>1 DEF X!WaitStep, X!GiveUp, X!H!Subscribe, X!H!CheckPending, X!H!Unpark, X!H!SpuriousUnpark,
       X!H!TaskWoken, X!H!Expire, X!H!TaskMovesOn, X!H!Return
  <2>3. Rest'
    BY <2>1 DEF Rest
  <2>4. queue # <<>> /\ ut = Head(queue) /\ linuxPhase = "open" /\ cursor = 0
    BY <2>2 DEF X!CallerInv
  <2> QED
    BY <2>1, <2>2, <2>3, <2>4, QuietKeeps
<1>2. CASE X!SubmitUrbFails
  <2>1. /\ UNCHANGED <<queue, buffer, handle, live, linuxPhase, cursor, endpoints, idle_transfer, displaced,
                       urbs, finished, connected, registered, linuxAsked, linuxAfter, ut>>
        /\ upc = "submit" /\ upc' = "inline" /\ status' = [status EXCEPT ![ut] = "error"]
    BY <1>2 DEF X!SubmitUrbFails, X!H!SubmitErr
  <2>2. Rest'
    BY <2>1 DEF Rest, X!Statuses
  <2>3. linuxPhase = "open" /\ cursor = 0
    BY <2>1 DEF X!CallerInv
  <2> QED
    BY <2>1, <2>2, <2>3, QuietKeeps
<1>3. CASE X!ReapUrb
  <2>1. /\ UNCHANGED <<queue, buffer, handle, live, linuxPhase, cursor, endpoints, idle_transfer, displaced,
                       urbs, connected, registered, linuxAsked, linuxAfter, ut, upc>>
        /\ finished # <<>> /\ finished' = Tail(finished)
        /\ status' = [status EXCEPT ![Head(finished).urb] = Head(finished).status]
    BY <1>3 DEF X!ReapUrb, X!H!Reap
  <2>2. finished' \in Seq([urb : Transfers, status : X!Statuses]) /\ Head(finished) \in [urb : Transfers, status : X!Statuses]
    <3> DEFINE R == [urb : Transfers, status : X!Statuses]
    <3>1. finished \in Seq(R)
      BY LinuxQueues
    <3> HIDE DEF R
    <3>2. Tail(finished) \in Seq(R) /\ Head(finished) \in R
      BY <2>1, <3>1
    <3> QED
      BY <2>1, <3>2 DEF R
  <2>3. status' \in [Transfers -> X!Statuses]
    BY <2>1, <2>2 DEF Rest
  <2>4. Rest'
    BY <2>1, <2>2, <2>3 DEF Rest
  <2>5. /\ upc # "run" => linuxPhase = "open"
        /\ upc \in {"subscribe", "check", "parked", "blocked"} => queue # <<>> /\ ut = Head(queue)
        /\ linuxPhase \notin {"cancel", "dropCancel"} => cursor = 0
        /\ linuxPhase = "closed" => queue = <<>>
    BY DEF X!CallerInv
  <2> QED
    BY <2>1, <2>4, <2>5, QuietKeeps
<1>4. CASE \E h \in {EventThread, User} : X!NotifyCompletion(h)
  <2>1. /\ UNCHANGED <<queue, buffer, handle, linuxPhase, cursor, endpoints, idle_transfer, displaced, status,
                       urbs, finished, connected, registered, linuxAsked, linuxAfter, ut, upc>>
        /\ live' \subseteq live
    BY <1>4 DEF X!NotifyCompletion, X!H!HandlerStep, X!H!TakeNotifyState, X!H!SwapIdle, X!H!Wake, X!H!Free
  <2>2. Rest'
    BY <2>1 DEF Rest
  <2>3. /\ upc # "run" => linuxPhase = "open"
        /\ upc \in {"subscribe", "check", "parked", "blocked"} => queue # <<>> /\ ut = Head(queue)
        /\ linuxPhase \notin {"cancel", "dropCancel"} => cursor = 0
        /\ linuxPhase = "closed" => queue = <<>>
    BY DEF X!CallerInv
  <2>4. ~endpoints' => live' = {} /\ linuxPhase' = "closed"
    BY <2>1
  <2> QED
    BY <2>1, <2>2, <2>3, <2>4, QuietKeeps
<1>5. CASE \E m \in Modes : X!NextComplete(m)
  <2>1. /\ UNCHANGED <<queue, buffer, handle, live, linuxPhase, cursor, endpoints, idle_transfer, displaced, status,
                       urbs, finished, connected, registered, linuxAsked, linuxAfter>>
        /\ queue # <<>> /\ upc' = "subscribe" /\ ut' = Head(queue) /\ linuxPhase = "open"
    BY <1>5 DEF X!NextComplete, X!H!StartWait, X!Ready
  <2>2. Rest' /\ cursor = 0
    BY <2>1 DEF Rest, X!CallerInv
  <2> QED
    BY <2>1, <2>2, QuietKeeps
<1> QED
  BY <1>1, <1>2, <1>3, <1>4, <1>5

\* The steps of the endpoint, the interface and the system that concern no transfer of the queue.
LEMMA EndpointQuiet ==
  ASSUME X!LinuxInv, X!H!IInv',
         \/ X!Cancel \/ X!EndCancel \/ X!StartCancel("cancel") \/ X!Drop \/ X!DropDisplaced \/ X!DropIdleTransfer
         \/ X!DropInner \/ X!OpenEndpoint \/ X!Disconnect \/ X!ReapNoDevice
         \/ \E s \in {"ok", "error"} : X!FinishUrb(s)
         \/ UNCHANGED linuxEndpoint
  PROVE  X!LinuxInv'
<1> USE LinuxFacts DEF X!usbfs, X!owner, X!handshake, X!shared, X!ghosts, X!H!user, X!H!handlers
<1>0. /\ upc # "run" => linuxPhase = "open"
      /\ upc \in {"subscribe", "check", "parked", "blocked"} => queue # <<>> /\ ut = Head(queue)
      /\ linuxPhase \notin {"cancel", "dropCancel"} => cursor = 0
      /\ linuxPhase = "closed" => queue = <<>>
  BY DEF X!CallerInv
<1>1. CASE X!Cancel \/ \E s \in {"ok", "error"} : X!FinishUrb(s)
  <2>1. /\ UNCHANGED <<queue, buffer, handle, live, linuxPhase, endpoints, idle_transfer, displaced, status,
                       registered, linuxAsked, linuxAfter, ut, upc>>
        /\ connected' = connected
        /\ cursor' = cursor \/ (linuxPhase \in {"cancel", "dropCancel"} /\ cursor > 0 /\ cursor' = cursor - 1)
    BY <1>1 DEF X!Cancel, X!FinishUrb, X!MoreToCancel
  <2>2. urbs' \in Seq(Transfers) /\ finished' \in Seq([urb : Transfers, status : X!Statuses])
    BY <1>1, FinishedStays
  <2>3. Rest' /\ cursor' \in 0..Len(queue)
    BY <2>1, <2>2 DEF Rest
  <2>4. linuxPhase' \notin {"cancel", "dropCancel"} => cursor' = 0
    BY <1>0, <2>1
  <2> QED
    BY <1>0, <2>1, <2>3, <2>4, QuietKeeps
<1>2. ASSUME NEW p \in {"cancel", "dropCancel"}, X!StartCancel(p) PROVE X!LinuxInv'
  <2>1. /\ UNCHANGED <<queue, buffer, handle, live, endpoints, idle_transfer, displaced, status,
                       urbs, finished, connected, registered, linuxAfter, ut, upc>>
        /\ linuxPhase = "open" /\ linuxPhase' = p /\ upc = "run" /\ cursor' = Len(queue) /\ linuxAsked' = X!Queued
    BY <1>2 DEF X!StartCancel, X!Ready, X!FirstToCancel
  <2>2. X!Queued \subseteq LinuxBuffers
    BY DEF X!Queued, X!Queue, X!BufferInv
  <2>3. Rest' /\ cursor' \in 0..Len(queue)
    BY <2>1, <2>2 DEF Rest
  <2> QED
    BY <2>1, <2>3, QuietKeeps
<1>3. CASE X!EndCancel
  <2>1. /\ UNCHANGED <<queue, buffer, handle, live, endpoints, idle_transfer, displaced, status,
                       urbs, finished, connected, registered, linuxAsked, linuxAfter, ut, upc>>
        /\ linuxPhase \in {"cancel", "dropCancel"} /\ linuxPhase' \in {"open", "drop"} /\ cursor' = 0
    BY <1>3 DEF X!EndCancel
  <2>2. Rest' /\ cursor' \in 0..Len(queue) /\ upc = "run"
    BY <1>0, <2>1 DEF Rest
  <2> QED
    BY <2>1, <2>2, QuietKeeps
<1>4. CASE X!Drop /\ ~X!StartCancel("dropCancel")
  <2>1. /\ UNCHANGED <<queue, buffer, handle, live, endpoints, idle_transfer, displaced, status, cursor,
                       urbs, finished, connected, registered, linuxAsked, linuxAfter, ut, upc>>
        /\ linuxPhase = "open" /\ linuxPhase' = "drop" /\ upc = "run"
    BY <1>4 DEF X!Drop, X!Ready
  <2>2. Rest' /\ cursor = 0
    BY <1>0, <2>1 DEF Rest
  <2> QED
    BY <2>1, <2>2, QuietKeeps
<1>5. CASE X!DropDisplaced
  <2>1. /\ UNCHANGED <<queue, buffer, linuxPhase, endpoints, idle_transfer, status, cursor,
                       urbs, finished, connected, registered, linuxAsked, linuxAfter, ut, upc>>
        /\ handle[displaced] = "idle" /\ handle' = [handle EXCEPT ![displaced] = "none"] /\ live' \subseteq live
        /\ upc = "run" /\ displaced' = NoTransfer
    BY <1>5 DEF X!DropDisplaced, X!H!DropIdle
  <2>2. Rest'
    BY <2>1 DEF Rest
  <2>3. \A i \in 1..Len(queue) : handle'[queue[i]] = "pending"
    BY <2>1
  <2> QED
    BY <1>0, <2>1, <2>2, <2>3, QuietKeeps
<1>6. CASE X!DropIdleTransfer
  <2>1. /\ UNCHANGED <<queue, buffer, endpoints, displaced, status, cursor,
                       urbs, finished, connected, registered, linuxAsked, linuxAfter, ut, upc>>
        /\ handle' = handle \/ (handle[idle_transfer] = "idle" /\ handle' = [handle EXCEPT ![idle_transfer] = "none"])
        /\ live' \subseteq live
        /\ linuxPhase = "drop" /\ linuxPhase' = "closed" /\ queue = <<>> /\ idle_transfer' = NoTransfer
    BY <1>6 DEF X!DropIdleTransfer, X!H!DropIdle
  <2>2. Rest' /\ upc = "run" /\ cursor = 0
    BY <1>0, <2>1 DEF Rest
  <2>3. \A i \in 1..Len(queue) : handle'[queue[i]] = "pending"
    BY <2>1
  <2> QED
    BY <2>1, <2>2, <2>3, QuietKeeps
<1>7. CASE X!DropInner
  <2>1. /\ UNCHANGED <<queue, buffer, handle, live, linuxPhase, idle_transfer, displaced, status, cursor,
                       urbs, finished, connected, registered, linuxAsked, linuxAfter, ut, upc>>
        /\ linuxPhase = "closed" /\ live = {} /\ endpoints' = FALSE
    BY <1>7 DEF X!DropInner, X!InnerReferenced
  <2>2. Rest'
    BY <2>1 DEF Rest
  <2> QED
    BY <1>0, <2>1, <2>2, QuietKeeps
<1>8. CASE X!OpenEndpoint
  <2>1. /\ UNCHANGED <<queue, buffer, handle, live, idle_transfer, displaced, status, cursor,
                       urbs, finished, connected, registered, linuxAsked, linuxAfter, ut, upc>>
        /\ linuxPhase = "closed" /\ linuxPhase' = "open" /\ endpoints' = TRUE
    BY <1>8 DEF X!OpenEndpoint
  <2>2. Rest' /\ upc = "run" /\ cursor = 0
    BY <1>0, <2>1 DEF Rest
  <2> QED
    BY <2>1, <2>2, QuietKeeps
<1>9. CASE X!Disconnect \/ X!ReapNoDevice \/ UNCHANGED linuxEndpoint
  <2>1. /\ UNCHANGED <<queue, buffer, handle, live, linuxPhase, endpoints, idle_transfer, displaced, status, cursor,
                       urbs, finished, linuxAsked, linuxAfter, ut, upc>>
        /\ connected' \in BOOLEAN /\ registered' \in BOOLEAN
    BY <1>9 DEF X!Disconnect, X!ReapNoDevice, linuxEndpoint, Rest
  <2>2. Rest'
    BY <2>1 DEF Rest
  <2> QED
    BY <1>0, <2>1, <2>2, QuietKeeps
<1> QED
  BY <1>1, <1>2, <1>3, <1>4, <1>5, <1>6, <1>7, <1>8, <1>9 DEF X!Drop

-----------------------------------------------------------------------------
(* The order of results on Linux                                           *)

\* With the kernel is what is on the schedule, or has ended there.
LEMMA InKernel ==
  \A t : t \in X!kernel <=> t \in X!ActiveUrbs \/ \E i \in DOMAIN finished : finished[i].urb = t
BY DEF X!kernel, X!DoneUrbs

\* What has a URB that ends, and what is on the schedule then.
LEMMA MovedEnds ==
  ASSUME X!TypeOK, X!UrbInv, NEW i \in DOMAIN urbs, NEW s \in {"ok", "error", "cancelled"}, Moves(i, s),
         UNCHANGED status
  PROVE  /\ X!UrbInv'
         /\ \A t : t \in X!ActiveUrbs' <=> t \in X!ActiveUrbs /\ t # urbs[i]
         /\ \A t, r : X!EndedAs(t, r)' <=> X!EndedAs(t, r) \/ (t = urbs[i] /\ r = s)
<1>1. X!kernel' = X!kernel
  BY Moved
<1>2. \A j \in DOMAIN finished' :
        IF j = Len(finished) + 1 THEN finished'[j].urb = urbs[i] /\ finished'[j].status = s
        ELSE j \in DOMAIN finished /\ finished'[j] = finished[j]
  BY Moved
<1>3. /\ \A j \in DOMAIN finished : j \in DOMAIN finished' /\ finished'[j] = finished[j]
      /\ Len(finished) + 1 \in DOMAIN finished'
      /\ finished'[Len(finished) + 1].urb = urbs[i] /\ finished'[Len(finished) + 1].status = s
  BY Moved
<1>4. \A j \in DOMAIN urbs' : \E k \in DOMAIN urbs \ {i} : urbs'[j] = urbs[k]
  <2> TAKE j \in DOMAIN urbs'
  <2>1. CASE j < i
    <3>1. j \in DOMAIN urbs /\ urbs'[j] = urbs[j] /\ j # i
      BY <2>1, Moved, LinuxQueues
    <3> QED
      BY <3>1
  <2>2. CASE ~(j < i)
    <3>1. j + 1 \in DOMAIN urbs /\ urbs'[j] = urbs[j + 1] /\ j + 1 # i
      BY <2>2, Moved
    <3> QED
      BY <3>1
  <2> QED
    BY <2>1, <2>2
<1>5. \A k \in DOMAIN urbs \ {i} : \E j \in DOMAIN urbs' : urbs'[j] = urbs[k]
  BY Moved
<1>6. \A t : t \in X!ActiveUrbs' <=> t \in X!ActiveUrbs /\ t # urbs[i]
  BY <1>4, <1>5 DEF X!ActiveUrbs, X!UrbInv
<1>7. \A t, r : X!EndedAs(t, r)' <=> X!EndedAs(t, r) \/ (t = urbs[i] /\ r = s)
  BY <1>1, <1>2, <1>3 DEF X!EndedAs
<1>8. X!UrbInv'
  <2>1. \A j, k \in DOMAIN urbs' : urbs'[j] = urbs'[k] => j = k
    <3> SUFFICES ASSUME NEW j \in DOMAIN urbs', NEW k \in DOMAIN urbs', urbs'[j] = urbs'[k] PROVE j = k
      OBVIOUS
    <3> DEFINE old(n) == IF n < i THEN n ELSE n + 1
    <3>1. old(j) \in DOMAIN urbs /\ urbs'[j] = urbs[old(j)] /\ old(k) \in DOMAIN urbs /\ urbs'[k] = urbs[old(k)]
      BY Moved
    <3>2. old(j) = old(k)
      BY <3>1 DEF X!UrbInv
    <3>3. j \in Nat /\ k \in Nat /\ i \in Nat
      <4>1. urbs' \in Seq(Transfers)
        BY Moved
      <4> QED
        BY <4>1, LinuxQueues
    <3> QED
      BY <3>2, <3>3
  <2>2. \A j, k \in DOMAIN finished' : finished'[j].urb = finished'[k].urb => j = k
    BY <1>2 DEF X!UrbInv
  <2>3. \A j \in DOMAIN urbs', k \in DOMAIN finished' : urbs'[j] # finished'[k].urb
    BY <1>2, <1>4 DEF X!UrbInv
  <2> QED
    BY <2>1, <2>2, <2>3 DEF X!UrbInv
<1> QED
  BY <1>6, <1>7, <1>8

\* What is on the schedule has not ended, and a URB ends once.
LEMMA EndsOnce ==
  ASSUME X!UrbInv
  PROVE  /\ \A t \in X!ActiveUrbs : \A r : ~X!EndedAs(t, r)
         /\ \A t, r, s : X!EndedAs(t, r) /\ X!EndedAs(t, s) => r = s
<1>1. \A t \in X!ActiveUrbs : t \in X!kernel /\ \A i \in DOMAIN finished : finished[i].urb # t
  BY InKernel DEF X!UrbInv, X!ActiveUrbs
<1>2. \A t : (\E i \in DOMAIN finished : finished[i].urb = t) => t \in X!kernel
  BY InKernel
<1> QED
  BY <1>1, <1>2 DEF X!EndedAs, X!UrbInv

\* A URB that ends by itself is the oldest of the schedule, one that is cancelled the newest of the
\* queue that is on it.
LEMMA MoveKeeps ==
  ASSUME X!LinuxInv, X!UrbInv, X!ScheduleInv, X!CancelledInv, X!SuccessInv,
         NEW i \in DOMAIN urbs, NEW s \in {"ok", "error", "cancelled"}, Moves(i, s),
         UNCHANGED <<queue, buffer, status, linuxAsked, linuxAfter>>,
         s # "cancelled" => i = 1,
         s = "cancelled" => \A n \in DOMAIN queue :
           urbs[i] = queue[n] => /\ buffer[queue[n]] \in linuxAsked
                                 /\ \A k \in DOMAIN queue : n < k => queue[k] \notin X!ActiveUrbs
  PROVE  X!UrbInv' /\ X!ScheduleInv' /\ X!CancelledInv' /\ X!SuccessInv'
<1>0. /\ X!TypeOK /\ X!HandleInv /\ DOMAIN urbs = 1..Len(urbs) /\ Len(urbs) \in Nat
      /\ DOMAIN queue = 1..Len(queue) /\ Len(queue) \in Nat
  BY LinuxFacts, LinuxQueues
<1>1. X!UrbInv'
  BY <1>0, MovedEnds
<1>2. \A t : t \in X!ActiveUrbs' <=> t \in X!ActiveUrbs /\ t # urbs[i]
  BY <1>0, MovedEnds
<1>3. \A t, r : X!EndedAs(t, r)' <=> X!EndedAs(t, r) \/ (t = urbs[i] /\ r = s)
  BY <1>0, MovedEnds
<1>4. X!kernel' = X!kernel /\ urbs[i] \in X!ActiveUrbs
  BY <1>0, Moved DEF X!ActiveUrbs
\* What ends well has nothing of the queue before it on the schedule.
<1>5. ASSUME NEW m \in DOMAIN queue, NEW n \in DOMAIN queue, m < n, urbs[i] = queue[n], s = "ok"
      PROVE  queue[m] \notin X!ActiveUrbs
  <2> SUFFICES ASSUME NEW k \in DOMAIN urbs, urbs[k] = queue[m] PROVE FALSE
    BY DEF X!ActiveUrbs
  <2>1. k # 1
    BY <1>0, <1>5 DEF X!HandleInv
  <2>2. n < m
    BY <1>0, <1>5, <2>1 DEF X!ScheduleInv
  <2> QED
    BY <1>0, <1>5, <2>2
<1>6. X!ScheduleInv'
  <2> SUFFICES ASSUME NEW j \in DOMAIN urbs', NEW k \in DOMAIN urbs', NEW m \in DOMAIN queue, NEW n \in DOMAIN queue,
                      j < k, urbs'[j] = queue[m], urbs'[k] = queue[n]
               PROVE  m < n
    BY DEF X!ScheduleInv
  <2> DEFINE old(x) == IF x < i THEN x ELSE x + 1
  <2>1. old(j) \in DOMAIN urbs /\ urbs'[j] = urbs[old(j)] /\ old(k) \in DOMAIN urbs /\ urbs'[k] = urbs[old(k)]
    BY <1>0, Moved
  <2>2. j \in Nat /\ k \in Nat /\ i \in Nat
    <3>1. urbs' \in Seq(Transfers)
      BY <1>0, Moved
    <3> QED
      BY <1>0, <3>1
  <2>3. old(j) < old(k)
    BY <2>2
  <2> HIDE DEF old
  <2> QED
    BY <2>1, <2>3 DEF X!ScheduleInv
<1>7. X!CancelledInv'
  <2>1. ASSUME NEW n \in DOMAIN queue, X!EndedAs(queue[n], "cancelled")' PROVE buffer[queue[n]] \in linuxAsked
    BY <1>3, <2>1 DEF X!CancelledInv
  <2>2. ASSUME NEW m \in DOMAIN queue, NEW n \in DOMAIN queue, m < n, X!EndedAs(queue[m], "cancelled")',
               queue[n] \in X!ActiveUrbs' \/ X!EndedAs(queue[n], "ok")'
        PROVE  buffer[queue[m]] \in linuxAfter[buffer[queue[n]]]
    <3>1. queue[n] \in X!ActiveUrbs \/ X!EndedAs(queue[n], "ok")
      BY <1>2, <1>3, <1>4, <2>2
    <3>2. CASE X!EndedAs(queue[m], "cancelled")
      BY <2>2, <3>1, <3>2 DEF X!CancelledInv
    <3>3. CASE queue[m] = urbs[i] /\ s = "cancelled"
      <4>1. queue[n] \notin X!ActiveUrbs
        BY <2>2, <3>3
      <4>2. queue[m] \notin X!ActiveUrbs
        BY <2>2, <3>1, <4>1 DEF X!SuccessInv
      <4> QED
        BY <1>4, <3>3, <4>2
    <3> QED
      BY <1>3, <2>2, <3>2, <3>3
  <2> QED
    BY <2>1, <2>2 DEF X!CancelledInv
<1>8. X!SuccessInv'
  <2> SUFFICES ASSUME NEW m \in DOMAIN queue, NEW n \in DOMAIN queue, m < n
               PROVE  /\ X!EndedAs(queue[n], "ok")' => queue[m] \notin X!ActiveUrbs'
                      /\ \A j, k \in DOMAIN finished' :
                           finished'[j].urb = queue[m] /\ finished'[k].urb = queue[n] /\ finished'[k].status = "ok" => j < k
                      /\ queue[n] \notin X!kernel' /\ status[queue[n]] = "ok" => queue[m] \notin X!kernel'
    BY DEF X!SuccessInv
  <2>1. X!EndedAs(queue[n], "ok")' => queue[m] \notin X!ActiveUrbs'
    BY <1>2, <1>3, <1>5 DEF X!SuccessInv
  <2>2. queue[n] \notin X!kernel' /\ status[queue[n]] = "ok" => queue[m] \notin X!kernel'
    BY <1>4 DEF X!SuccessInv
  <2>3. ASSUME NEW j \in DOMAIN finished', NEW k \in DOMAIN finished',
               finished'[j].urb = queue[m], finished'[k].urb = queue[n], finished'[k].status = "ok"
        PROVE  j < k
    <3> DEFINE last == Len(finished) + 1
    <3>1. /\ j # last => j \in DOMAIN finished /\ finished'[j] = finished[j] /\ j < last
          /\ k # last => k \in DOMAIN finished /\ finished'[k] = finished[k] /\ k < last
          /\ j = last => queue[m] = urbs[i]
          /\ k = last => queue[n] = urbs[i]
      BY <1>0, <2>3, Moved
    <3>2. CASE j = last
      <4>1. k # last
        BY <1>0, <3>1, <3>2 DEF X!HandleInv
      <4>2. X!EndedAs(queue[n], "ok")
        BY <2>3, <3>1, <4>1 DEF X!EndedAs
      <4> QED
        BY <1>4, <3>1, <3>2, <4>2 DEF X!SuccessInv
    <3>3. CASE j # last /\ k = last
      BY <3>1, <3>3
    <3>4. CASE j # last /\ k # last
      BY <2>3, <3>1, <3>4 DEF X!SuccessInv
    <3> QED
      BY <3>2, <3>3, <3>4
  <2> QED
    BY <2>1, <2>2, <2>3
<1> QED
  BY <1>1, <1>6, <1>7, <1>8

\* The URB of t has ended with s in the next state.
EndedNext(t, s) ==
  \/ \E i \in DOMAIN finished' : finished'[i].urb = t /\ finished'[i].status = s
  \/ t \notin X!kernel' /\ status'[t] = s

\* What CancelledInv and SuccessInv say of the next state.
LEMMA NextResults ==
  /\ X!CancelledInv' <=>
       /\ \A n \in DOMAIN queue' : EndedNext(queue'[n], "cancelled") => buffer'[queue'[n]] \in linuxAsked'
       /\ \A m, n \in DOMAIN queue' :
            m < n /\ EndedNext(queue'[m], "cancelled")
              /\ (queue'[n] \in X!ActiveUrbs' \/ EndedNext(queue'[n], "ok"))
            => buffer'[queue'[m]] \in linuxAfter'[buffer'[queue'[n]]]
  /\ X!SuccessInv' <=>
       \A m, n \in DOMAIN queue' :
         m < n =>
           /\ EndedNext(queue'[n], "ok") => queue'[m] \notin X!ActiveUrbs'
           /\ \A j, k \in DOMAIN finished' :
                finished'[j].urb = queue'[m] /\ finished'[k].urb = queue'[n] /\ finished'[k].status = "ok" => j < k
           /\ (queue'[n] \notin X!kernel' /\ status'[queue'[n]] = "ok") => queue'[m] \notin X!kernel'
<1>1. X!CancelledInv' <=>
       /\ \A n \in DOMAIN queue' : EndedNext(queue'[n], "cancelled") => buffer'[queue'[n]] \in linuxAsked'
       /\ \A m, n \in DOMAIN queue' :
            m < n /\ EndedNext(queue'[m], "cancelled")
              /\ (queue'[n] \in X!ActiveUrbs' \/ EndedNext(queue'[n], "ok"))
            => buffer'[queue'[m]] \in linuxAfter'[buffer'[queue'[n]]]
  BY DEF X!CancelledInv, X!EndedAs, EndedNext
<1>2. X!SuccessInv' <=>
       \A m, n \in DOMAIN queue' :
         m < n =>
           /\ EndedNext(queue'[n], "ok") => queue'[m] \notin X!ActiveUrbs'
           /\ \A j, k \in DOMAIN finished' :
                finished'[j].urb = queue'[m] /\ finished'[k].urb = queue'[n] /\ finished'[k].status = "ok" => j < k
           /\ (queue'[n] \notin X!kernel' /\ status'[queue'[n]] = "ok") => queue'[m] \notin X!kernel'
  BY DEF X!SuccessInv, X!EndedAs, EndedNext
<1> QED
  BY <1>1, <1>2

\* A step that leaves the queue, its buffers, its URBs and their results alone.
LEMMA ResultsKept ==
  ASSUME X!LinuxInv, X!UrbInv, X!ScheduleInv, X!CancelledInv, X!SuccessInv,
         UNCHANGED <<queue, urbs, finished, linuxAfter>>,
         \A n \in DOMAIN queue : status'[queue[n]] = status[queue[n]] /\ buffer'[queue[n]] = buffer[queue[n]],
         \A n \in DOMAIN queue : buffer[queue[n]] \in linuxAsked => buffer[queue[n]] \in linuxAsked'
  PROVE  X!UrbInv' /\ X!ScheduleInv' /\ X!CancelledInv' /\ X!SuccessInv'
<1>1. X!kernel' = X!kernel /\ X!ActiveUrbs' = X!ActiveUrbs
  BY DEF X!kernel, X!DoneUrbs, X!ActiveUrbs
<1>2. \A r : \A n \in DOMAIN queue : EndedNext(queue[n], r) <=> X!EndedAs(queue[n], r)
  BY <1>1 DEF X!EndedAs, EndedNext
<1>3. X!UrbInv'
  BY DEF X!UrbInv
<1>4. X!ScheduleInv'
  BY DEF X!ScheduleInv
<1>5. X!CancelledInv'
  BY <1>1, <1>2, NextResults DEF X!CancelledInv
<1>6. X!SuccessInv'
  BY <1>1, <1>2, NextResults DEF X!SuccessInv
<1> QED
  BY <1>3, <1>4, <1>5, <1>6

\* A transfer enters the queue: the last of the schedule too, or complete and not with success.
LEMMA PushResults ==
  ASSUME X!LinuxInv, X!UrbInv, X!ScheduleInv, X!CancelledInv, X!SuccessInv,
         NEW t \in Transfers, queue' = Append(queue, t), \A n \in DOMAIN queue : queue[n] # t,
         t \notin X!kernel, UNCHANGED <<finished, linuxAsked>>,
         \A u \in Transfers : u # t => status'[u] = status[u] /\ buffer'[u] = buffer[u],
         buffer'[t] \in LinuxBuffers \ X!Queued,
         linuxAfter' = [linuxAfter EXCEPT ![buffer'[t]] = linuxAsked],
         \/ urbs' = Append(urbs, t)
         \/ urbs' = urbs /\ status'[t] \in {"error", "invalid"}
  PROVE  X!UrbInv' /\ X!ScheduleInv' /\ X!CancelledInv' /\ X!SuccessInv'
<1> DEFINE last == Len(queue) + 1
<1>0. /\ X!TypeOK /\ DOMAIN queue = 1..Len(queue) /\ Len(queue) \in Nat /\ queue \in Seq(Transfers)
      /\ DOMAIN urbs = 1..Len(urbs) /\ Len(urbs) \in Nat /\ urbs \in Seq(Transfers)
      /\ \A n \in DOMAIN queue : queue[n] \in Transfers /\ buffer[queue[n]] \in X!Queued
  BY LinuxFacts, LinuxQueues, QueuedBuffers
<1>1. \A n \in DOMAIN queue' : /\ n \in Nat
                               /\ n = last => queue'[n] = t
                               /\ n # last => n \in DOMAIN queue /\ queue'[n] = queue[n] /\ n < last
  <2>1. /\ Len(queue') = Len(queue) + 1 /\ queue' \in Seq(Transfers)
        /\ (\A j \in 1..Len(queue) : queue'[j] = queue[j])
        /\ queue'[Len(queue) + 1] = t
    BY <1>0, Appended
  <2>2. DOMAIN queue' = 1..(Len(queue) + 1)
    BY <2>1
  <2> QED
    BY <1>0, <2>1, <2>2
<1>2. \A i \in DOMAIN urbs' : /\ i \in Nat
                              /\ i \in DOMAIN urbs => urbs'[i] = urbs[i] /\ urbs'[i] \in X!ActiveUrbs
                              /\ i \notin DOMAIN urbs => urbs'[i] = t /\ i = Len(urbs) + 1
  <2>1. CASE urbs' = urbs
    <3>1. \A i \in DOMAIN urbs : i \in Nat /\ urbs[i] \in X!ActiveUrbs
      BY <1>0 DEF X!ActiveUrbs
    <3> QED
      BY <2>1, <3>1
  <2>2. CASE urbs' = Append(urbs, t)
    <3>1. /\ Len(urbs') = Len(urbs) + 1 /\ urbs' \in Seq(Transfers)
          /\ (\A j \in 1..Len(urbs) : urbs'[j] = urbs[j])
          /\ urbs'[Len(urbs) + 1] = t
      BY <1>0, <2>2, Appended
    <3>2. DOMAIN urbs' = 1..(Len(urbs) + 1)
      BY <3>1
    <3> QED
      BY <1>0, <3>1, <3>2 DEF X!ActiveUrbs
  <2> QED
    BY <2>1, <2>2
<1>3. \A i \in DOMAIN urbs : i \in DOMAIN urbs' /\ urbs'[i] = urbs[i]
  <2>1. CASE urbs' = Append(urbs, t)
    <3>1. Len(urbs') = Len(urbs) + 1 /\ urbs' \in Seq(Transfers) /\ \A j \in 1..Len(urbs) : urbs'[j] = urbs[j]
      BY <1>0, <2>1, Appended
    <3>2. DOMAIN urbs' = 1..(Len(urbs) + 1)
      BY <3>1
    <3> QED
      BY <1>0, <3>1, <3>2
  <2> QED
    BY <2>1
<1> HIDE DEF last
<1>4. \A u : u # t => (u \in X!ActiveUrbs' <=> u \in X!ActiveUrbs)
  BY <1>2, <1>3 DEF X!ActiveUrbs
<1>5. \A u : u # t => (u \in X!kernel' <=> u \in X!kernel)
  BY <1>4 DEF X!kernel, X!DoneUrbs
<1>6. \A r : \A u \in Transfers : u # t => (EndedNext(u, r) <=> X!EndedAs(u, r))
  BY <1>5 DEF X!EndedAs, EndedNext
<1>7. t \notin X!ActiveUrbs /\ \A i \in DOMAIN finished : finished[i].urb # t
  BY InKernel
<1>8. ~EndedNext(t, "cancelled") /\ ~EndedNext(t, "ok") /\ (t \notin X!kernel' => status'[t] # "ok")
  <2>1. CASE urbs' = Append(urbs, t)
    <3>1. Len(urbs) + 1 \in DOMAIN urbs' /\ urbs'[Len(urbs) + 1] = t
      <4>1. Len(urbs') = Len(urbs) + 1 /\ urbs' \in Seq(Transfers) /\ urbs'[Len(urbs) + 1] = t
        BY <1>0, <2>1, Appended
      <4> QED
        BY <1>0, <4>1
    <3>2. t \in X!kernel'
      BY <3>1 DEF X!kernel, X!ActiveUrbs
    <3> QED
      BY <1>7, <3>2 DEF X!EndedAs, EndedNext
  <2>2. CASE status'[t] \in {"error", "invalid"}
    BY <1>7, <2>2 DEF X!EndedAs, EndedNext
  <2> QED
    BY <2>1, <2>2
<1>9. X!UrbInv'
  BY <1>0, <1>2, <1>7 DEF X!UrbInv, X!ActiveUrbs
<1>10. X!ScheduleInv'
  <2> SUFFICES ASSUME NEW i \in DOMAIN urbs', NEW j \in DOMAIN urbs', NEW m \in DOMAIN queue', NEW n \in DOMAIN queue',
                      i < j, urbs'[i] = queue'[m], urbs'[j] = queue'[n]
               PROVE  m < n
    BY DEF X!ScheduleInv
  <2>1. i \in DOMAIN urbs /\ urbs'[i] = urbs[i]
    <3>1. /\ i \in Nat /\ (i \in DOMAIN urbs \/ i = Len(urbs) + 1)
          /\ j \in Nat /\ (j \in DOMAIN urbs \/ j = Len(urbs) + 1)
      BY <1>2
    <3>2. j <= Len(urbs) + 1
      BY <1>0, <3>1
    <3>3. i # Len(urbs) + 1
      BY <1>0, <3>1, <3>2
    <3> QED
      BY <1>2, <3>1, <3>3
  <2>2. m # last /\ m \in DOMAIN queue /\ queue'[m] = queue[m] /\ m < last
    <3>1. queue'[m] \in X!ActiveUrbs
      BY <1>2, <2>1
    <3>2. m # last
      BY <1>1, <1>7, <3>1
    <3> QED
      BY <1>1, <3>2
  <2>3. CASE n = last
    BY <2>2, <2>3
  <2>4. CASE n # last
    <3>1. n \in DOMAIN queue /\ queue'[n] = queue[n] /\ queue[n] # t
      BY <1>1, <2>4
    <3>2. j \in DOMAIN urbs /\ urbs'[j] = urbs[j]
      BY <1>2, <3>1
    <3> QED
      BY <2>1, <2>2, <3>1, <3>2 DEF X!ScheduleInv
  <2> QED
    BY <2>3, <2>4
<1>11. X!CancelledInv'
  <2>1. ASSUME NEW m \in DOMAIN queue', EndedNext(queue'[m], "cancelled")
        PROVE  /\ m # last /\ m \in DOMAIN queue /\ queue'[m] = queue[m] /\ queue[m] \in Transfers /\ queue[m] # t
               /\ buffer'[queue'[m]] = buffer[queue[m]] /\ buffer[queue[m]] \in linuxAsked /\ X!EndedAs(queue[m], "cancelled")
    <3>1. m # last
      BY <1>1, <1>8, <2>1
    <3>2. m \in DOMAIN queue /\ queue'[m] = queue[m] /\ queue[m] \in Transfers /\ queue[m] # t
      BY <1>0, <1>1, <3>1
    <3> QED
      BY <1>6, <2>1, <3>1, <3>2 DEF X!CancelledInv
  <2>2. ASSUME NEW m \in DOMAIN queue', NEW n \in DOMAIN queue', m < n, EndedNext(queue'[m], "cancelled"),
               queue'[n] \in X!ActiveUrbs' \/ EndedNext(queue'[n], "ok")
        PROVE  buffer'[queue'[m]] \in linuxAfter'[buffer'[queue'[n]]]
    <3>1. CASE n = last
      <4>1. linuxAfter'[buffer'[t]] = linuxAsked
        BY <1>0 DEF X!TypeOK
      <4> QED
        BY <1>1, <2>1, <2>2, <3>1, <4>1
    <3>2. CASE n # last
      <4>1. n \in DOMAIN queue /\ queue'[n] = queue[n] /\ queue[n] \in Transfers /\ queue[n] # t /\ buffer'[queue[n]] = buffer[queue[n]]
        BY <1>0, <1>1, <3>2
      <4>2. queue[n] \in X!ActiveUrbs \/ X!EndedAs(queue[n], "ok")
        BY <1>4, <1>6, <2>2, <4>1
      <4>3. buffer[queue[m]] \in linuxAfter[buffer[queue[n]]]
        BY <2>1, <2>2, <4>1, <4>2 DEF X!CancelledInv
      <4>4. linuxAfter'[buffer[queue[n]]] = linuxAfter[buffer[queue[n]]]
        BY <1>0, <4>1
      <4> QED
        BY <2>1, <2>2, <4>1, <4>3, <4>4
    <3> QED
      BY <3>1, <3>2
  <2> QED
    BY <2>1, <2>2, NextResults
<1>12. X!SuccessInv'
  <2> SUFFICES ASSUME NEW m \in DOMAIN queue', NEW n \in DOMAIN queue', m < n
               PROVE  /\ EndedNext(queue'[n], "ok") => queue'[m] \notin X!ActiveUrbs'
                      /\ \A j, k \in DOMAIN finished' :
                           finished'[j].urb = queue'[m] /\ finished'[k].urb = queue'[n] /\ finished'[k].status = "ok" => j < k
                      /\ (queue'[n] \notin X!kernel' /\ status'[queue'[n]] = "ok") => queue'[m] \notin X!kernel'
    BY NextResults
  <2>1. m # last /\ m \in DOMAIN queue /\ queue'[m] = queue[m] /\ queue[m] # t
    <3>1. m # last
      <4>1. n \in Nat /\ m \in Nat /\ last \in Nat /\ (n = last \/ n < last)
        BY <1>0, <1>1 DEF last
      <4> QED
        BY <4>1
    <3> QED
      BY <1>1, <3>1
  <2>2. CASE n = last
    BY <1>1, <1>7, <1>8, <2>2
  <2>3. CASE n # last
    <3>1. n \in DOMAIN queue /\ queue'[n] = queue[n] /\ queue[n] \in Transfers /\ queue[n] # t /\ status'[queue[n]] = status[queue[n]]
      BY <1>0, <1>1, <2>3
    <3> QED
      BY <1>4, <1>5, <1>6, <2>1, <3>1 DEF X!SuccessInv
  <2> QED
    BY <2>2, <2>3
<1> QED
  BY <1>9, <1>10, <1>11, <1>12

\* The oldest transfer leaves the queue, and its buffer what it was noted for.
LEMMA TailResults ==
  ASSUME X!LinuxInv, X!UrbInv, X!ScheduleInv, X!CancelledInv, X!SuccessInv,
         queue # <<>>, queue' = Tail(queue), UNCHANGED <<urbs, finished>>,
         \A u \in Transfers : u # queue[1] => status'[u] = status[u] /\ buffer'[u] = buffer[u],
         linuxAsked' = linuxAsked \ {buffer[queue[1]]},
         linuxAfter' = [b \in LinuxBuffers |-> linuxAfter[b] \ {buffer[queue[1]]}]
  PROVE  X!UrbInv' /\ X!ScheduleInv' /\ X!CancelledInv' /\ X!SuccessInv'
<1>0. /\ X!TypeOK /\ X!HandleInv /\ X!BufferInv /\ DOMAIN queue = 1..Len(queue) /\ Len(queue) \in Nat
      /\ queue \in Seq(Transfers) /\ \A n \in DOMAIN queue : queue[n] \in Transfers
  BY LinuxFacts, LinuxQueues
<1>1. \A n \in DOMAIN queue' : n \in Nat /\ n + 1 \in DOMAIN queue /\ queue'[n] = queue[n + 1] /\ n + 1 # 1
  <2>1. /\ queue' \in Seq(Transfers) /\ Len(queue') = Len(queue) - 1
        /\ \A j \in 1..(Len(queue) - 1) : queue'[j] = queue[j + 1]
    BY <1>0, Popped
  <2>2. DOMAIN queue' = 1..(Len(queue) - 1)
    BY <2>1
  <2> QED
    BY <1>0, <2>1, <2>2
<1>2. 1 \in DOMAIN queue
  BY <1>0, Popped
<1>3. \A n \in DOMAIN queue' : /\ queue[n + 1] \in Transfers /\ queue[n + 1] # queue[1]
                               /\ buffer[queue[n + 1]] \in LinuxBuffers /\ buffer[queue[n + 1]] # buffer[queue[1]]
  BY <1>0, <1>1, <1>2 DEF X!HandleInv, X!BufferInv
<1>4. \A n \in DOMAIN queue' : buffer'[queue'[n]] = buffer[queue[n + 1]] /\ status'[queue'[n]] = status[queue[n + 1]]
  BY <1>1, <1>3
<1>5. X!kernel' = X!kernel /\ X!ActiveUrbs' = X!ActiveUrbs
  BY DEF X!kernel, X!DoneUrbs, X!ActiveUrbs
<1>6. \A r : \A n \in DOMAIN queue' : EndedNext(queue'[n], r) <=> X!EndedAs(queue[n + 1], r)
  BY <1>1, <1>4, <1>5 DEF X!EndedAs, EndedNext
<1>7. X!UrbInv'
  BY DEF X!UrbInv
<1>8. X!ScheduleInv'
  <2> SUFFICES ASSUME NEW i \in DOMAIN urbs, NEW j \in DOMAIN urbs, NEW m \in DOMAIN queue', NEW n \in DOMAIN queue',
                      i < j, urbs[i] = queue'[m], urbs[j] = queue'[n]
               PROVE  m < n
    BY DEF X!ScheduleInv
  <2>1. m + 1 < n + 1
    BY <1>1 DEF X!ScheduleInv
  <2> QED
    BY <1>1, <2>1
<1>9. X!CancelledInv'
  <2>1. ASSUME NEW m \in DOMAIN queue', EndedNext(queue'[m], "cancelled") PROVE buffer'[queue'[m]] \in linuxAsked'
    <3>1. buffer[queue[m + 1]] \in linuxAsked
      BY <1>1, <1>6, <2>1 DEF X!CancelledInv
    <3> QED
      BY <1>3, <1>4, <3>1
  <2>2. ASSUME NEW m \in DOMAIN queue', NEW n \in DOMAIN queue', m < n, EndedNext(queue'[m], "cancelled"),
               queue'[n] \in X!ActiveUrbs' \/ EndedNext(queue'[n], "ok")
        PROVE  buffer'[queue'[m]] \in linuxAfter'[buffer'[queue'[n]]]
    <3>1. m + 1 < n + 1
      BY <1>1, <2>2
    <3>2. queue[n + 1] \in X!ActiveUrbs \/ X!EndedAs(queue[n + 1], "ok")
      BY <1>1, <1>5, <1>6, <2>2
    <3>3. X!EndedAs(queue[m + 1], "cancelled")
      BY <1>6, <2>2
    <3>4. buffer[queue[m + 1]] \in linuxAfter[buffer[queue[n + 1]]]
      BY <1>1, <3>1, <3>2, <3>3 DEF X!CancelledInv
    <3> QED
      BY <1>3, <1>4, <3>4
  <2> QED
    BY <2>1, <2>2, NextResults
<1>10. X!SuccessInv'
  <2> SUFFICES ASSUME NEW m \in DOMAIN queue', NEW n \in DOMAIN queue', m < n
               PROVE  /\ EndedNext(queue'[n], "ok") => queue'[m] \notin X!ActiveUrbs'
                      /\ \A j, k \in DOMAIN finished' :
                           finished'[j].urb = queue'[m] /\ finished'[k].urb = queue'[n] /\ finished'[k].status = "ok" => j < k
                      /\ (queue'[n] \notin X!kernel' /\ status'[queue'[n]] = "ok") => queue'[m] \notin X!kernel'
    BY NextResults
  <2>1. m + 1 < n + 1 /\ m + 1 \in DOMAIN queue /\ n + 1 \in DOMAIN queue
    BY <1>1
  <2>2. /\ X!EndedAs(queue[n + 1], "ok") => queue[m + 1] \notin X!ActiveUrbs
        /\ \A j, k \in DOMAIN finished :
             finished[j].urb = queue[m + 1] /\ finished[k].urb = queue[n + 1] /\ finished[k].status = "ok" => j < k
        /\ queue[n + 1] \notin X!kernel /\ status[queue[n + 1]] = "ok" => queue[m + 1] \notin X!kernel
    BY <2>1 DEF X!SuccessInv
  <2> QED
    BY <1>1, <1>4, <1>5, <1>6, <2>2
<1> QED
  BY <1>7, <1>8, <1>9, <1>10

\* The event thread reaps the first URB that has ended: nothing ends, and nothing before what
\* succeeded is still with usbfs.
LEMMA ReapResults ==
  ASSUME X!LinuxInv, X!UrbInv, X!ScheduleInv, X!CancelledInv, X!SuccessInv, X!ReapUrb
  PROVE  X!UrbInv' /\ X!ScheduleInv' /\ X!CancelledInv' /\ X!SuccessInv'
<1> DEFINE R == [urb : Transfers, status : X!Statuses]
           t == finished[1].urb
           s == finished[1].status
<1>0. finished # <<>> /\ finished' = Tail(finished) /\ status' = [status EXCEPT ![Head(finished).urb] = Head(finished).status]
  BY DEF X!ReapUrb
<1>1. UNCHANGED <<queue, buffer, urbs, linuxAsked, linuxAfter>>
  BY DEF X!ReapUrb, X!owner, X!ghosts
<1>2. /\ status \in [Transfers -> X!Statuses] /\ DOMAIN queue = 1..Len(queue) /\ Len(queue) \in Nat
      /\ \A n \in DOMAIN queue : queue[n] \in Transfers
  BY LinuxFacts, LinuxQueues DEF Rest
<1>3. finished \in Seq(R) /\ DOMAIN finished = 1..Len(finished) /\ Len(finished) \in Nat
  BY LinuxFacts, LinuxQueues
<1> HIDE DEF R
<1>4. /\ Tail(finished) \in Seq(R) /\ Len(Tail(finished)) = Len(finished) - 1 /\ Head(finished) = finished[1]
      /\ 1 \in 1..Len(finished) /\ \A j \in 1..(Len(finished) - 1) : Tail(finished)[j] = finished[j + 1]
  BY <1>0, <1>3, Popped
<1>5. DOMAIN finished' = 1..(Len(finished) - 1)
  BY <1>0, <1>4
<1>6. \A j \in DOMAIN finished' : j \in Nat /\ j + 1 \in DOMAIN finished /\ j + 1 # 1 /\ finished'[j] = finished[j + 1]
  BY <1>0, <1>3, <1>4, <1>5
<1>7. \A k \in DOMAIN finished : k # 1 => \E j \in DOMAIN finished' : k = j + 1 /\ finished'[j] = finished[k]
  <2> TAKE k \in DOMAIN finished
  <2>1. k # 1 => k - 1 \in DOMAIN finished' /\ k = (k - 1) + 1
    BY <1>3, <1>5
  <2> QED
    BY <1>6, <2>1
<1>8. 1 \in DOMAIN finished /\ t \in Transfers
  <2>1. finished[1] \in R
    BY <1>3, <1>4
  <2> QED
    BY <1>3, <1>4, <2>1 DEF R
<1>9. \A u \in Transfers : status'[u] = IF u = t THEN s ELSE status[u]
  BY <1>0, <1>2, <1>4
<1>10. X!ActiveUrbs' = X!ActiveUrbs
  BY <1>1 DEF X!ActiveUrbs
<1> HIDE DEF t, s
<1>11. \A i \in DOMAIN finished : finished[i].urb = t <=> i = 1
  BY <1>8 DEF X!UrbInv, t
<1>12. t \notin X!ActiveUrbs
  BY <1>8 DEF X!UrbInv, X!ActiveUrbs, t
<1>13. \A u : (\E j \in DOMAIN finished' : finished'[j].urb = u) <=> u # t /\ \E i \in DOMAIN finished : finished[i].urb = u
  BY <1>6, <1>7, <1>11
<1>14. \A u : u \in X!kernel' <=> u \in X!kernel /\ u # t
  <2>1. \A u : u \in X!kernel' <=> u \in X!ActiveUrbs' \/ \E j \in DOMAIN finished' : finished'[j].urb = u
    BY DEF X!kernel, X!DoneUrbs
  <2> QED
    BY <1>10, <1>12, <1>13, <2>1, InKernel
<1>15. t \in X!kernel
  BY <1>8, InKernel DEF t
<1>16. \A r : \A u \in Transfers : EndedNext(u, r) <=> X!EndedAs(u, r)
  <2> TAKE r
  <2> TAKE u \in Transfers
  <2>1. CASE u = t
    <3>1. X!EndedAs(t, r) <=> r = s
      BY <1>8, <1>11, <1>15 DEF X!EndedAs, t, s
    <3>2. EndedNext(t, r) <=> r = s
      <4>1. \A j \in DOMAIN finished' : finished'[j].urb # t
        BY <1>13
      <4> QED
        BY <1>8, <1>9, <1>14, <4>1 DEF EndedNext
    <3> QED
      BY <2>1, <3>1, <3>2
  <2>2. CASE u # t
    <3>1. (\E j \in DOMAIN finished' : finished'[j].urb = u /\ finished'[j].status = r)
            <=> \E i \in DOMAIN finished : finished[i].urb = u /\ finished[i].status = r
      BY <1>6, <1>7, <1>11, <2>2
    <3> QED
      BY <1>9, <1>14, <2>2, <3>1 DEF X!EndedAs, EndedNext
  <2> QED
    BY <2>1, <2>2
<1>17. X!UrbInv'
  <2>1. \A i, j \in DOMAIN finished' : finished'[i].urb = finished'[j].urb => i = j
    <3> TAKE i, j \in DOMAIN finished'
    <3>1. finished'[i].urb = finished'[j].urb => i + 1 = j + 1
      BY <1>6 DEF X!UrbInv
    <3> QED
      BY <1>6, <3>1
  <2>2. \A i \in DOMAIN urbs', j \in DOMAIN finished' : urbs'[i] # finished'[j].urb
    BY <1>1, <1>6 DEF X!UrbInv
  <2> QED
    BY <1>1, <2>1, <2>2 DEF X!UrbInv
<1>18. X!ScheduleInv'
  BY <1>1 DEF X!ScheduleInv
<1>19. X!CancelledInv'
  BY <1>1, <1>2, <1>10, <1>16, NextResults DEF X!CancelledInv
<1>20. X!SuccessInv'
  <2> SUFFICES ASSUME NEW m \in DOMAIN queue, NEW n \in DOMAIN queue, m < n
               PROVE  /\ EndedNext(queue[n], "ok") => queue[m] \notin X!ActiveUrbs'
                      /\ \A j, k \in DOMAIN finished' :
                           finished'[j].urb = queue[m] /\ finished'[k].urb = queue[n] /\ finished'[k].status = "ok" => j < k
                      /\ (queue[n] \notin X!kernel' /\ status'[queue[n]] = "ok") => queue[m] \notin X!kernel'
    BY <1>1, NextResults
  <2>1. /\ X!EndedAs(queue[n], "ok") => queue[m] \notin X!ActiveUrbs
        /\ \A j, k \in DOMAIN finished :
             finished[j].urb = queue[m] /\ finished[k].urb = queue[n] /\ finished[k].status = "ok" => j < k
        /\ queue[n] \notin X!kernel /\ status[queue[n]] = "ok" => queue[m] \notin X!kernel
    BY DEF X!SuccessInv
  <2>2. EndedNext(queue[n], "ok") => queue[m] \notin X!ActiveUrbs'
    BY <1>2, <1>10, <1>16, <2>1
  <2>3. ASSUME NEW j \in DOMAIN finished', NEW k \in DOMAIN finished',
               finished'[j].urb = queue[m], finished'[k].urb = queue[n], finished'[k].status = "ok"
        PROVE  j < k
    <3>1. j + 1 < k + 1
      BY <1>6, <2>1, <2>3
    <3> QED
      BY <1>6, <3>1
  <2>4. ASSUME queue[n] \notin X!kernel', status'[queue[n]] = "ok" PROVE queue[m] \notin X!kernel'
    <3>1. CASE queue[n] = t
      <4>1. s = "ok" /\ X!EndedAs(t, "ok")
        BY <1>8, <1>9, <2>4, <3>1 DEF X!EndedAs, t, s
      <4>2. queue[m] \notin X!ActiveUrbs
        BY <2>1, <3>1, <4>1
      <4>3. \A j \in DOMAIN finished : finished[j].urb # queue[m]
        <5>1. \A j \in DOMAIN finished : finished[j].urb = queue[m] => j < 1
          BY <1>8, <2>1, <3>1, <4>1 DEF t, s
        <5> QED
          BY <1>3, <5>1
      <4> QED
        BY <1>14, <4>2, <4>3, InKernel
    <3>2. CASE queue[n] # t
      BY <1>2, <1>9, <1>14, <2>1, <2>4, <3>2
    <3> QED
      BY <3>1, <3>2
  <2> QED
    BY <2>2, <2>3, <2>4
<1> QED
  BY <1>17, <1>18, <1>19, <1>20

\* What cancel_all has visited stays off the schedule.
LEMMA WalkStep ==
  ASSUME X!LinuxInv, X!UrbInv, X!WalkInv, [X!Next]_linuxEndpoint
  PROVE  X!WalkInv'
<1> USE LinuxFacts DEF X!usbfs, X!owner, X!handshake, X!shared, X!ghosts
<1>0. /\ upc # "run" => linuxPhase = "open"
      /\ linuxPhase \in {"cancel", "dropCancel"} =>
           \A n \in DOMAIN queue : (n > cursor => queue[n] \notin X!ActiveUrbs) /\ buffer[queue[n]] \in linuxAsked
  BY DEF X!CallerInv, X!WalkInv
<1>1. ASSUME linuxPhase' \notin {"cancel", "dropCancel"} PROVE X!WalkInv'
  BY <1>1 DEF X!WalkInv
<1>2. ASSUME UNCHANGED <<queue, buffer, linuxAsked, linuxPhase, cursor>>, X!ActiveUrbs' \subseteq X!ActiveUrbs
      PROVE  X!WalkInv'
  BY <1>0, <1>2 DEF X!WalkInv
<1>3. UNCHANGED urbs => X!ActiveUrbs' = X!ActiveUrbs
  BY DEF X!ActiveUrbs
<1>4. ASSUME NEW p, X!StartCancel(p) PROVE X!WalkInv'
  <2>1. UNCHANGED <<queue, buffer>> /\ cursor' = Len(queue) /\ linuxAsked' = X!Queued
    BY <1>4 DEF X!StartCancel, X!FirstToCancel
  <2>2. \A n \in DOMAIN queue : ~(n > Len(queue)) /\ buffer[queue[n]] \in X!Queued
    BY QueuedBuffers
  <2> QED
    BY <2>1, <2>2 DEF X!WalkInv
<1>5. CASE X!Cancel
  <2>1. UNCHANGED <<queue, buffer, linuxAsked, linuxPhase, status>> /\ cursor' = cursor - 1 /\ cursor > 0
        /\ linuxPhase \in {"cancel", "dropCancel"}
    BY <1>5 DEF X!Cancel, X!MoreToCancel
  <2>2. X!ActiveUrbs' \subseteq X!ActiveUrbs /\ queue[cursor] \notin X!ActiveUrbs'
    <3>1. CASE \E i \in DOMAIN urbs : urbs[i] = queue[cursor] /\ Moves(i, "cancelled")
      BY <2>1, <3>1, MovedEnds
    <3>2. CASE queue[cursor] \notin X!ActiveUrbs /\ UNCHANGED urbs
      BY <1>3, <3>2
    <3> QED
      BY <1>5, <3>1, <3>2 DEF X!Cancel, X!Visited, Moves
  <2>3. \A n \in DOMAIN queue : n > cursor' => n = cursor \/ n > cursor
    BY <2>1
  <2> QED
    BY <1>0, <2>1, <2>2, <2>3 DEF X!WalkInv
<1>6. ASSUME NEW s \in {"ok", "error"}, X!FinishUrb(s) PROVE X!WalkInv'
  <2>1. UNCHANGED <<queue, buffer, linuxAsked, linuxPhase, cursor, status>>
    BY <1>6 DEF X!FinishUrb
  <2>2. X!ActiveUrbs' \subseteq X!ActiveUrbs
    BY <1>6, <2>1, FinishMoves, MovedEnds
  <2> QED
    BY <1>2, <2>1, <2>2
<1>7. CASE \E t \in Transfers, b \in LinuxBuffers : X!Submit(t, b) \/ X!SubmitErr(t, b)
  BY <1>1, <1>7 DEF X!Submit, X!SubmitErr, X!Ready
<1>8. CASE \/ X!WaitStep \/ X!GiveUp \/ X!SubmitUrbFails \/ X!ReapUrb \/ X!ReapNoDevice \/ X!Disconnect
           \/ X!NotifyCompletion(EventThread) \/ X!NotifyCompletion(User)
           \/ X!DropDisplaced \/ X!DropInner \/ \E m \in Modes : X!NextComplete(m)
  <2>1. UNCHANGED <<queue, buffer, linuxAsked, linuxPhase, cursor, urbs>>
    BY <1>8 DEF X!WaitStep, X!GiveUp, X!SubmitUrbFails, X!ReapUrb, X!ReapNoDevice, X!Disconnect, X!NotifyCompletion,
       X!DropDisplaced, X!DropInner, X!NextComplete
  <2> QED
    BY <1>2, <1>3, <2>1
<1>9. CASE X!SubmitUrb \/ X!SubmitReturns \/ X!PopFront
  <2>1. upc # "run" /\ UNCHANGED linuxPhase
    BY <1>9 DEF X!SubmitUrb, X!SubmitReturns, X!PopFront, X!PushBack, X!H!SubmitOk, X!H!SubmitReturn
  <2> QED
    BY <1>0, <1>1, <2>1
<1>10. CASE X!EndCancel \/ X!DropFront \/ X!DropIdleTransfer \/ X!OpenEndpoint
  BY <1>1, <1>10 DEF X!EndCancel, X!DropFront, X!DropIdleTransfer, X!OpenEndpoint
<1>11. CASE X!Drop
  BY <1>1, <1>4, <1>11 DEF X!Drop
<1>12. CASE UNCHANGED linuxEndpoint
  BY <1>2, <1>3, <1>12 DEF linuxEndpoint
<1>13. CASE X!OwnerStep \/ X!EventStep
  BY <1>5, <1>8, <1>9, <1>10, <1>13 DEF X!OwnerStep, X!EventStep
<1> QED
  BY <1>4, <1>6, <1>7, <1>8, <1>10, <1>11, <1>12, <1>13 DEF X!Next

\* What usbfs has refused is completed on the caller's thread, and by no other.
LEMMA InlineStep ==
  ASSUME X!LinuxInv, X!InlineInv, [X!Next]_linuxEndpoint
  PROVE  X!InlineInv'
<1> USE LinuxFacts DEF X!usbfs, X!owner, X!handshake, X!shared, X!ghosts
<1>0. /\ hpc \in [{EventThread} \union {User} -> {"idle", "take", "swap", "wake", "free"}]
      /\ job \in [{EventThread} \union {User} -> Transfers \union {NoTransfer}]
      /\ status \in [Transfers -> X!Statuses] /\ state \in [Transfers -> {"Idle", "Pending", "Abandoned"}]
      /\ User # EventThread
      /\ upc \in {"submit", "inline"} => ut \in Transfers /\ handle[ut] = "pending"
      /\ upc # "run" => linuxPhase = "open"
  BY LinuxAssumption DEF X!H!TypeOK, X!H!Threads, X!H!States, X!CallerInv, Rest
<1>1. upc' # "inline" => X!InlineInv'
  BY DEF X!InlineInv
<1>2. UNCHANGED <<upc, ut, status, state, hpc, job>> => X!InlineInv'
  BY DEF X!InlineInv
<1>3. CASE X!SubmitUrbFails
  <2>1. upc = "submit" /\ ut' = ut /\ status' = [status EXCEPT ![ut] = "error"] /\ hpc' = [hpc EXCEPT ![User] = "take"]
        /\ job' = [job EXCEPT ![User] = ut]
    BY <1>3 DEF X!SubmitUrbFails, X!H!SubmitErr
  <2>2. status'[ut] = "error" /\ hpc'[User] = "take" /\ job'[User] = ut
    BY <1>0, <2>1
  <2> QED
    BY <2>1, <2>2 DEF X!InlineInv
<1>4. CASE X!NotifyCompletion(User)
  <2>1. UNCHANGED <<upc, ut, status>>
    BY <1>4 DEF X!NotifyCompletion, X!H!HandlerStep, X!H!TakeNotifyState, X!H!SwapIdle, X!H!Wake, X!H!Free, X!H!user
  <2> SUFFICES ASSUME upc = "inline" PROVE X!InlineInv'
    BY <1>1, <2>1
  <2>2. /\ status[ut] = "error" /\ ut \in Transfers /\ handle[ut] = "pending" /\ state[ut] # "Abandoned"
        /\ \/ hpc[User] \in {"take", "swap"} /\ job[User] = ut
           \/ hpc[User] \in {"wake", "idle"} /\ state[ut] = "Idle"
    <3>1. ut \in Transfers /\ handle[ut] = "pending"
      BY <1>0
    <3>2. state[ut] # "Abandoned"
      BY <3>1 DEF X!H!IInv, X!H!NoPanic
    <3> QED
      BY <3>1, <3>2 DEF X!InlineInv
  <2>3. CASE X!H!TakeNotifyState(User)
    <3>1. hpc[User] = "take" /\ hpc' = [hpc EXCEPT ![User] = "swap"] /\ job' = job
      BY <2>3 DEF X!H!TakeNotifyState
    <3>2. hpc'[User] = "swap" /\ job'[User] = ut
      BY <1>0, <2>2, <3>1
    <3> QED
      BY <2>1, <2>2, <3>2 DEF X!InlineInv
  <2>4. CASE X!H!SwapIdle(User)
    <3>1. /\ hpc[User] = "swap" /\ state' = [state EXCEPT ![job[User]] = "Idle"]
          /\ hpc' = [hpc EXCEPT ![User] = X!H!AfterSwap(state[job[User]])]
      BY <2>4 DEF X!H!SwapIdle
    <3>2. job[User] = ut
      BY <2>2, <3>1
    <3>3. X!H!AfterSwap(state[ut]) = "wake"
      BY <2>2 DEF X!H!AfterSwap
    <3>4. hpc'[User] = "wake" /\ state'[ut] = "Idle"
      BY <1>0, <2>2, <3>1, <3>2, <3>3
    <3> QED
      BY <2>1, <2>2, <3>4 DEF X!InlineInv
  <2>5. CASE X!H!Wake(User)
    <3>1. hpc[User] = "wake" /\ hpc' = [hpc EXCEPT ![User] = "idle"] /\ state' = state
      BY <2>5 DEF X!H!Wake
    <3>2. hpc'[User] = "idle"
      BY <1>0, <3>1
    <3> QED
      BY <2>1, <2>2, <3>1, <3>2 DEF X!InlineInv
  <2>6. ~X!H!Free(User)
    BY <2>2 DEF X!H!Free
  <2> QED
    BY <1>4, <2>3, <2>4, <2>5, <2>6 DEF X!NotifyCompletion, X!H!HandlerStep
<1>5. CASE X!NotifyCompletion(EventThread)
  <2>1. /\ UNCHANGED <<upc, ut, status>> /\ hpc'[User] = hpc[User] /\ job'[User] = job[User]
        /\ \A t \in Transfers : state[t] = "Idle" => state'[t] = "Idle"
    <3>1. UNCHANGED <<upc, ut, status>>
      BY <1>5 DEF X!NotifyCompletion, X!H!HandlerStep, X!H!TakeNotifyState, X!H!SwapIdle, X!H!Wake, X!H!Free, X!H!user
    <3>2. \/ state' = state
          \/ state' = [state EXCEPT ![job[EventThread]] = "Idle"]
      BY <1>5 DEF X!NotifyCompletion, X!H!HandlerStep, X!H!TakeNotifyState, X!H!SwapIdle, X!H!Wake, X!H!Free
    <3>3. \E x : hpc' = [hpc EXCEPT ![EventThread] = x]
      BY <1>5 DEF X!NotifyCompletion, X!H!HandlerStep, X!H!TakeNotifyState, X!H!SwapIdle, X!H!Wake, X!H!Free
    <3>4. job' = job \/ \E x : job' = [job EXCEPT ![EventThread] = x]
      BY <1>5 DEF X!NotifyCompletion, X!H!HandlerStep, X!H!TakeNotifyState, X!H!SwapIdle, X!H!Wake, X!H!Free
    <3>5. hpc'[User] = hpc[User]
      BY <1>0, <3>3
    <3>6. job'[User] = job[User]
      BY <1>0, <3>4
    <3>7. \A t \in Transfers : state[t] = "Idle" => state'[t] = "Idle"
      BY <1>0, <3>2
    <3> QED
      BY <3>1, <3>5, <3>6, <3>7
  <2> QED
    BY <1>0, <2>1 DEF X!InlineInv
<1>6. CASE X!ReapUrb
  <2>1. /\ UNCHANGED <<upc, ut, state>> /\ hpc' = [hpc EXCEPT ![EventThread] = "take"]
        /\ \E x : job' = [job EXCEPT ![EventThread] = x]
        /\ Head(finished).urb \in X!kernel
        /\ status' = [status EXCEPT ![Head(finished).urb] = Head(finished).status]
    BY <1>6 DEF X!ReapUrb, X!H!Reap, X!H!user
  <2>2. hpc'[User] = hpc[User] /\ job'[User] = job[User]
    BY <1>0, <2>1
  <2>3. ASSUME upc = "inline" PROVE Head(finished).urb # ut
    <3>1. ut \in Transfers /\ handle[ut] = "pending"
      BY <1>0, <2>3
    <3>2. CASE hpc[User] \in {"take", "swap"} /\ job[User] = ut
      BY <2>1, <3>1, <3>2 DEF X!H!IInv, X!H!ExclusiveAccess, X!H!Engaged, X!H!Threads
    <3>3. CASE state[ut] = "Idle"
      BY <2>1, <3>1, <3>3 DEF X!H!IInv, X!H!ExclusiveAccess, X!H!UserOwns, X!H!Out
    <3> QED
      BY <2>3, <3>2, <3>3 DEF X!InlineInv
  <2>4. upc = "inline" => status'[ut] = status[ut]
    BY <1>0, <2>1, <2>3
  <2> QED
    BY <2>1, <2>2, <2>4 DEF X!InlineInv
<1>7. CASE \/ X!Cancel \/ X!EndCancel \/ X!StartCancel("cancel") \/ X!Drop
           \/ X!DropInner \/ X!OpenEndpoint \/ X!Disconnect \/ X!ReapNoDevice
           \/ (\E s \in {"ok", "error"} : X!FinishUrb(s)) \/ UNCHANGED linuxEndpoint
  <2>1. UNCHANGED <<upc, ut, status, state, hpc, job>>
    BY <1>7 DEF X!Cancel, X!EndCancel, X!StartCancel, X!Drop, X!DropInner, X!OpenEndpoint, X!Disconnect,
       X!ReapNoDevice, X!FinishUrb, linuxEndpoint
  <2> QED
    BY <1>2, <2>1
<1>8. CASE \E t \in Transfers, b \in LinuxBuffers : X!Submit(t, b) \/ X!SubmitErr(t, b)
  BY <1>1, <1>8 DEF X!Submit, X!SubmitErr, X!H!PreSubmit, X!H!SimulateComplete, X!H!user
<1>9. CASE \/ X!WaitStep \/ X!GiveUp \/ X!SubmitUrb \/ X!SubmitReturns \/ X!PopFront
           \/ \E m \in Modes : X!NextComplete(m)
  BY <1>1, <1>9 DEF X!WaitStep, X!GiveUp, X!SubmitUrb, X!SubmitReturns, X!PopFront, X!NextComplete,
     X!H!Subscribe, X!H!CheckPending, X!H!Unpark, X!H!SpuriousUnpark, X!H!TaskWoken, X!H!Expire, X!H!TaskMovesOn,
     X!H!SubmitOk, X!H!SubmitReturn, X!H!CheckComplete, X!H!StartWait, X!H!Return
<1>10. CASE X!DropDisplaced \/ X!DropFront
  BY <1>1, <1>10 DEF X!DropDisplaced, X!DropFront, X!H!DropIdle, X!H!DropPending, X!H!user
<1>11. CASE X!DropIdleTransfer
  <2>1. upc' # "inline" \/ UNCHANGED <<upc, ut, status, state, hpc, job>>
    BY <1>11 DEF X!DropIdleTransfer, X!H!DropIdle, X!H!user
  <2> QED
    BY <1>1, <1>2, <2>1
<1>12. CASE X!OwnerStep \/ X!EventStep
  BY <1>3, <1>5, <1>6, <1>7, <1>9, <1>10, <1>11, <1>12 DEF X!OwnerStep, X!EventStep
<1> QED
  BY <1>4, <1>7, <1>8, <1>9, <1>12 DEF X!Next

\* What is out of use, or about to enter the queue, is not with the kernel.
LEMMA NotInKernel ==
  ASSUME X!LinuxInv, NEW t \in Transfers
  PROVE  /\ X!H!HaveIdle(t) => t \notin X!kernel
         /\ upc = "submit" /\ ut = t => t \notin X!kernel
         /\ handle[t] = "pending" /\ state[t] = "Idle" => t \notin X!kernel
<1>1. /\ handle[t] # "none" \/ t \in X!kernel => t \in live
      /\ handle[t] = "idle" \/ (handle[t] = "pending" /\ state[t] = "Idle") => t \notin X!kernel
      /\ t \in X!kernel => ~(upc = "submit" /\ ut = t)
  BY DEF X!LinuxInv, X!H!IInv, X!H!NoDanglingPointer, X!H!ExclusiveAccess, X!H!UserOwns, X!H!Submitting, X!H!Out
<1> QED
  BY <1>1 DEF X!H!HaveIdle

\* What the event thread has at hand came from usbfs.
LEMMA ReapedStep ==
  ASSUME X!LinuxInv, X!ReapedInv, [X!Next]_linuxEndpoint
  PROVE  X!ReapedInv'
<1> USE LinuxFacts DEF X!usbfs, X!owner, X!handshake, X!shared, X!ghosts
<1>0. /\ hpc \in [{EventThread} \union {User} -> {"idle", "take", "swap", "wake", "free"}]
      /\ job \in [{EventThread} \union {User} -> Transfers \union {NoTransfer}]
      /\ status \in [Transfers -> X!Statuses] /\ User # EventThread
      /\ hpc[EventThread] \in {"take", "swap"} => job[EventThread] \in Transfers
  BY LinuxAssumption DEF X!H!TypeOK, X!H!Threads, X!H!IInv, X!H!HandlerInv, Rest
<1>1. /\ \A i \in DOMAIN finished : finished[i].status # "invalid"
      /\ hpc[EventThread] \in {"take", "swap"} => status[job[EventThread]] # "invalid"
  BY DEF X!ReapedInv
<1>2. ASSUME UNCHANGED finished,
             hpc'[EventThread] \in {"take", "swap"} =>
               /\ hpc[EventThread] \in {"take", "swap"} /\ job'[EventThread] = job[EventThread]
               /\ status'[job[EventThread]] \in {status[job[EventThread]], "ok", "error"}
      PROVE  X!ReapedInv'
  <2>1. hpc'[EventThread] \in {"take", "swap"} => status'[job'[EventThread]] # "invalid"
    BY <1>1, <1>2
  <2> QED
    BY <1>1, <1>2, <2>1 DEF X!ReapedInv
<1>3. UNCHANGED <<finished, hpc, job, status>> => X!ReapedInv'
  BY <1>2
<1>4. ASSUME NEW t \in Transfers, NEW b \in LinuxBuffers, X!Submit(t, b) \/ X!SubmitErr(t, b)
      PROVE  X!ReapedInv'
  <2>1. CASE X!Submit(t, b)
    <3>1. UNCHANGED <<finished, hpc, job, status>>
      BY <2>1 DEF X!Submit, X!H!PreSubmit, X!H!handlers
    <3> QED
      BY <1>3, <3>1
  <2>2. CASE X!SubmitErr(t, b)
    <3>1. UNCHANGED <<finished, hpc, job>> /\ status' = [status EXCEPT ![t] = "invalid"] /\ X!H!HaveIdle(t)
      BY <2>2 DEF X!SubmitErr, X!H!SimulateComplete, X!H!handlers
    <3>2. ASSUME hpc[EventThread] \in {"take", "swap"} PROVE job[EventThread] # t
      <4>1. X!H!Engaged(EventThread, job[EventThread])
        BY <3>2 DEF X!H!Engaged
      <4>2. X!H!Out(job[EventThread])
        BY <4>1 DEF X!H!Out, X!H!Threads
      <4>3. job[EventThread] \in live /\ ~X!H!UserOwns(job[EventThread])
        BY <1>0, <3>2, <4>2 DEF X!H!IInv, X!H!NoDanglingPointer, X!H!ExclusiveAccess
      <4> QED
        BY <3>1, <4>3 DEF X!H!HaveIdle, X!H!UserOwns
    <3>3. hpc[EventThread] \in {"take", "swap"} => status'[job[EventThread]] = status[job[EventThread]]
      BY <1>0, <3>1, <3>2
    <3> QED
      BY <1>2, <3>1, <3>3
  <2> QED
    BY <1>4, <2>1, <2>2
<1>5. CASE X!SubmitUrbFails
  <2>1. /\ UNCHANGED finished /\ status' = [status EXCEPT ![ut] = "error"]
        /\ hpc' = [hpc EXCEPT ![User] = "take"] /\ job' = [job EXCEPT ![User] = ut]
    BY <1>5 DEF X!SubmitUrbFails, X!H!SubmitErr
  <2>2. hpc'[EventThread] = hpc[EventThread] /\ job'[EventThread] = job[EventThread]
    BY <1>0, <2>1
  <2>3. hpc[EventThread] \in {"take", "swap"} => status'[job[EventThread]] \in {status[job[EventThread]], "error"}
    BY <1>0, <2>1
  <2> QED
    BY <1>2, <2>1, <2>2, <2>3
<1>6. CASE X!PopFront
  <2>1. UNCHANGED <<finished, hpc, job>> /\ status' = [status EXCEPT ![ut] = "ok"]
    BY <1>6 DEF X!PopFront, X!H!CheckComplete, X!H!handlers
  <2>2. hpc[EventThread] \in {"take", "swap"} => status'[job[EventThread]] \in {status[job[EventThread]], "ok"}
    BY <1>0, <2>1
  <2> QED
    BY <1>2, <2>1, <2>2
<1>7. ASSUME NEW h \in {EventThread, User}, X!NotifyCompletion(h) PROVE X!ReapedInv'
  <2>1. UNCHANGED <<finished, status>>
    BY <1>7 DEF X!NotifyCompletion
  <2>2. \/ job' = job /\ hpc[h] \in {"take", "swap"}
        \/ hpc' = [hpc EXCEPT ![h] = "idle"] /\ \E x : job' = [job EXCEPT ![h] = x]
    BY <1>7 DEF X!NotifyCompletion, X!H!HandlerStep, X!H!TakeNotifyState, X!H!SwapIdle, X!H!Wake, X!H!Free
  <2>3. \E x : hpc' = [hpc EXCEPT ![h] = x]
    BY <1>7 DEF X!NotifyCompletion, X!H!HandlerStep, X!H!TakeNotifyState, X!H!SwapIdle, X!H!Wake, X!H!Free
  <2>4. CASE h = EventThread
    <3>1. hpc'[EventThread] \in {"take", "swap"} => job'[EventThread] = job[EventThread] /\ hpc[EventThread] \in {"take", "swap"}
      BY <1>0, <2>2, <2>4
    <3> QED
      BY <1>2, <2>1, <3>1
  <2>5. CASE h = User
    <3>1. hpc'[EventThread] = hpc[EventThread] /\ job'[EventThread] = job[EventThread]
      BY <1>0, <2>2, <2>3, <2>5
    <3> QED
      BY <1>2, <2>1, <3>1
  <2> QED
    BY <2>4, <2>5
<1>8. CASE X!ReapUrb
  <2> DEFINE R == [urb : Transfers, status : X!Statuses]
  <2>0. finished \in Seq(R) /\ DOMAIN finished = 1..Len(finished) /\ Len(finished) \in Nat
    BY LinuxQueues
  <2> HIDE DEF R
  <2>1. /\ finished # <<>> /\ finished' = Tail(finished)
        /\ status' = [status EXCEPT ![Head(finished).urb] = Head(finished).status]
        /\ hpc' = [hpc EXCEPT ![EventThread] = "take"] /\ job' = [job EXCEPT ![EventThread] = Head(finished).urb]
    BY <1>8 DEF X!ReapUrb, X!H!Reap
  <2>2. /\ Tail(finished) \in Seq(R) /\ Len(Tail(finished)) = Len(finished) - 1 /\ Head(finished) = finished[1]
        /\ 1 \in 1..Len(finished) /\ \A j \in 1..(Len(finished) - 1) : Tail(finished)[j] = finished[j + 1]
    BY <2>0, <2>1, Popped
  <2>3. \A j \in DOMAIN finished' : j + 1 \in DOMAIN finished /\ finished'[j] = finished[j + 1]
    <3>1. DOMAIN finished' = 1..(Len(finished) - 1)
      BY <2>1, <2>2
    <3> QED
      BY <2>0, <2>1, <2>2, <3>1
  <2>4. finished[1].urb \in Transfers /\ finished[1].status # "invalid"
    <3>1. finished[1] \in R
      BY <2>0, <2>2
    <3> QED
      BY <1>1, <2>0, <2>2, <3>1 DEF R
  <2>5. job'[EventThread] = finished[1].urb /\ status'[finished[1].urb] = finished[1].status
    BY <1>0, <2>1, <2>2, <2>4
  <2>6. \A i \in DOMAIN finished' : finished'[i].status # "invalid"
    BY <1>1, <2>3
  <2> QED
    BY <2>4, <2>5, <2>6 DEF X!ReapedInv
<1>9. ASSUME NEW i \in DOMAIN urbs, NEW s \in {"ok", "error", "cancelled"}, Moves(i, s), UNCHANGED <<hpc, job, status>>
      PROVE  X!ReapedInv'
  <2>1. \A j \in DOMAIN finished' :
          IF j = Len(finished) + 1 THEN finished'[j].urb = urbs[i] /\ finished'[j].status = s
          ELSE j \in DOMAIN finished /\ finished'[j] = finished[j]
    BY <1>9, Moved
  <2>2. \A j \in DOMAIN finished' : finished'[j].status # "invalid"
    BY <1>1, <2>1
  <2> QED
    BY <1>1, <1>9, <2>2 DEF X!ReapedInv
<1>10. CASE X!Cancel \/ \E s \in {"ok", "error"} : X!FinishUrb(s)
  <2>1. UNCHANGED <<hpc, job, status>>
    BY <1>10 DEF X!Cancel, X!FinishUrb
  <2>2. ASSUME NEW s \in {"ok", "error"}, X!FinishUrb(s) PROVE X!ReapedInv'
    BY <1>9, <2>1, <2>2, FinishMoves
  <2>3. CASE X!Cancel
    BY <1>3, <1>9, <2>1, <2>3 DEF X!Cancel, Moves
  <2> QED
    BY <1>10, <2>2, <2>3
<1>11. CASE \/ X!EndCancel \/ X!StartCancel("cancel") \/ X!Drop
            \/ X!DropInner \/ X!OpenEndpoint \/ X!Disconnect \/ X!ReapNoDevice \/ UNCHANGED linuxEndpoint
  <2>1. UNCHANGED <<finished, hpc, job, status>>
    BY <1>11 DEF X!EndCancel, X!StartCancel, X!Drop, X!DropInner, X!OpenEndpoint, X!Disconnect, X!ReapNoDevice, linuxEndpoint
  <2> QED
    BY <1>3, <2>1
<1>12. CASE \/ X!WaitStep \/ X!GiveUp \/ X!SubmitUrb \/ X!SubmitReturns \/ X!DropDisplaced \/ X!DropFront
            \/ X!DropIdleTransfer \/ \E m \in Modes : X!NextComplete(m)
  <2>1. UNCHANGED <<finished, hpc, job, status>>
    BY <1>12 DEF X!WaitStep, X!GiveUp, X!SubmitUrb, X!SubmitReturns, X!DropDisplaced, X!DropFront, X!DropIdleTransfer,
       X!NextComplete, X!H!Subscribe, X!H!CheckPending, X!H!Unpark, X!H!SpuriousUnpark, X!H!TaskWoken, X!H!Expire,
       X!H!TaskMovesOn, X!H!SubmitOk, X!H!SubmitReturn, X!H!StartWait, X!H!DropIdle, X!H!DropPending, X!H!handlers
  <2> QED
    BY <1>3, <2>1
<1>13. CASE X!OwnerStep \/ X!EventStep
  BY <1>5, <1>6, <1>7, <1>8, <1>10, <1>11, <1>12, <1>13 DEF X!OwnerStep, X!EventStep
<1> QED
  BY <1>4, <1>7, <1>10, <1>11, <1>12, <1>13 DEF X!Next

\* submit, submit_err and what ends them.
LEMMA SubmitResults ==
  ASSUME X!LinuxInv, X!UrbInv, X!ScheduleInv, X!CancelledInv, X!SuccessInv, X!InlineInv,
         \/ \E t \in Transfers, b \in LinuxBuffers : X!Submit(t, b) \/ X!SubmitErr(t, b)
         \/ X!SubmitUrb \/ X!SubmitUrbFails \/ X!SubmitReturns
  PROVE  X!UrbInv' /\ X!ScheduleInv' /\ X!CancelledInv' /\ X!SuccessInv'
<1> USE DEF X!usbfs, X!owner, X!handshake, X!shared, X!ghosts
<1>0. /\ X!TypeOK /\ DOMAIN queue = 1..Len(queue) /\ status \in [Transfers -> X!Statuses]
      /\ buffer \in [Transfers -> LinuxBuffers \union {NoBuffer}]
      /\ \A n \in DOMAIN queue : queue[n] \in Transfers /\ handle[queue[n]] = "pending"
      /\ \A t \in Transfers : handle[t] # "none" => t \in live
  BY LinuxFacts DEF Rest
<1>1. ASSUME NEW t \in Transfers, NEW b \in LinuxBuffers, X!Submit(t, b) \/ X!SubmitErr(t, b)
      PROVE  X!UrbInv' /\ X!ScheduleInv' /\ X!CancelledInv' /\ X!SuccessInv'
  <2>1. X!H!HaveIdle(t) /\ b \notin X!Queued /\ buffer' = [buffer EXCEPT ![t] = b] /\ UNCHANGED <<urbs, finished, linuxAsked>>
    BY <1>1 DEF X!Submit, X!SubmitErr, X!H!PreSubmit, X!H!SimulateComplete
  <2>2. \A n \in DOMAIN queue : queue[n] # t
    BY <1>0, <2>1 DEF X!H!HaveIdle
  <2>3. CASE X!Submit(t, b)
    <3>1. UNCHANGED <<queue, status, linuxAfter>>
      BY <2>3 DEF X!Submit
    <3>2. \A n \in DOMAIN queue : status'[queue[n]] = status[queue[n]] /\ buffer'[queue[n]] = buffer[queue[n]]
      BY <1>0, <2>1, <2>2, <3>1
    <3> QED
      BY <2>1, <3>1, <3>2, ResultsKept
  <2>4. CASE X!SubmitErr(t, b)
    <3>1. /\ queue' = Append(queue, t) /\ status' = [status EXCEPT ![t] = "invalid"]
          /\ linuxAfter' = [linuxAfter EXCEPT ![b] = linuxAsked] /\ urbs' = urbs
      BY <2>4 DEF X!SubmitErr
    <3>2. /\ buffer'[t] = b /\ status'[t] = "invalid" /\ b \in LinuxBuffers \ X!Queued
          /\ \A u \in Transfers : u # t => status'[u] = status[u] /\ buffer'[u] = buffer[u]
      BY <1>0, <2>1, <3>1
    <3>3. linuxAfter' = [linuxAfter EXCEPT ![buffer'[t]] = linuxAsked]
      BY <3>1, <3>2
    <3>4. t \notin X!kernel
      BY <2>1, NotInKernel
    <3> QED
      BY <2>1, <2>2, <3>1, <3>2, <3>3, <3>4, PushResults
  <2> QED
    BY <1>1, <2>3, <2>4
<1>2. CASE X!SubmitUrbFails
  <2>1. upc = "submit" /\ UNCHANGED <<queue, urbs, finished, linuxAfter, linuxAsked, buffer>> /\ status' = [status EXCEPT ![ut] = "error"]
    BY <1>2 DEF X!SubmitUrbFails
  <2>2. \A n \in DOMAIN queue : status'[queue[n]] = status[queue[n]] /\ buffer'[queue[n]] = buffer[queue[n]]
    BY <1>0, <2>1, LinuxFacts DEF X!CallerInv
  <2> QED
    BY <2>1, <2>2, ResultsKept
<1>3. CASE X!SubmitUrb \/ X!SubmitReturns
  <2>1. /\ upc \in {"submit", "inline"} /\ UNCHANGED <<finished, linuxAsked, status, buffer>> /\ queue' = Append(queue, ut)
        /\ linuxAfter' = [linuxAfter EXCEPT ![buffer[ut]] = linuxAsked]
    BY <1>3 DEF X!SubmitUrb, X!SubmitReturns, X!PushBack, X!H!SubmitOk, X!H!SubmitReturn
  <2>2. /\ ut \in Transfers /\ handle[ut] = "pending" /\ (\A n \in DOMAIN queue : queue[n] # ut)
        /\ buffer[ut] \in LinuxBuffers \ X!Queued
    BY <2>1, LinuxFacts DEF X!CallerInv, X!BufferInv
  <2>3. CASE X!SubmitUrb
    <3>1. urbs' = Append(urbs, ut) /\ ut \notin X!kernel
      BY <2>2, <2>3, NotInKernel DEF X!SubmitUrb, X!H!SubmitOk
    <3> QED
      BY <2>1, <2>2, <3>1, PushResults
  <2>4. CASE X!SubmitReturns
    <3>1. urbs' = urbs /\ upc = "inline" /\ hpc[User] = "idle"
      BY <2>4 DEF X!SubmitReturns, X!H!SubmitReturn
    <3>2. status[ut] = "error" /\ state[ut] = "Idle"
      BY <3>1 DEF X!InlineInv
    <3>3. ut \notin X!kernel
      BY <2>2, <3>2, NotInKernel
    <3> QED
      BY <2>1, <2>2, <3>1, <3>2, <3>3, PushResults
  <2> QED
    BY <1>3, <2>3, <2>4
<1> QED
  BY <1>1, <1>2, <1>3

\* The front leaves the queue.
LEMMA FrontResults ==
  ASSUME X!LinuxInv, X!UrbInv, X!ScheduleInv, X!CancelledInv, X!SuccessInv, X!PopFront \/ X!DropFront
  PROVE  X!UrbInv' /\ X!ScheduleInv' /\ X!CancelledInv' /\ X!SuccessInv'
<1> USE DEF X!usbfs, X!owner, X!handshake, X!shared, X!ghosts
<1>0. queue # <<>> /\ Head(queue) = queue[1] /\ 1 \in 1..Len(queue) /\ queue[1] \in Transfers
  <2>1. queue # <<>> /\ queue \in Seq(Transfers)
    BY LinuxQueues, LinuxFacts DEF X!PopFront, X!DropFront, X!CallerInv
  <2> QED
    BY <2>1, Popped
<1>1. /\ status \in [Transfers -> X!Statuses] /\ buffer \in [Transfers -> LinuxBuffers \union {NoBuffer}]
      /\ DOMAIN queue = 1..Len(queue) /\ X!CallerInv
  BY LinuxFacts DEF Rest
<1>2. CASE X!PopFront
  <2>1. ut = queue[1]
    BY <1>0, <1>1, <1>2 DEF X!PopFront, X!CallerInv
  <2>2. /\ queue' = Tail(queue) /\ UNCHANGED <<urbs, finished>>
        /\ buffer' = [buffer EXCEPT ![queue[1]] = NoBuffer] /\ status' = [status EXCEPT ![queue[1]] = "ok"]
        /\ linuxAsked' = linuxAsked \ {buffer[queue[1]]}
        /\ linuxAfter' = [b \in LinuxBuffers |-> linuxAfter[b] \ {buffer[queue[1]]}]
    BY <1>2, <2>1 DEF X!PopFront
  <2>3. \A u \in Transfers : u # queue[1] => status'[u] = status[u] /\ buffer'[u] = buffer[u]
    BY <1>1, <2>2
  <2> QED
    BY <1>0, <2>2, <2>3, TailResults
<1>3. CASE X!DropFront
  <2>1. Head(X!Queue) = buffer[queue[1]]
    <3>1. X!Queue[1] = buffer[queue[1]]
      BY <1>0, <1>1 DEF X!Queue
    <3>2. Head(X!Queue) = X!Queue[1]
      OBVIOUS
    <3> QED
      BY <3>1, <3>2
  <2>2. /\ queue' = Tail(queue) /\ UNCHANGED <<urbs, finished, buffer, status>>
        /\ linuxAsked' = linuxAsked \ {buffer[queue[1]]}
        /\ linuxAfter' = [b \in LinuxBuffers |-> linuxAfter[b] \ {buffer[queue[1]]}]
    BY <1>3, <2>1 DEF X!DropFront
  <2> QED
    BY <1>0, <2>2, TailResults
<1> QED
  BY <1>2, <1>3

\* URBs end.
LEMMA EndResults ==
  ASSUME X!LinuxInv, X!UrbInv, X!ScheduleInv, X!CancelledInv, X!SuccessInv, X!WalkInv,
         X!Cancel \/ \E s \in {"ok", "error"} : X!FinishUrb(s)
  PROVE  X!UrbInv' /\ X!ScheduleInv' /\ X!CancelledInv' /\ X!SuccessInv'
<1> USE DEF X!usbfs, X!owner, X!handshake, X!shared, X!ghosts
<1>0. X!TypeOK /\ X!HandleInv /\ DOMAIN queue = 1..Len(queue) /\ Len(queue) \in Nat /\ cursor \in 0..Len(queue)
  BY LinuxFacts
<1>1. UNCHANGED <<queue, buffer, status, linuxAsked, linuxAfter>>
  BY DEF X!Cancel, X!FinishUrb
<1>2. ASSUME NEW s \in {"ok", "error"}, X!FinishUrb(s)
      PROVE  X!UrbInv' /\ X!ScheduleInv' /\ X!CancelledInv' /\ X!SuccessInv'
  <2>1. 1 \in DOMAIN urbs /\ Moves(1, s)
    BY <1>0, <1>2, FinishMoves
  <2> QED
    BY <1>1, <2>1, MoveKeeps
<1>3. CASE X!Cancel
  <2>1. linuxPhase \in {"cancel", "dropCancel"} /\ cursor > 0
    BY <1>3 DEF X!Cancel, X!MoreToCancel
  <2>2. CASE UNCHANGED <<urbs, finished>>
    BY <1>1, <2>2, ResultsKept
  <2>3. ASSUME NEW i \in DOMAIN urbs, urbs[i] = queue[cursor], Moves(i, "cancelled")
        PROVE  X!UrbInv' /\ X!ScheduleInv' /\ X!CancelledInv' /\ X!SuccessInv'
    <3>1. cursor \in DOMAIN queue
      BY <1>0, <2>1
    <3>2. ASSUME NEW n \in DOMAIN queue, urbs[i] = queue[n]
          PROVE  buffer[queue[n]] \in linuxAsked /\ \A k \in DOMAIN queue : n < k => queue[k] \notin X!ActiveUrbs
      <4>1. n = cursor
        BY <1>0, <2>3, <3>1, <3>2 DEF X!HandleInv
      <4> QED
        BY <1>0, <2>1, <4>1 DEF X!WalkInv
    <3> QED
      BY <1>1, <2>3, <3>2, MoveKeeps
  <2> QED
    BY <1>3, <2>2, <2>3 DEF X!Cancel, X!Visited, Moves
<1> QED
  BY <1>2, <1>3

\* The steps that leave all of it alone, and cancel_all, which asks for what is in the queue.
LEMMA OtherResults ==
  ASSUME X!LinuxInv, X!UrbInv, X!ScheduleInv, X!CancelledInv, X!SuccessInv,
         \/ X!WaitStep \/ X!GiveUp \/ X!DropDisplaced \/ X!DropIdleTransfer \/ X!EndCancel
         \/ X!StartCancel("cancel") \/ X!Drop \/ X!DropInner \/ X!OpenEndpoint \/ X!Disconnect \/ X!ReapNoDevice
         \/ X!NotifyCompletion(EventThread) \/ X!NotifyCompletion(User)
         \/ (\E m \in Modes : X!NextComplete(m))
         \/ UNCHANGED linuxEndpoint
  PROVE  X!UrbInv' /\ X!ScheduleInv' /\ X!CancelledInv' /\ X!SuccessInv'
<1> USE DEF X!usbfs, X!owner, X!handshake, X!shared, X!ghosts
<1>0. X!TypeOK /\ DOMAIN queue = 1..Len(queue)
  BY LinuxFacts
<1>1. /\ UNCHANGED <<queue, urbs, finished, linuxAfter, status, buffer>>
      /\ linuxAsked' = linuxAsked \/ linuxAsked' = X!Queued
  BY DEF X!WaitStep, X!GiveUp, X!DropDisplaced, X!DropIdleTransfer, X!EndCancel, X!StartCancel, X!Drop, X!DropInner,
     X!OpenEndpoint, X!Disconnect, X!ReapNoDevice, X!NotifyCompletion, X!NextComplete, linuxEndpoint
<1>2. \A n \in DOMAIN queue : buffer[queue[n]] \in X!Queued
  BY <1>0, QueuedBuffers
<1> QED
  BY <1>1, <1>2, ResultsKept

\* Every step of a Linux endpoint keeps what the order of results rests on.
LEMMA ResultStep == X!LinuxInv /\ X!ResultInv /\ [X!Next]_linuxEndpoint => X!ResultInv'
<1> SUFFICES ASSUME X!LinuxInv, X!ResultInv, [X!Next]_linuxEndpoint PROVE X!ResultInv'
  OBVIOUS
<1>0. X!UrbInv /\ X!ScheduleInv /\ X!WalkInv /\ X!InlineInv /\ X!ReapedInv /\ X!CancelledInv /\ X!SuccessInv
  BY DEF X!ResultInv
<1> DEFINE Kept == X!UrbInv' /\ X!ScheduleInv' /\ X!CancelledInv' /\ X!SuccessInv'
<1>1. CASE \E t \in Transfers, b \in LinuxBuffers : X!Submit(t, b) \/ X!SubmitErr(t, b)
  BY <1>0, <1>1, SubmitResults, WalkStep, InlineStep, ReapedStep DEF X!ResultInv
<1>2. X!SubmitUrb \/ X!SubmitUrbFails \/ X!SubmitReturns => Kept
  BY <1>0, SubmitResults
<1>3. X!PopFront \/ X!DropFront => Kept
  BY <1>0, FrontResults
<1>4. X!Cancel \/ (\E s \in {"ok", "error"} : X!FinishUrb(s)) => Kept
  BY <1>0, EndResults
<1>5. X!ReapUrb => Kept
  BY <1>0, ReapResults
<1>6. ASSUME \/ X!WaitStep \/ X!GiveUp \/ X!DropDisplaced \/ X!DropIdleTransfer \/ X!EndCancel
             \/ X!StartCancel("cancel") \/ X!Drop \/ X!DropInner \/ X!OpenEndpoint \/ X!Disconnect \/ X!ReapNoDevice
             \/ X!NotifyCompletion(EventThread) \/ X!NotifyCompletion(User)
             \/ (\E m \in Modes : X!NextComplete(m))
             \/ UNCHANGED linuxEndpoint
      PROVE  Kept
  BY <1>0, <1>6, OtherResults
<1> HIDE DEF Kept
<1>7. CASE X!OwnerStep
  <2>1. Kept
    BY <1>2, <1>3, <1>4, <1>6, <1>7 DEF X!OwnerStep
  <2> QED
    BY <1>0, <2>1, WalkStep, InlineStep, ReapedStep DEF Kept, X!ResultInv
<1>8. ASSUME ~X!OwnerStep, ~\E t \in Transfers, b \in LinuxBuffers : X!Submit(t, b) \/ X!SubmitErr(t, b)
      PROVE  X!ResultInv'
  <2>1. Kept
    BY <1>4, <1>5, <1>6, <1>8 DEF X!Next, X!EventStep
  <2> QED
    BY <1>0, <2>1, WalkStep, InlineStep, ReapedStep DEF Kept, X!ResultInv
<1> QED
  BY <1>1, <1>7, <1>8

\* Nothing has been submitted yet.
LEMMA ResultStart == X!Init => X!ResultInv
<1> SUFFICES ASSUME X!Init PROVE X!ResultInv
  OBVIOUS
<1>1. DOMAIN queue = {} /\ DOMAIN urbs = {} /\ DOMAIN finished = {} /\ upc = "run" /\ linuxPhase = "open"
      /\ hpc[EventThread] = "idle"
  BY DEF X!Init, X!H!Init, X!H!Threads
<1> QED
  BY <1>1 DEF X!ResultInv, X!UrbInv, X!ScheduleInv, X!WalkInv, X!InlineInv, X!ReapedInv, X!CancelledInv, X!SuccessInv

-----------------------------------------------------------------------------
(* The endpoint of Linux implements EndpointQueue                          *)

\* The result and the openness that the refinement shows to EndpointQueue.
LinuxShown == [b \in LinuxBuffers |-> X!ResultOf(b)]
LinuxOpen == linuxPhase \in {"open", "cancel", "dropCancel"}

\* What is shown of a transfer is in its URB, once it is complete.
Results ==
  /\ \A n \in DOMAIN queue :
       LinuxShown[buffer[queue[n]]] = IF state[queue[n]] = "Idle" THEN status[queue[n]] ELSE "pending"
  /\ \A b \in LinuxBuffers : b \notin X!Queued => LinuxShown[b] = "pending"

\* A buffer is in the queue once, so that the choice in ResultOf is of its transfer.
LEMMA ResultsAre == X!LinuxInv => Results
<1> SUFFICES ASSUME X!LinuxInv PROVE Results
  OBVIOUS
<1>0. /\ X!TypeOK /\ X!BufferInv /\ X!HandleInv /\ DOMAIN queue = 1..Len(queue)
      /\ \A n \in DOMAIN queue : queue[n] \in Transfers /\ buffer[queue[n]] \in LinuxBuffers
  BY LinuxFacts DEF X!BufferInv
<1>1. ASSUME NEW n \in DOMAIN queue
      PROVE  LinuxShown[buffer[queue[n]]] = IF state[queue[n]] = "Idle" THEN status[queue[n]] ELSE "pending"
  <2> DEFINE b == buffer[queue[n]]
             Is(t) == t \in {queue[i] : i \in DOMAIN queue} /\ buffer[t] = b
  <2>1. LinuxShown[b] = X!ResultOf(b)
    BY <1>0 DEF LinuxShown
  <2>2. \A t \in Transfers : Is(t) <=> t = queue[n]
    BY <1>0 DEF X!BufferInv
  <2>3. (CHOOSE t \in Transfers : Is(t)) = queue[n]
    <3>1. queue[n] \in Transfers /\ Is(queue[n])
      BY <1>0
    <3> HIDE DEF Is
    <3>2. (CHOOSE t \in Transfers : Is(t)) \in Transfers /\ Is(CHOOSE t \in Transfers : Is(t))
      BY <3>1
    <3> QED
      BY <2>2, <3>2
  <2>4. (\E i \in DOMAIN queue : buffer[queue[i]] = b /\ state[queue[i]] = "Idle") <=> state[queue[n]] = "Idle"
    BY DEF X!BufferInv, X!LinuxInv
  <2> QED
    BY <2>1, <2>3, <2>4 DEF X!ResultOf
<1>2. ASSUME NEW b \in LinuxBuffers, b \notin X!Queued PROVE LinuxShown[b] = "pending"
  <2>1. ~\E i \in DOMAIN queue : buffer[queue[i]] = b /\ state[queue[i]] = "Idle"
    BY <1>0, <1>2, QueuedBuffers
  <2> QED
    BY <2>1 DEF LinuxShown, X!ResultOf
<1> QED
  BY <1>1, <1>2 DEF Results

\* The queue of EndpointQueue has the buffers of the transfers.
QueueShown ==
  /\ X!Queue \in Seq(LinuxBuffers) /\ Len(X!Queue) = Len(queue) /\ DOMAIN X!Queue = 1..Len(queue)
  /\ \A n \in 1..Len(queue) : X!Queue[n] = buffer[queue[n]]
  /\ \A b : X!Abstract!Queued(b) <=> b \in X!Queued

\* See QueueShown.
LEMMA QueueIsShown == X!LinuxInv => QueueShown
<1> SUFFICES ASSUME X!LinuxInv PROVE QueueShown
  OBVIOUS
<1>0. /\ DOMAIN queue = 1..Len(queue) /\ Len(queue) \in Nat /\ X!TypeOK
      /\ \A n \in DOMAIN queue : buffer[queue[n]] \in LinuxBuffers
  BY LinuxFacts DEF X!BufferInv
<1>1. X!Queue \in [1..Len(queue) -> LinuxBuffers] /\ \A n \in 1..Len(queue) : X!Queue[n] = buffer[queue[n]]
  BY <1>0 DEF X!Queue
<1>2. X!Queue \in Seq(LinuxBuffers) /\ Len(X!Queue) = Len(queue) /\ DOMAIN X!Queue = 1..Len(queue)
  <2> DEFINE q == X!Queue
             k == Len(queue)
  <2>1. q \in [1..k -> LinuxBuffers] /\ k \in Nat
    BY <1>0, <1>1
  <2> HIDE DEF q, k
  <2>2. q \in Seq(LinuxBuffers) /\ Len(q) = k /\ DOMAIN q = 1..k
    BY <2>1
  <2> QED
    BY <2>2 DEF q, k
<1>3. \A b : X!Abstract!Queued(b) <=> b \in X!Queued
  <2>1. \A b : X!Abstract!Queued(b) <=> \E i \in DOMAIN X!Queue : X!Queue[i] = b
    BY DEF X!Abstract!Queued
  <2> QED
    BY <1>0, <1>1, <1>2, <2>1, QueuedBuffers
<1> QED
  BY <1>1, <1>2, <1>3 DEF QueueShown

\* Sequences are equal that have the same elements.
LEMMA SameSequence ==
  ASSUME NEW S, NEW s \in Seq(S), NEW t \in Seq(S), Len(s) = Len(t), \A i \in 1..Len(s) : s[i] = t[i]
  PROVE  s = t
OBVIOUS

\* EndpointQueue does not change while what it is shown does not.
LEMMA LinuxStutter ==
  ASSUME UNCHANGED <<LinuxOpen, X!Queue, LinuxShown, linuxAsked, linuxAfter>>
  PROVE  UNCHANGED X!Abstract!vars
BY DEF X!Abstract!vars, LinuxShown, LinuxOpen

\* A step that leaves the queue alone, the states of its transfers and the results of those that
\* are complete.
LEMMA ShownKept ==
  ASSUME X!LinuxInv, X!LinuxInv', UNCHANGED queue,
         \A n \in DOMAIN queue :
           /\ buffer'[queue[n]] = buffer[queue[n]] /\ state'[queue[n]] = state[queue[n]]
           /\ state[queue[n]] = "Idle" => status'[queue[n]] = status[queue[n]]
  PROVE  X!Queue' = X!Queue /\ X!Queued' = X!Queued /\ LinuxShown' = LinuxShown
<1>1. Results /\ QueueShown /\ X!TypeOK /\ DOMAIN queue = 1..Len(queue)
  BY ResultsAre, QueueIsShown, LinuxFacts
<1>2. Results'
  <2>1. (X!LinuxInv => Results)'
    BY ResultsAre, PTL
  <2> QED
    BY <2>1
<1>3. X!Queue' = X!Queue
  BY DEF X!Queue
<1>4. X!Queued' = X!Queued
  BY <1>3 DEF X!Queued
<1>5. ASSUME NEW b \in LinuxBuffers PROVE LinuxShown'[b] = LinuxShown[b]
  <2>1. CASE b \in X!Queued
    <3>1. PICK n \in DOMAIN queue : buffer[queue[n]] = b
      BY <1>1, <2>1, QueuedBuffers
    <3>2. LinuxShown'[b] = IF state'[queue[n]] = "Idle" THEN status'[queue[n]] ELSE "pending"
      BY <1>2, <3>1 DEF Results
    <3> QED
      BY <1>1, <3>1, <3>2 DEF Results
  <2>2. CASE b \notin X!Queued
    BY <1>1, <1>2, <1>4, <2>2 DEF Results
  <2> QED
    BY <2>1, <2>2
<1>6. LinuxShown' = LinuxShown
  <2>1. LinuxShown' = [b \in LinuxBuffers |-> LinuxShown'[b]] /\ LinuxShown = [b \in LinuxBuffers |-> LinuxShown[b]]
    BY DEF LinuxShown
  <2> QED
    BY <1>5, <2>1
<1> QED
  BY <1>3, <1>4, <1>6

\* A transfer enters the queue with a buffer that was not in it, and if it is complete it was refused.
LEMMA PushRefines ==
  ASSUME X!LinuxInv, X!LinuxInv', linuxPhase = "open", UNCHANGED <<linuxPhase, linuxAsked>>,
         NEW t \in Transfers, queue' = Append(queue, t), \A n \in DOMAIN queue : queue[n] # t,
         NEW b \in LinuxBuffers, buffer'[t] = b, b \notin X!Queued,
         \A u \in Transfers : u # t => status'[u] = status[u] /\ buffer'[u] = buffer[u] /\ state'[u] = state[u],
         linuxAfter' = [linuxAfter EXCEPT ![b] = linuxAsked],
         state'[t] = "Idle" => status'[t] \in {"error", "invalid"}
  PROVE  X!Abstract!Submit(b)
<1>1. /\ Results /\ QueueShown /\ X!TypeOK /\ DOMAIN queue = 1..Len(queue) /\ Len(queue) \in Nat /\ queue \in Seq(Transfers)
      /\ \A n \in DOMAIN queue : queue[n] \in Transfers
  BY ResultsAre, QueueIsShown, LinuxFacts, LinuxQueues
<1>2. Results' /\ QueueShown'
  <2>1. (X!LinuxInv => Results)' /\ (X!LinuxInv => QueueShown)'
    BY ResultsAre, QueueIsShown, PTL
  <2> QED
    BY <2>1
<1>3. /\ Len(queue') = Len(queue) + 1 /\ DOMAIN queue' = 1..(Len(queue) + 1)
      /\ (\A j \in 1..Len(queue) : queue'[j] = queue[j])
      /\ queue'[Len(queue) + 1] = t
  <2>1. /\ queue' \in Seq(Transfers) /\ Len(queue') = Len(queue) + 1
        /\ (\A j \in 1..Len(queue) : queue'[j] = queue[j])
        /\ queue'[Len(queue) + 1] = t
    BY <1>1, Appended
  <2> QED
    BY <2>1
<1>4. X!Queue' = Append(X!Queue, b)
  <2> DEFINE q == X!Queue'
             p == Append(X!Queue, b)
  <2>1. /\ p \in Seq(LinuxBuffers) /\ Len(p) = Len(queue) + 1 /\ p[Len(queue) + 1] = b
        /\ \A j \in 1..Len(queue) : p[j] = buffer[queue[j]]
    <3>1. /\ p \in Seq(LinuxBuffers) /\ Len(p) = Len(X!Queue) + 1 /\ p[Len(X!Queue) + 1] = b
          /\ \A j \in 1..Len(X!Queue) : p[j] = X!Queue[j]
      <4>1. X!Queue \in Seq(LinuxBuffers)
        BY <1>1 DEF QueueShown
      <4> QED
        BY <4>1, Appended
    <3> HIDE DEF p
    <3> QED
      BY <1>1, <3>1 DEF QueueShown
  <2>2. q \in Seq(LinuxBuffers) /\ Len(q) = Len(queue) + 1 /\ \A j \in 1..(Len(queue) + 1) : q[j] = buffer'[queue'[j]]
    BY <1>2, <1>3 DEF QueueShown
  <2> HIDE DEF q, p
  <2>3. \A j \in 1..(Len(queue) + 1) : q[j] = p[j]
    <3> TAKE j \in 1..(Len(queue) + 1)
    <3>1. CASE j = Len(queue) + 1
      BY <1>3, <2>1, <2>2, <3>1
    <3>2. CASE j # Len(queue) + 1
      <4>1. j \in 1..Len(queue)
        BY <1>1, <3>2
      <4>2. queue'[j] = queue[j] /\ queue[j] \in Transfers /\ queue[j] # t
        BY <1>1, <1>3, <4>1
      <4> QED
        BY <2>1, <2>2, <4>1, <4>2
    <3> QED
      BY <3>1, <3>2
  <2>4. q = p
    BY <2>1, <2>2, <2>3, SameSequence
  <2> QED
    BY <2>4 DEF q, p
<1>5. \A c : c \in X!Queued' <=> c \in X!Queued \/ c = b
  <2>1. \A c : c \in X!Queued' <=> \E j \in 1..(Len(queue) + 1) : buffer'[queue'[j]] = c
    BY <1>2, <1>3 DEF QueueShown, X!Queued
  <2>2. \A c : c \in X!Queued <=> \E j \in 1..Len(queue) : buffer[queue[j]] = c
    BY <1>1, QueuedBuffers
  <2>3. \A j \in 1..Len(queue) : j \in 1..(Len(queue) + 1) /\ buffer'[queue'[j]] = buffer[queue[j]]
    BY <1>1, <1>3
  <2>4. \A j \in 1..(Len(queue) + 1) : j = Len(queue) + 1 \/ j \in 1..Len(queue)
    BY <1>1
  <2>5. Len(queue) + 1 \in 1..(Len(queue) + 1) /\ buffer'[queue'[Len(queue) + 1]] = b
    BY <1>1, <1>3
  <2> QED
    BY <2>1, <2>2, <2>3, <2>4, <2>5
<1>6. \E r \in {"pending", "error", "invalid"} : LinuxShown' = [LinuxShown EXCEPT ![b] = r]
  <2> DEFINE r == IF state'[t] = "Idle" THEN status'[t] ELSE "pending"
  <2>1. r \in {"pending", "error", "invalid"}
    OBVIOUS
  <2>2. LinuxShown'[b] = r
    <3>1. Len(queue) + 1 \in DOMAIN queue'
      BY <1>1, <1>3
    <3> QED
      BY <1>2, <1>3, <3>1 DEF Results
  <2>3. ASSUME NEW c \in LinuxBuffers, c # b PROVE LinuxShown'[c] = LinuxShown[c]
    <3>1. CASE c \in X!Queued
      <4>1. PICK n \in 1..Len(queue) : buffer[queue[n]] = c
        BY <1>1, <3>1, QueuedBuffers
      <4>2. queue'[n] = queue[n] /\ queue[n] \in Transfers /\ queue[n] # t /\ n \in DOMAIN queue' /\ n \in DOMAIN queue
        BY <1>1, <1>3
      <4>3. LinuxShown'[c] = IF state'[queue[n]] = "Idle" THEN status'[queue[n]] ELSE "pending"
        BY <1>2, <4>1, <4>2 DEF Results
      <4> QED
        BY <1>1, <4>1, <4>2, <4>3 DEF Results
    <3>2. CASE c \notin X!Queued
      BY <1>1, <1>2, <1>5, <2>3, <3>2 DEF Results
    <3> QED
      BY <3>1, <3>2
  <2> HIDE DEF r
  <2>4. LinuxShown' = [c \in LinuxBuffers |-> LinuxShown'[c]] /\ LinuxShown = [c \in LinuxBuffers |-> LinuxShown[c]]
    BY DEF LinuxShown
  <2>5. LinuxShown' = [LinuxShown EXCEPT ![b] = r]
    BY <2>2, <2>3, <2>4
  <2> QED
    BY <2>1, <2>5
<1>7. LinuxOpen /\ LinuxOpen' /\ ~X!Abstract!Queued(b)
  BY <1>1 DEF LinuxOpen, QueueShown
<1> QED
  BY <1>4, <1>6, <1>7 DEF X!Abstract!Submit, LinuxShown, LinuxOpen

\* The oldest transfer leaves the queue.
LEMMA LinuxPopRefines ==
  ASSUME X!LinuxInv, X!LinuxInv', UNCHANGED linuxPhase, queue # <<>>, queue' = Tail(queue),
         \A u \in Transfers : u # queue[1] => status'[u] = status[u] /\ buffer'[u] = buffer[u] /\ state'[u] = state[u],
         linuxAsked' = linuxAsked \ {buffer[queue[1]]},
         linuxAfter' = [b \in LinuxBuffers |-> linuxAfter[b] \ {buffer[queue[1]]}]
  PROVE  X!Abstract!Pop /\ Head(X!Queue) = buffer[queue[1]]
<1>1. /\ Results /\ QueueShown /\ X!TypeOK /\ DOMAIN queue = 1..Len(queue) /\ Len(queue) \in Nat /\ queue \in Seq(Transfers)
      /\ X!HandleInv /\ X!BufferInv /\ \A n \in DOMAIN queue : queue[n] \in Transfers
  BY ResultsAre, QueueIsShown, LinuxFacts, LinuxQueues
<1>2. Results' /\ QueueShown'
  <2>1. (X!LinuxInv => Results)' /\ (X!LinuxInv => QueueShown)'
    BY ResultsAre, QueueIsShown, PTL
  <2> QED
    BY <2>1
<1>3. /\ Len(queue') = Len(queue) - 1 /\ DOMAIN queue' = 1..(Len(queue) - 1) /\ 1 \in 1..Len(queue)
      /\ \A j \in 1..(Len(queue) - 1) : queue'[j] = queue[j + 1]
  <2>1. /\ queue' \in Seq(Transfers) /\ Len(queue') = Len(queue) - 1 /\ 1 \in 1..Len(queue)
        /\ \A j \in 1..(Len(queue) - 1) : queue'[j] = queue[j + 1]
    BY <1>1, Popped
  <2> QED
    BY <2>1
<1>4. \A j \in 1..(Len(queue) - 1) :
        /\ j + 1 \in DOMAIN queue /\ j \in DOMAIN queue' /\ queue'[j] = queue[j + 1]
        /\ queue[j + 1] \in Transfers /\ queue[j + 1] # queue[1]
        /\ buffer[queue[j + 1]] \in LinuxBuffers /\ buffer[queue[j + 1]] # buffer[queue[1]]
        /\ buffer'[queue[j + 1]] = buffer[queue[j + 1]]
  <2> TAKE j \in 1..(Len(queue) - 1)
  <2>1. j + 1 \in DOMAIN queue /\ j \in DOMAIN queue' /\ queue'[j] = queue[j + 1] /\ j + 1 # 1 /\ 1 \in DOMAIN queue
    BY <1>1, <1>3
  <2>2. queue[j + 1] \in Transfers /\ queue[j + 1] # queue[1]
    BY <1>1, <2>1 DEF X!HandleInv
  <2>3. buffer[queue[j + 1]] \in LinuxBuffers /\ buffer[queue[j + 1]] # buffer[queue[1]]
    BY <2>1, <1>1 DEF X!BufferInv
  <2> QED
    BY <2>1, <2>2, <2>3
<1>5. /\ Tail(X!Queue) \in Seq(LinuxBuffers) /\ Len(Tail(X!Queue)) = Len(queue) - 1 /\ Head(X!Queue) = buffer[queue[1]]
      /\ X!Queue # <<>> /\ \A j \in 1..(Len(queue) - 1) : Tail(X!Queue)[j] = buffer[queue[j + 1]]
  <2>1. X!Queue \in Seq(LinuxBuffers) /\ Len(X!Queue) = Len(queue) /\ Len(queue) > 0
        /\ \A n \in 1..Len(queue) : X!Queue[n] = buffer[queue[n]]
    BY <1>1, <1>3 DEF QueueShown
  <2>2. X!Queue # <<>>
    <3>1. Len(<<>>) = 0
      OBVIOUS
    <3> QED
      BY <2>1, <3>1
  <2>3. /\ Tail(X!Queue) \in Seq(LinuxBuffers) /\ Len(Tail(X!Queue)) = Len(X!Queue) - 1 /\ Head(X!Queue) = X!Queue[1]
        /\ \A j \in 1..(Len(X!Queue) - 1) : Tail(X!Queue)[j] = X!Queue[j + 1]
    BY <2>1, <2>2, Popped
  <2>4. \A j \in 1..(Len(queue) - 1) : j + 1 \in 1..Len(queue)
    BY <1>1
  <2> QED
    BY <1>3, <2>1, <2>2, <2>3, <2>4
<1>6. X!Queue' = Tail(X!Queue)
  <2> DEFINE q == X!Queue'
             p == Tail(X!Queue)
  <2>1. /\ q \in Seq(LinuxBuffers) /\ Len(q) = Len(queue) - 1
        /\ \A j \in 1..(Len(queue) - 1) : q[j] = buffer'[queue'[j]]
    BY <1>2, <1>3 DEF QueueShown
  <2>2. ASSUME NEW j \in 1..(Len(queue) - 1) PROVE q[j] = p[j]
    <3>1. q[j] = buffer'[queue'[j]]
      BY <2>1
    <3>2. buffer'[queue'[j]] = buffer[queue[j + 1]]
      BY <1>4
    <3>3. p[j] = buffer[queue[j + 1]]
      BY <1>5
    <3> QED
      BY ONLY <3>1, <3>2, <3>3
  <2>3. p \in Seq(LinuxBuffers) /\ Len(p) = Len(queue) - 1
    BY <1>5
  <2> HIDE DEF q, p
  <2>4. q = p
    BY <2>1, <2>2, <2>3, SameSequence
  <2> QED
    BY <2>4 DEF q, p
<1>7. LinuxShown' = [LinuxShown EXCEPT ![buffer[queue[1]]] = "pending"]
  <2> DEFINE c == buffer[queue[1]]
  <2>0. c \in LinuxBuffers
    BY <1>1, <1>3 DEF X!BufferInv
  <2>1. \A b : b \in X!Queued' <=> \E j \in 1..(Len(queue) - 1) : buffer[queue[j + 1]] = b
    <3> DEFINE q == X!Queue'
               K == 1..(Len(queue) - 1)
    <3>1. ASSUME NEW j \in K PROVE q[j] = buffer[queue[j + 1]]
      <4>1. j \in 1..Len(queue')
        BY <1>3
      <4>2. q[j] = buffer'[queue'[j]]
        BY <1>2, <4>1 DEF QueueShown
      <4>3. buffer'[queue'[j]] = buffer[queue[j + 1]]
        BY <1>4
      <4> QED
        BY ONLY <4>2, <4>3
    <3>2. ASSUME NEW b PROVE b \in X!Queued' <=> \E j \in K : q[j] = b
      BY <1>3 DEF X!Queued
    <3> HIDE DEF q, K
    <3>3. ASSUME NEW b PROVE b \in X!Queued' <=> \E j \in K : buffer[queue[j + 1]] = b
      BY <3>1, <3>2
    <3> QED
      BY <3>3 DEF K
  <2>2. LinuxShown'[c] = "pending"
    <3>1. c \notin X!Queued'
      BY <1>4, <2>1
    <3> QED
      BY <1>2, <2>0, <3>1 DEF Results
  <2>3. ASSUME NEW b \in LinuxBuffers, b # c PROVE LinuxShown'[b] = LinuxShown[b]
    <3>1. CASE b \in X!Queued
      <4>1. PICK n \in 1..Len(queue) : buffer[queue[n]] = b
        BY <1>1, <3>1, QueuedBuffers
      <4>2. n # 1 /\ n - 1 \in 1..(Len(queue) - 1) /\ (n - 1) + 1 = n
        BY <1>1, <2>3, <4>1
      <4>3. n - 1 \in DOMAIN queue' /\ queue'[n - 1] = queue[n] /\ queue[n] \in Transfers /\ queue[n] # queue[1]
        BY <1>4, <4>2
      <4>4. buffer'[queue[n]] = b
        BY <4>1, <4>3
      <4>5. LinuxShown'[buffer'[queue'[n - 1]]] =
              IF state'[queue'[n - 1]] = "Idle" THEN status'[queue'[n - 1]] ELSE "pending"
        BY <1>2, <4>3 DEF Results
      <4>6. LinuxShown'[b] = IF state'[queue[n]] = "Idle" THEN status'[queue[n]] ELSE "pending"
        BY ONLY <4>3, <4>4, <4>5
      <4> QED
        BY <1>1, <4>1, <4>3, <4>6 DEF Results
    <3>2. CASE b \notin X!Queued
      <4>1. b \notin X!Queued'
        BY <1>1, <1>4, <2>1, <3>2, QueuedBuffers
      <4> QED
        BY <1>1, <1>2, <3>2, <4>1 DEF Results
    <3> QED
      BY <3>1, <3>2
  <2>4. LinuxShown' = [b \in LinuxBuffers |-> LinuxShown'[b]] /\ LinuxShown = [b \in LinuxBuffers |-> LinuxShown[b]]
    BY DEF LinuxShown
  <2> HIDE DEF c
  <2>5. LinuxShown' = [LinuxShown EXCEPT ![c] = "pending"]
    BY <2>0, <2>2, <2>3, <2>4
  <2> QED
    BY <2>5 DEF c
<1>8. LinuxOpen' = LinuxOpen
  BY DEF LinuxOpen
<1> QED
  BY <1>5, <1>6, <1>7, <1>8 DEF X!Abstract!Pop, LinuxShown, LinuxOpen

\* Before what succeeds, everything is complete: with the kernel it was reaped before, and the event
\* thread has one transfer at a time.
LEMMA NothingBefore ==
  ASSUME X!LinuxInv, X!ResultInv, NEW m \in DOMAIN queue, NEW n \in DOMAIN queue, m < n,
         hpc[EventThread] = "swap", job[EventThread] = queue[n], status[queue[n]] = "ok"
  PROVE  state[queue[m]] = "Idle"
<1>0. /\ X!HandleInv /\ X!CallerInv /\ X!H!IInv /\ DOMAIN queue = 1..Len(queue) /\ Len(queue) \in Nat
      /\ \A i \in DOMAIN queue : queue[i] \in Transfers /\ handle[queue[i]] = "pending"
      /\ state \in [Transfers -> {"Idle", "Pending", "Abandoned"}]
  BY LinuxFacts DEF X!H!TypeOK, X!H!States
<1>1. queue[n] \notin X!kernel
  <2>1. X!H!Engaged(EventThread, queue[n])
    BY DEF X!H!Engaged
  <2> QED
    BY <1>0, <2>1 DEF X!H!IInv, X!H!ExclusiveAccess, X!H!Threads
<1>2. queue[m] \notin X!kernel
  BY <1>1 DEF X!ResultInv, X!SuccessInv
<1>3. queue[m] # queue[n]
  BY <1>0 DEF X!HandleInv
<1>4. SUFFICES ASSUME state[queue[m]] = "Pending" PROVE FALSE
  BY <1>0 DEF X!H!IInv, X!H!NoPanic
<1>5. X!H!Out(queue[m])
  BY <1>0, <1>4 DEF X!H!IInv, X!H!NoOrphan
<1>6. ~X!H!Submitting(queue[m])
  BY <1>0 DEF X!H!Submitting, X!CallerInv
<1>7. ~X!H!Engaged(EventThread, queue[m])
  BY <1>3 DEF X!H!Engaged
<1>8. ~X!H!Engaged(User, queue[m])
  <2> SUFFICES ASSUME X!H!Engaged(User, queue[m]) PROVE FALSE
    OBVIOUS
  <2>1. hpc[User] \in {"take", "swap", "free"} /\ job[User] = queue[m]
    BY DEF X!H!Engaged
  <2>2. upc = "inline"
    BY <1>0, <2>1 DEF X!H!IInv, X!H!CallInv
  <2>3. ut = queue[m]
    BY <2>1, <2>2 DEF X!ResultInv, X!InlineInv
  <2> QED
    BY <1>0, <2>2, <2>3 DEF X!CallerInv
<1> QED
  BY <1>2, <1>5, <1>6, <1>7, <1>8 DEF X!H!Out, X!H!Threads

\* The event thread publishes the end of a transfer of the queue.
LEMMA SwapRefines ==
  ASSUME X!LinuxInv, X!LinuxInv', X!ResultInv, NEW n \in DOMAIN queue,
         hpc[EventThread] = "swap", job[EventThread] = queue[n],
         UNCHANGED <<linuxPhase, queue, buffer, status, linuxAsked, linuxAfter>>,
         state' = [state EXCEPT ![queue[n]] = "Idle"], state[queue[n]] # "Idle"
  PROVE  \E b \in LinuxBuffers, r \in {"ok", "error", "cancelled"} : X!Abstract!Finish(b, r)
<1> DEFINE b == buffer[queue[n]]
           r == status[queue[n]]
<1>0. /\ Results /\ QueueShown /\ X!TypeOK /\ DOMAIN queue = 1..Len(queue) /\ X!HandleInv /\ X!BufferInv /\ X!H!IInv
      /\ \A i \in DOMAIN queue : queue[i] \in Transfers /\ buffer[queue[i]] \in LinuxBuffers
      /\ state \in [Transfers -> {"Idle", "Pending", "Abandoned"}] /\ status \in [Transfers -> X!Statuses]
  BY ResultsAre, QueueIsShown, LinuxFacts DEF X!BufferInv, X!H!TypeOK, X!H!States, Rest
<1>1. Results'
  <2>1. (X!LinuxInv => Results)'
    BY ResultsAre, PTL
  <2> QED
    BY <2>1
<1>2. queue[n] \notin X!kernel
  <2>1. X!H!Engaged(EventThread, queue[n])
    BY DEF X!H!Engaged
  <2> QED
    BY <1>0, <2>1 DEF X!H!IInv, X!H!ExclusiveAccess, X!H!Threads
<1>3. r \in {"ok", "error", "cancelled"}
  BY <1>0 DEF X!ResultInv, X!ReapedInv, X!Statuses
<1>4. X!EndedAs(queue[n], r)
  BY <1>2 DEF X!EndedAs
<1>5. X!Queue' = X!Queue /\ X!Queued' = X!Queued
  BY DEF X!Queue, X!Queued
<1>6. LinuxShown' = [LinuxShown EXCEPT ![b] = r] /\ LinuxShown[b] = "pending"
  <2>1. LinuxShown[b] = "pending"
    BY <1>0 DEF Results
  <2>2. LinuxShown'[b] = r
    BY <1>0, <1>1 DEF Results
  <2>3. ASSUME NEW c \in LinuxBuffers, c # b PROVE LinuxShown'[c] = LinuxShown[c]
    <3>1. CASE c \in X!Queued
      <4>1. PICK k \in DOMAIN queue : buffer[queue[k]] = c
        BY <1>0, <3>1, QueuedBuffers
      <4>2. state'[queue[k]] = state[queue[k]]
        BY <1>0, <2>3, <4>1
      <4>3. LinuxShown'[c] = IF state'[queue[k]] = "Idle" THEN status[queue[k]] ELSE "pending"
        BY <1>1, <4>1 DEF Results
      <4> QED
        BY <1>0, <4>1, <4>2, <4>3 DEF Results
    <3>2. CASE c \notin X!Queued
      BY <1>0, <1>1, <1>5, <3>2 DEF Results
    <3> QED
      BY <3>1, <3>2
  <2>4. LinuxShown' = [c \in LinuxBuffers |-> LinuxShown'[c]] /\ LinuxShown = [c \in LinuxBuffers |-> LinuxShown[c]]
    BY DEF LinuxShown
  <2> HIDE DEF b, r
  <2>5. LinuxShown' = [LinuxShown EXCEPT ![b] = r]
    BY <2>2, <2>3, <2>4
  <2> QED
    BY <2>1, <2>5
<1>7. b \in LinuxBuffers /\ X!Abstract!Queued(b)
  BY <1>0, QueuedBuffers DEF QueueShown
<1>8. r = "cancelled" => b \in linuxAsked
  BY <1>4 DEF X!ResultInv, X!CancelledInv
<1>9. ASSUME r = "ok", NEW c \in LinuxBuffers, X!Abstract!Before(c, b)
      PROVE  LinuxShown[c] # "pending" /\ (LinuxShown[c] = "cancelled" => c \in linuxAfter[b])
  <2>1. PICK m \in DOMAIN X!Queue, k \in DOMAIN X!Queue : m < k /\ X!Queue[m] = c /\ X!Queue[k] = b
    BY <1>9 DEF X!Abstract!Before
  <2>2. m \in DOMAIN queue /\ k \in DOMAIN queue /\ buffer[queue[m]] = c /\ buffer[queue[k]] = b
    BY <1>0, <2>1 DEF QueueShown
  <2>3. m < n
    <3>1. k = n
      BY <1>0, <2>2 DEF X!BufferInv
    <3> QED
      BY <2>1, <3>1
  <2>4. state[queue[m]] = "Idle"
    BY <1>9, <2>2, <2>3, NothingBefore
  <2>5. LinuxShown[c] = status[queue[m]] /\ status[queue[m]] # "pending"
    <3>1. LinuxShown[c] = status[queue[m]]
      BY <1>0, <2>2, <2>4 DEF Results
    <3>2. status[queue[m]] \in X!Statuses
      BY <1>0, <2>2
    <3> QED
      BY <3>1, <3>2 DEF X!Statuses
  <2>6. ASSUME status[queue[m]] = "cancelled" PROVE c \in linuxAfter[b]
    <3>1. queue[m] \notin X!kernel
      BY <1>0, <2>2, <2>4, NotInKernel, LinuxFacts
    <3>2. X!EndedAs(queue[m], "cancelled")
      BY <2>6, <3>1 DEF X!EndedAs
    <3> QED
      BY <1>4, <1>9, <2>2, <2>3, <3>2 DEF X!ResultInv, X!CancelledInv
  <2> QED
    BY <2>5, <2>6
<1>10. LinuxOpen' = LinuxOpen
  BY DEF LinuxOpen
<1> HIDE DEF b, r
<1>11. X!Abstract!Finish(b, r)
  BY <1>5, <1>6, <1>7, <1>8, <1>9, <1>10 DEF X!Abstract!Finish, LinuxShown, LinuxOpen
<1> QED
  BY <1>3, <1>7, <1>11

\* A submission is Submit when the call is over, with the error of usbfs or of submit_err.
LEMMA LinuxSubmitRefines ==
  ASSUME X!LinuxInv, X!LinuxInv', X!ResultInv,
         (\E t \in Transfers, b \in LinuxBuffers : X!SubmitErr(t, b)) \/ X!SubmitUrb \/ X!SubmitReturns
  PROVE  \E b \in LinuxBuffers : X!Abstract!Submit(b)
<1> USE DEF X!usbfs, X!owner, X!handshake, X!shared, X!ghosts
<1>0. /\ status \in [Transfers -> X!Statuses] /\ buffer \in [Transfers -> LinuxBuffers \union {NoBuffer}]
      /\ state \in [Transfers -> {"Idle", "Pending", "Abandoned"}] /\ DOMAIN queue = 1..Len(queue)
      /\ \A i \in DOMAIN queue : queue[i] \in Transfers /\ handle[queue[i]] = "pending"
      /\ \A t \in Transfers : handle[t] # "none" => t \in live
      /\ X!CallerInv /\ X!BufferInv /\ X!H!IInv
  BY LinuxFacts DEF X!H!TypeOK, X!H!States, Rest
<1>1. ASSUME NEW t \in Transfers, NEW b \in LinuxBuffers, X!SubmitErr(t, b) PROVE X!Abstract!Submit(b)
  <2>1. /\ linuxPhase = "open" /\ UNCHANGED <<linuxPhase, linuxAsked>> /\ b \notin X!Queued /\ queue' = Append(queue, t)
        /\ status' = [status EXCEPT ![t] = "invalid"] /\ buffer' = [buffer EXCEPT ![t] = b]
        /\ linuxAfter' = [linuxAfter EXCEPT ![b] = linuxAsked]
        /\ state' = [state EXCEPT ![t] = "Idle"] /\ X!H!HaveIdle(t)
    BY <1>1 DEF X!SubmitErr, X!Ready, X!H!SimulateComplete
  <2>2. \A n \in DOMAIN queue : queue[n] # t
    BY <1>0, <2>1 DEF X!H!HaveIdle
  <2>3. /\ buffer'[t] = b /\ status'[t] = "invalid"
        /\ \A u \in Transfers : u # t => status'[u] = status[u] /\ buffer'[u] = buffer[u] /\ state'[u] = state[u]
    BY <1>0, <2>1
  <2> QED
    BY <2>1, <2>2, <2>3, PushRefines
<1>2. CASE X!SubmitUrb \/ X!SubmitReturns
  <2>1. /\ upc \in {"submit", "inline"} /\ UNCHANGED <<linuxPhase, linuxAsked, buffer, status, state>> /\ queue' = Append(queue, ut)
        /\ linuxAfter' = [linuxAfter EXCEPT ![buffer[ut]] = linuxAsked]
    BY <1>2 DEF X!SubmitUrb, X!SubmitReturns, X!PushBack, X!H!SubmitOk, X!H!SubmitReturn
  <2>2. /\ ut \in Transfers /\ (\A n \in DOMAIN queue : queue[n] # ut) /\ linuxPhase = "open" /\ handle[ut] = "pending"
        /\ buffer[ut] \in LinuxBuffers /\ buffer[ut] \notin X!Queued
    BY <1>0, <2>1 DEF X!CallerInv, X!BufferInv
  <2>3. state[ut] = "Idle" => status[ut] = "error"
    <3>1. CASE upc = "inline"
      BY <3>1 DEF X!ResultInv, X!InlineInv
    <3>2. CASE upc = "submit"
      BY <1>0, <2>2, <3>2 DEF X!H!IInv, X!H!ExclusiveAccess, X!H!UserOwns, X!H!Submitting, X!H!Out
    <3> QED
      BY <2>1, <3>1, <3>2
  <2>4. PICK t \in Transfers : t = ut
    BY <2>2
  <2>5. PICK b \in LinuxBuffers : b = buffer[t]
    BY <2>2, <2>4
  <2>6. X!Abstract!Submit(b)
    BY <2>1, <2>2, <2>3, <2>4, <2>5, PushRefines
  <2> QED
    BY <2>6
<1> QED
  BY <1>1, <1>2

\* The front is returned, or discarded by drop.
LEMMA LinuxFrontRefines ==
  ASSUME X!LinuxInv, X!LinuxInv', X!PopFront \/ X!DropFront
  PROVE  X!Abstract!Return \/ X!Abstract!Discard
<1> USE DEF X!usbfs, X!owner, X!handshake, X!shared, X!ghosts
<1>0. queue # <<>> /\ Head(queue) = queue[1] /\ 1 \in 1..Len(queue) /\ queue[1] \in Transfers
  <2>1. queue # <<>> /\ queue \in Seq(Transfers)
    BY LinuxQueues, LinuxFacts DEF X!PopFront, X!DropFront, X!CallerInv
  <2> QED
    BY <2>1, Popped
<1>1. /\ status \in [Transfers -> X!Statuses] /\ buffer \in [Transfers -> LinuxBuffers \union {NoBuffer}]
      /\ state \in [Transfers -> {"Idle", "Pending", "Abandoned"}]
      /\ DOMAIN queue = 1..Len(queue) /\ X!CallerInv /\ Results /\ QueueShown
  BY LinuxFacts, ResultsAre, QueueIsShown DEF Rest, X!H!TypeOK, X!H!States
<1>2. CASE X!PopFront
  <2>1. ut = queue[1] /\ linuxPhase = "open"
    BY <1>0, <1>1, <1>2 DEF X!PopFront, X!CallerInv
  <2>2. /\ queue' = Tail(queue) /\ UNCHANGED <<linuxPhase, state>>
        /\ buffer' = [buffer EXCEPT ![queue[1]] = NoBuffer] /\ status' = [status EXCEPT ![queue[1]] = "ok"]
        /\ linuxAsked' = linuxAsked \ {buffer[queue[1]]}
        /\ linuxAfter' = [b \in LinuxBuffers |-> linuxAfter[b] \ {buffer[queue[1]]}]
        /\ state[queue[1]] = "Idle"
    BY <1>2, <2>1 DEF X!PopFront, X!H!CheckComplete, X!H!IsComplete
  <2>3. \A u \in Transfers : u # queue[1] => status'[u] = status[u] /\ buffer'[u] = buffer[u] /\ state'[u] = state[u]
    BY <1>1, <2>2
  <2>4. X!Abstract!Pop /\ Head(X!Queue) = buffer[queue[1]]
    BY <1>0, <2>2, <2>3, LinuxPopRefines
  <2>5. LinuxShown[Head(X!Queue)] # "pending"
    <3>1. LinuxShown[buffer[queue[1]]] = status[queue[1]]
      BY <1>0, <1>1, <2>2 DEF Results
    <3>2. status[queue[1]] \in X!Statuses
      BY <1>0, <1>1
    <3> QED
      BY <2>4, <3>1, <3>2 DEF X!Statuses
  <2> QED
    BY <2>1, <2>4, <2>5 DEF X!Abstract!Return, LinuxShown
<1>3. CASE X!DropFront
  <2>1. Head(X!Queue) = buffer[queue[1]]
    <3>1. X!Queue[1] = buffer[queue[1]]
      BY <1>0, <1>1 DEF X!Queue
    <3>2. Head(X!Queue) = X!Queue[1]
      OBVIOUS
    <3> QED
      BY <3>1, <3>2
  <2>2. /\ queue' = Tail(queue) /\ UNCHANGED <<linuxPhase, buffer, status>> /\ linuxPhase = "drop"
        /\ linuxAsked' = linuxAsked \ {buffer[queue[1]]}
        /\ linuxAfter' = [b \in LinuxBuffers |-> linuxAfter[b] \ {buffer[queue[1]]}]
        /\ state' = [state EXCEPT ![queue[1]] = "Abandoned"]
    BY <1>0, <1>3, <2>1 DEF X!DropFront, X!H!DropPending
  <2>3. \A u \in Transfers : u # queue[1] => status'[u] = status[u] /\ buffer'[u] = buffer[u] /\ state'[u] = state[u]
    BY <1>1, <2>2
  <2>4. X!Abstract!Pop
    BY <1>0, <2>2, <2>3, LinuxPopRefines
  <2> QED
    BY <2>2, <2>4 DEF X!Abstract!Discard
<1> QED
  BY <1>2, <1>3

\* cancel_all asks for what is in the queue to stop; where drop is done with it, or needs none, the
\* endpoint closes.
LEMMA LinuxPhaseRefines ==
  ASSUME X!LinuxInv, X!LinuxInv',
         X!StartCancel("cancel") \/ X!Drop \/ X!EndCancel \/ X!DropIdleTransfer \/ X!OpenEndpoint
  PROVE  X!Abstract!CancelAll \/ X!Abstract!Close \/ X!Abstract!Reopen \/ UNCHANGED X!Abstract!vars
<1> USE DEF X!usbfs, X!owner, X!handshake, X!shared, X!ghosts
<1>0. UNCHANGED <<queue, buffer, state, status, linuxAfter>>
  BY DEF X!StartCancel, X!Drop, X!EndCancel, X!DropIdleTransfer, X!OpenEndpoint, X!H!DropIdle
<1>1. X!Queue' = X!Queue /\ LinuxShown' = LinuxShown
  BY <1>0, ShownKept
<1>2. QueueShown /\ X!CallerInv /\ X!TypeOK
  BY QueueIsShown, LinuxFacts
<1>3. ASSUME NEW p \in {"cancel", "dropCancel"}, X!StartCancel(p) PROVE X!Abstract!CancelAll
  <2>1. LinuxOpen /\ LinuxOpen' /\ linuxAsked' = X!Queued
    BY <1>3 DEF X!StartCancel, X!Ready, LinuxOpen
  <2>2. X!Queued \subseteq LinuxBuffers
    BY LinuxFacts DEF X!BufferInv, X!Queued, X!Queue
  <2>3. linuxAsked' = {b \in LinuxBuffers : X!Abstract!Queued(b)}
    BY <1>2, <2>1, <2>2 DEF QueueShown
  <2> QED
    BY <1>0, <1>1, <2>1, <2>3 DEF X!Abstract!CancelAll, LinuxShown, LinuxOpen
<1>4. CASE linuxAsked' = linuxAsked /\ ~LinuxOpen'
  BY <1>0, <1>1, <1>4 DEF X!Abstract!Close, LinuxShown, LinuxOpen
<1>5. CASE linuxAsked' = linuxAsked /\ (LinuxOpen' <=> LinuxOpen)
  <2>1. LinuxOpen' = LinuxOpen
    BY <1>5 DEF LinuxOpen
  <2> QED
    BY <1>0, <1>1, <1>5, <2>1, LinuxStutter
<1>6. CASE X!OpenEndpoint
  <2>1. ~LinuxOpen /\ LinuxOpen' /\ linuxAsked' = linuxAsked /\ queue = <<>>
    BY <1>2, <1>6 DEF X!OpenEndpoint, LinuxOpen, X!CallerInv
  <2>2. X!Queue = <<>>
    <3>1. X!Queue \in Seq(LinuxBuffers) /\ Len(X!Queue) = 0
      BY <1>2, <2>1 DEF QueueShown
    <3> QED
      BY <3>1
  <2> QED
    BY <1>0, <1>1, <2>1, <2>2 DEF X!Abstract!Reopen, LinuxShown, LinuxOpen
<1>7. X!EndCancel \/ X!DropIdleTransfer => linuxAsked' = linuxAsked /\ (~LinuxOpen' \/ (LinuxOpen' <=> LinuxOpen))
  BY DEF X!EndCancel, X!DropIdleTransfer, LinuxOpen
<1>8. X!Drop => X!StartCancel("dropCancel") \/ (linuxAsked' = linuxAsked /\ ~LinuxOpen')
  BY DEF X!Drop, LinuxOpen
<1> QED
  BY <1>3, <1>4, <1>5, <1>6, <1>7, <1>8

\* The rest is not seen: what happens to a transfer between its submission and the swap.
LEMMA LinuxQuietRefines ==
  ASSUME X!LinuxInv, X!LinuxInv', X!ResultInv,
         \/ X!WaitStep \/ X!GiveUp \/ X!DropDisplaced \/ X!DropInner \/ X!Disconnect \/ X!ReapNoDevice
         \/ X!Cancel \/ (\E s \in {"ok", "error"} : X!FinishUrb(s)) \/ X!SubmitUrbFails \/ X!ReapUrb
         \/ (\E m \in Modes : X!NextComplete(m))
         \/ (\E t \in Transfers, b \in LinuxBuffers : X!Submit(t, b))
         \/ UNCHANGED linuxEndpoint
  PROVE  UNCHANGED X!Abstract!vars
<1> USE DEF X!usbfs, X!owner, X!handshake, X!shared, X!ghosts
<1>0. /\ status \in [Transfers -> X!Statuses] /\ buffer \in [Transfers -> LinuxBuffers \union {NoBuffer}]
      /\ state \in [Transfers -> {"Idle", "Pending", "Abandoned"}] /\ DOMAIN queue = 1..Len(queue)
      /\ \A i \in DOMAIN queue : queue[i] \in Transfers /\ handle[queue[i]] = "pending"
      /\ \A t \in Transfers : handle[t] # "none" => t \in live
      /\ X!CallerInv /\ X!H!IInv
  BY LinuxFacts DEF X!H!TypeOK, X!H!States, Rest
<1>1. UNCHANGED <<queue, linuxAsked, linuxAfter, linuxPhase>>
  BY DEF X!WaitStep, X!GiveUp, X!DropDisplaced, X!DropInner, X!Disconnect, X!ReapNoDevice, X!Cancel, X!FinishUrb,
     X!SubmitUrbFails, X!ReapUrb, X!NextComplete, X!Submit, linuxEndpoint
<1>2. LinuxOpen' = LinuxOpen
  BY <1>1 DEF LinuxOpen
<1>3. ASSUME \A n \in DOMAIN queue :
               /\ buffer'[queue[n]] = buffer[queue[n]] /\ state'[queue[n]] = state[queue[n]]
               /\ state[queue[n]] = "Idle" => status'[queue[n]] = status[queue[n]]
      PROVE  UNCHANGED X!Abstract!vars
  <2>1. X!Queue' = X!Queue /\ LinuxShown' = LinuxShown
    BY <1>1, <1>3, ShownKept
  <2> QED
    BY <1>1, <1>2, <2>1, LinuxStutter
<1>4. CASE \/ X!WaitStep \/ X!GiveUp \/ X!DropDisplaced \/ X!DropInner \/ X!Disconnect \/ X!ReapNoDevice
           \/ X!Cancel \/ (\E s \in {"ok", "error"} : X!FinishUrb(s)) \/ (\E m \in Modes : X!NextComplete(m))
           \/ UNCHANGED linuxEndpoint
  <2>1. UNCHANGED <<buffer, state, status>>
    BY <1>4 DEF X!WaitStep, X!GiveUp, X!DropDisplaced, X!DropInner, X!Disconnect, X!ReapNoDevice, X!Cancel, X!FinishUrb,
       X!NextComplete, linuxEndpoint, X!H!Subscribe, X!H!CheckPending, X!H!Unpark, X!H!SpuriousUnpark, X!H!TaskWoken,
       X!H!Expire, X!H!TaskMovesOn, X!H!DropIdle, X!H!StartWait
  <2> QED
    BY <1>3, <2>1
<1>5. CASE X!SubmitUrbFails
  <2>1. upc = "submit" /\ UNCHANGED <<buffer, state>> /\ status' = [status EXCEPT ![ut] = "error"]
    BY <1>5 DEF X!SubmitUrbFails, X!H!SubmitErr
  <2>2. \A n \in DOMAIN queue : queue[n] # ut
    BY <1>0, <2>1 DEF X!CallerInv
  <2> QED
    BY <1>0, <1>3, <2>1, <2>2
<1>6. CASE X!ReapUrb
  <2>1. /\ UNCHANGED <<buffer, state>> /\ Head(finished).urb \in X!kernel
        /\ status' = [status EXCEPT ![Head(finished).urb] = Head(finished).status]
    BY <1>6 DEF X!ReapUrb, X!H!Reap
  <2>2. ASSUME NEW n \in DOMAIN queue, state[queue[n]] = "Idle" PROVE queue[n] \notin X!kernel
    BY <1>0, <2>2, NotInKernel
  <2> QED
    BY <1>0, <1>3, <2>1, <2>2
<1>7. ASSUME NEW t \in Transfers, NEW b \in LinuxBuffers, X!Submit(t, b) PROVE UNCHANGED X!Abstract!vars
  <2>1. /\ X!H!HaveIdle(t) /\ buffer' = [buffer EXCEPT ![t] = b] /\ state' = [state EXCEPT ![t] = "Pending"]
        /\ UNCHANGED status
    BY <1>7 DEF X!Submit, X!H!PreSubmit
  <2>2. \A n \in DOMAIN queue : queue[n] # t
    BY <1>0, <2>1 DEF X!H!HaveIdle
  <2> QED
    BY <1>0, <1>3, <2>1, <2>2
<1> QED
  BY <1>4, <1>5, <1>6, <1>7

\* notify_completion on the event thread is Finish, on the caller's thread it comes before Submit.
LEMMA LinuxNotifyRefines ==
  ASSUME X!LinuxInv, X!LinuxInv', X!ResultInv, NEW h \in {EventThread, User}, X!NotifyCompletion(h)
  PROVE  \/ \E b \in LinuxBuffers, r \in {"ok", "error", "cancelled"} : X!Abstract!Finish(b, r)
         \/ UNCHANGED X!Abstract!vars
<1> USE DEF X!usbfs, X!owner, X!handshake, X!shared, X!ghosts
<1>0. /\ state \in [Transfers -> {"Idle", "Pending", "Abandoned"}] /\ DOMAIN queue = 1..Len(queue)
      /\ \A i \in DOMAIN queue : queue[i] \in Transfers
      /\ X!CallerInv /\ X!H!IInv
  BY LinuxFacts DEF X!H!TypeOK, X!H!States
<1>1. UNCHANGED <<queue, buffer, status, linuxAsked, linuxAfter, linuxPhase>> /\ X!H!HandlerStep(h)
  BY DEF X!NotifyCompletion
<1>2. ASSUME \A n \in DOMAIN queue : state'[queue[n]] = state[queue[n]] PROVE UNCHANGED X!Abstract!vars
  <2>1. X!Queue' = X!Queue /\ LinuxShown' = LinuxShown
    BY <1>1, <1>2, ShownKept
  <2>2. LinuxOpen' = LinuxOpen
    BY <1>1 DEF LinuxOpen
  <2> QED
    BY <1>1, <2>1, <2>2, LinuxStutter
<1>3. CASE X!H!TakeNotifyState(h) \/ X!H!Wake(h) \/ X!H!Free(h)
  <2>1. UNCHANGED state
    BY <1>3 DEF X!H!TakeNotifyState, X!H!Wake, X!H!Free
  <2> QED
    BY <1>2, <2>1
<1>4. CASE X!H!SwapIdle(h)
  <2>1. hpc[h] = "swap" /\ state[job[h]] # "Idle" /\ state' = [state EXCEPT ![job[h]] = "Idle"]
    BY <1>4 DEF X!H!SwapIdle
  <2>2. CASE \A n \in DOMAIN queue : queue[n] # job[h]
    BY <1>0, <1>2, <2>1, <2>2
  <2>3. ASSUME NEW n \in DOMAIN queue, queue[n] = job[h]
        PROVE  \E b \in LinuxBuffers, r \in {"ok", "error", "cancelled"} : X!Abstract!Finish(b, r)
    <3>1. h = EventThread
      <4> SUFFICES ASSUME h = User PROVE FALSE
        OBVIOUS
      <4>1. upc = "inline" /\ job[User] = ut
        BY <1>0, <2>1 DEF X!H!IInv, X!H!CallInv, X!ResultInv, X!InlineInv
      <4> QED
        BY <1>0, <2>3, <4>1 DEF X!CallerInv
    <3> QED
      BY <1>1, <2>1, <2>3, <3>1, SwapRefines
  <2> QED
    BY <2>2, <2>3
<1> QED
  BY <1>1, <1>3, <1>4 DEF X!H!HandlerStep

\* Every step of a Linux endpoint is a step of EndpointQueue, or one that it does not see.
LEMMA LinuxRefines ==
  X!LinuxInv /\ X!LinuxInv' /\ X!ResultInv /\ [X!Next]_linuxEndpoint => [X!Abstract!Next]_(X!Abstract!vars)
<1> SUFFICES ASSUME X!LinuxInv, X!LinuxInv', X!ResultInv, [X!Next]_linuxEndpoint
             PROVE  X!Abstract!Next \/ UNCHANGED X!Abstract!vars
  OBVIOUS
<1>1. ASSUME NEW b \in LinuxBuffers, NEW r \in {"ok", "error", "cancelled"}, X!Abstract!Finish(b, r) PROVE X!Abstract!Next
  BY <1>1 DEF X!Abstract!Next, X!Abstract!Results
<1>2. CASE (\E t \in Transfers, b \in LinuxBuffers : X!SubmitErr(t, b)) \/ X!SubmitUrb \/ X!SubmitReturns
  <2>1. PICK b \in LinuxBuffers : X!Abstract!Submit(b)
    BY <1>2, LinuxSubmitRefines
  <2> QED
    BY <2>1 DEF X!Abstract!Next
<1>3. CASE X!PopFront \/ X!DropFront
  BY <1>3, LinuxFrontRefines DEF X!Abstract!Next
<1>4. CASE X!StartCancel("cancel") \/ X!Drop \/ X!EndCancel \/ X!DropIdleTransfer \/ X!OpenEndpoint
  BY <1>4, LinuxPhaseRefines DEF X!Abstract!Next
<1>5. CASE X!NotifyCompletion(EventThread) \/ X!NotifyCompletion(User)
  BY <1>1, <1>5, LinuxNotifyRefines
<1>6. CASE \/ X!WaitStep \/ X!GiveUp \/ X!DropDisplaced \/ X!DropInner \/ X!Disconnect \/ X!ReapNoDevice
           \/ X!Cancel \/ (\E s \in {"ok", "error"} : X!FinishUrb(s)) \/ X!SubmitUrbFails \/ X!ReapUrb
           \/ (\E m \in Modes : X!NextComplete(m))
           \/ (\E t \in Transfers, b \in LinuxBuffers : X!Submit(t, b))
           \/ UNCHANGED linuxEndpoint
  BY <1>6, LinuxQuietRefines
<1> QED
  BY <1>2, <1>3, <1>4, <1>5, <1>6 DEF X!Next, X!OwnerStep, X!EventStep

\* A new endpoint is an empty queue.
LEMMA LinuxStartRefines == X!Init => X!Abstract!Init
<1> SUFFICES ASSUME X!Init PROVE X!Abstract!Init
  OBVIOUS
<1>1. queue = <<>> /\ DOMAIN queue = {} /\ LinuxOpen /\ linuxAsked = {} /\ linuxAfter = [b \in LinuxBuffers |-> {}]
  BY DEF X!Init, LinuxOpen
<1>2. X!Queue = <<>>
  BY <1>1 DEF X!Queue
<1>3. LinuxShown = [b \in LinuxBuffers |-> "pending"]
  BY <1>1 DEF LinuxShown, X!ResultOf
<1> QED
  BY <1>1, <1>2, <1>3 DEF X!Abstract!Init, LinuxShown, LinuxOpen
=============================================================================
