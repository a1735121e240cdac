----------------------- MODULE TransferHandshakeProofs -----------------------
(***************************************************************************)
(* Proofs about TransferHandshake, for any number of boxes and threads.    *)
(*                                                                         *)
(* The safety properties support each other: that a box is used by one     *)
(* side only rests on nobody freeing it early, which rests on every        *)
(* orphan being in someone's hands.  Together with what the program        *)
(* counters say of their operands (CallInv, HandlerInv) they are inductive.*)
(***************************************************************************)
EXTENDS TransferHandshake, TLAPS

\* The part of IInv that is not about types.
SafeInv ==
  /\ NoDanglingPointer
  /\ ExclusiveAccess
  /\ NoOrphan
  /\ NoPanic
  /\ CallInv
  /\ HandlerInv

\* Nothing is allocated and nobody is at work when the owner is created.
LEMMA InitIInv == Init => IInv
<1> SUFFICES ASSUME Init PROVE IInv
  OBVIOUS
<1>1. live \subseteq Transfers /\ kernel \subseteq Transfers /\ woken \subseteq Registrations
  BY DEF Init
<1>2. state \in [Transfers -> States] /\ handle \in [Transfers -> {"none", "idle", "pending"}]
  BY DEF Init, States
<1>3. TypeOK
  BY <1>1, <1>2 DEF Init, TypeOK, NotifyStates
<1>4. SafeInv
  BY DEF Init, SafeInv, NoDanglingPointer, ExclusiveAccess, NoOrphan, NoPanic, CallInv,
         HandlerInv, Out, UserOwns, Submitting, Engaged, Threads
<1> QED BY <1>3, <1>4 DEF IInv, SafeInv

\* Every step keeps the types.  Submitting needs CallInv: ut is then a transfer.
LEMMA TypeStep == IInv /\ [Next]_vars => TypeOK'
<1> SUFFICES ASSUME IInv, [Next]_vars PROVE TypeOK'
  OBVIOUS
<1>0. TypeOK /\ CallInv
  BY DEF IInv
<1> USE <1>0 DEF vars, user, handlers, TypeOK
<1>1. ASSUME NEW t \in Transfers, Handles(t) PROVE TypeOK'
  BY <1>1 DEF Handles, PreSubmit, HaveIdle, SimulateComplete, DropIdle, DropPending, FreedByDrop, States
<1>2. ASSUME NEW t \in Transfers, NEW m \in {"poll", "wait", "timed"}, StartWait(t, m) PROVE TypeOK'
  BY <1>2 DEF StartWait
<1>3. CASE SubmitOk
  BY <1>3 DEF SubmitOk, CallInv
<1>4. CASE SubmitErr
  BY <1>4 DEF SubmitErr, Threads
<1>5. CASE SubmitReturn
  BY <1>5 DEF SubmitReturn
<1>6. CASE Subscribe
  BY <1>6 DEF Subscribe, NotifyStates, Registrations, Registration
<1>7. CASE CheckComplete
  BY <1>7 DEF CheckComplete, IsComplete, Return
<1>8. CASE CheckPending
  BY <1>8 DEF CheckPending, IsComplete, TimeIsUp, Return
<1>9. CASE Expire \/ Unpark \/ SpuriousUnpark \/ TaskWoken \/ TaskMovesOn
  BY <1>9 DEF Expire, Unpark, SpuriousUnpark, TaskWoken, TaskMovesOn, Return
<1>10. ASSUME NEW h \in EventThreads, NEW t \in Transfers, Reap(h, t) PROVE TypeOK'
  BY <1>10 DEF Reap, Threads
<1>11. ASSUME NEW h \in Threads, TakeNotifyState(h) PROVE TypeOK'
  BY <1>11 DEF TakeNotifyState, NotifyStates
<1>12. ASSUME NEW h \in Threads, SwapIdle(h) PROVE TypeOK'
  BY <1>12 DEF SwapIdle, AfterSwap, States
<1>13. ASSUME NEW h \in Threads, Wake(h) PROVE TypeOK'
  BY <1>13 DEF Wake, Given, NotifyStates
<1>14. ASSUME NEW h \in Threads, Free(h) PROVE TypeOK'
  BY <1>14 DEF Free, NotifyStates
<1>15. CASE UNCHANGED vars
  BY <1>15
<1> QED
  BY <1>1, <1>2, <1>3, <1>4, <1>5, <1>6, <1>7, <1>8, <1>9, <1>10, <1>11, <1>12, <1>13,
     <1>14, <1>15
  DEF Next, CallStep, HandlerStep

-----------------------------------------------------------------------------
\* Dropping a Pending handle orphans the box only while someone else has it.
LEMMA DropPendingStep ==
  ASSUME IInv, NEW t \in Transfers, DropPending(t)
  PROVE  SafeInv'
<1> USE DEF DropPending, FreedByDrop, user, handlers
<1>1. state[t] \in {"Idle", "Pending"} /\ (state[t] = "Pending" => Out(t))
  BY DEF IInv, TypeOK, States, NoPanic, NoOrphan
<1>2. \A s \in Transfers : Out(s)' <=> Out(s)
  BY DEF Out, Submitting, Engaged
<1>3. \A h \in Threads : \A s \in Transfers : Engaged(h, s)' <=> Engaged(h, s)
  BY DEF Engaged
<1>4. NoOrphan'
  <2>1. ASSUME NEW s \in live', handle'[s] = "none"
        PROVE  Out(s)' /\ (state'[s] = "Abandoned" \/ \E h \in Threads : hpc'[h] = "free" /\ job'[h] = s)
    <3>1. CASE s = t
      BY <1>1, <1>2, <2>1, <3>1 DEF IInv, TypeOK
    <3>2. CASE s # t
      BY <1>2, <2>1, <3>2 DEF IInv, TypeOK, NoOrphan
    <3> QED BY <3>1, <3>2
  <2>2. \A s \in Transfers : handle'[s] = "pending" /\ state'[s] = "Pending" => Out(s)'
    BY <1>2 DEF IInv, TypeOK, NoOrphan
  <2> QED BY <2>1, <2>2 DEF NoOrphan
<1>5. NoDanglingPointer' /\ ExclusiveAccess' /\ NoPanic' /\ CallInv' /\ HandlerInv'
  BY DEF IInv, TypeOK, NoDanglingPointer, ExclusiveAccess, NoPanic, CallInv, HandlerInv, Out,
         UserOwns, Submitting, Engaged, Threads
<1> QED BY <1>4, <1>5 DEF SafeInv

\* The steps of the caller on its handles and in its calls.
LEMMA UserStep ==
  ASSUME IInv,
         \/ \E t \in Transfers : Handles(t)
         \/ \E t \in Transfers, m \in {"poll", "wait", "timed"} : StartWait(t, m)
         \/ CallStep
         \/ Expire \/ Unpark \/ SpuriousUnpark \/ TaskWoken \/ TaskMovesOn
  PROVE  SafeInv'
<1> USE UserAssumption, NoTransferAssumption
    DEF IInv, TypeOK, SafeInv, NoDanglingPointer, ExclusiveAccess, NoOrphan, NoPanic, CallInv,
        HandlerInv, Out, UserOwns, Submitting, Engaged, user, handlers, Threads
<1>1. ASSUME NEW t \in Transfers, PreSubmit(t) PROVE SafeInv'
  BY <1>1 DEF PreSubmit, HaveIdle
<1>2. ASSUME NEW t \in Transfers, SimulateComplete(t) PROVE SafeInv'
  BY <1>2 DEF SimulateComplete, HaveIdle
<1>3. ASSUME NEW t \in Transfers, DropIdle(t) PROVE SafeInv'
  BY <1>3 DEF DropIdle
<1>4. ASSUME NEW t \in Transfers, NEW m \in {"poll", "wait", "timed"}, StartWait(t, m) PROVE SafeInv'
  BY <1>4 DEF StartWait
<1>5. CASE SubmitOk
  BY <1>5 DEF SubmitOk
<1>6. CASE SubmitErr
  BY <1>6 DEF SubmitErr
<1>7. CASE SubmitReturn
  BY <1>7 DEF SubmitReturn
<1>8. CASE Subscribe
  BY <1>8 DEF Subscribe
<1>9. CASE CheckComplete
  BY <1>9 DEF CheckComplete, IsComplete, Return
<1>10. CASE CheckPending
  BY <1>10 DEF CheckPending, IsComplete, TimeIsUp, Return
<1>11. CASE Expire
  BY <1>11 DEF Expire
<1>12. CASE Unpark \/ SpuriousUnpark
  BY <1>12 DEF Unpark, SpuriousUnpark
<1>13. CASE TaskWoken \/ TaskMovesOn
  BY <1>13 DEF TaskWoken, TaskMovesOn, Return
<1> HIDE DEF IInv, SafeInv
<1> QED
  BY <1>1, <1>2, <1>3, <1>4, <1>5, <1>6, <1>7, <1>8, <1>9, <1>10, <1>11, <1>12, <1>13,
     DropPendingStep
  DEF Handles, CallStep

\* The steps of notify_completion, and the reaping that starts it.
LEMMA HandlerStepLemma ==
  ASSUME IInv,
         \/ \E h \in EventThreads, t \in Transfers : Reap(h, t)
         \/ \E h \in Threads : HandlerStep(h)
  PROVE  SafeInv'
<1> USE UserAssumption, NoTransferAssumption
    DEF IInv, TypeOK, SafeInv, NoDanglingPointer, ExclusiveAccess, NoOrphan, NoPanic, CallInv,
        HandlerInv, Out, UserOwns, Submitting, Engaged, user, handlers, Threads
<1>1. ASSUME NEW h \in EventThreads, NEW t \in Transfers, Reap(h, t) PROVE SafeInv'
  BY <1>1 DEF Reap
<1>2. ASSUME NEW h \in Threads, TakeNotifyState(h) PROVE SafeInv'
  BY <1>2 DEF TakeNotifyState
<1>3. ASSUME NEW h \in Threads, SwapIdle(h) PROVE SafeInv'
  <2> USE <1>3 DEF SwapIdle, AfterSwap
  <2>1. NoDanglingPointer' /\ NoPanic' /\ CallInv' /\ HandlerInv'
    OBVIOUS
  <2>2. ExclusiveAccess'
    OBVIOUS
  <2>3. NoOrphan'
    OBVIOUS
  <2> QED BY <2>1, <2>2, <2>3
<1>4. ASSUME NEW h \in Threads, Wake(h) PROVE SafeInv'
  BY <1>4 DEF Wake
<1>5. ASSUME NEW h \in Threads, Free(h) PROVE SafeInv'
  BY <1>5 DEF Free
<1> QED
  BY <1>1, <1>2, <1>3, <1>4, <1>5 DEF HandlerStep

-----------------------------------------------------------------------------
\* No step of any thread, in any order, breaks the hand-over.
LEMMA IInvStep == IInv /\ [Next]_vars => IInv'
<1> SUFFICES ASSUME IInv, [Next]_vars PROVE IInv'
  OBVIOUS
<1>1. TypeOK'
  BY TypeStep
<1>2. Next => SafeInv'
  BY UserStep, HandlerStepLemma DEF Next
<1>3. UNCHANGED vars => SafeInv'
  BY DEF vars, user, handlers, IInv, TypeOK, SafeInv, NoDanglingPointer,
     ExclusiveAccess, NoOrphan, NoPanic, CallInv, HandlerInv, Out, UserOwns, Submitting, Engaged
<1>4. SafeInv'
  BY <1>2, <1>3
<1> QED BY <1>1, <1>4 DEF IInv, SafeInv

\* IInv holds throughout.
THEOREM InductiveInvariant == Spec => []IInv
BY InitIInv, IInvStep, PTL DEF Spec

\* Type correctness: every state of the hand-over has the types the code declares.
THEOREM TypeCorrect == Spec => []TypeOK
<1>1. IInv => TypeOK
  BY DEF IInv
<1> QED BY <1>1, InductiveInvariant, PTL

\* No use after free: whoever still has a raw pointer to a TransferInner, be it a
\* handle, the kernel or notify_completion on any thread, points to a live box.
THEOREM MemorySafety == Spec => []NoDanglingPointer
<1>1. IInv => NoDanglingPointer
  BY DEF IInv
<1> QED BY <1>1, InductiveInvariant, PTL

\* The SAFETY comments of Idle and notify_completion: no concurrent access.
THEOREM NoConcurrentAccess == Spec => []ExclusiveAccess
<1>1. IInv => ExclusiveAccess
  BY DEF IInv
<1> QED BY <1>1, InductiveInvariant, PTL

\* No transfer is lost: pending ones will be completed, abandoned ones freed, by
\* exactly the party that has them.
THEOREM NothingLost == Spec => []NoOrphan
<1>1. IInv => NoOrphan
  BY DEF IInv
<1> QED BY <1>1, InductiveInvariant, PTL

\* The assertion of pre_submit and the panics of is_complete, Drop for Pending
\* and notify_completion are unreachable.
THEOREM PanicFree == Spec => []NoPanic
<1>1. IInv => NoPanic
  BY DEF IInv
<1> QED BY <1>1, InductiveInvariant, PTL

\* A transfer seen complete stays complete while its handle is kept, whatever
\* the completing threads do.
THEOREM CompletionIsStable == Spec => CompleteIsStable
<1> DEFINE Stable == \A t \in Transfers :
                       handle[t] = "pending" /\ state[t] = "Idle" /\ handle'[t] = "pending"
                         => state'[t] = "Idle"
<1>1. IInv /\ Next => Stable
  <2> SUFFICES ASSUME IInv, Next PROVE Stable
    OBVIOUS
  <2> USE DEF IInv, TypeOK, user, handlers
  <2>1. ASSUME NEW t \in Transfers, Handles(t) PROVE Stable
    <3>1. handle[t] # "none" => t \in live
      BY DEF NoDanglingPointer
    <3> QED
      BY <2>1, <3>1 DEF Handles, PreSubmit, HaveIdle, SimulateComplete, DropIdle, DropPending
  <2>2. ASSUME NEW h \in Threads, HandlerStep(h) PROVE Stable
    <3>1. CASE SwapIdle(h)
      <4>1. state' = [state EXCEPT ![job[h]] = "Idle"]
        BY <3>1 DEF SwapIdle
      <4> QED BY <4>1
    <3>2. CASE TakeNotifyState(h) \/ Wake(h) \/ Free(h)
      BY <3>2 DEF TakeNotifyState, Wake, Given, Free
    <3> QED BY <2>2, <3>1, <3>2 DEF HandlerStep
  <2> QED
    BY <2>1, <2>2 DEF Next, StartWait, CallStep, SubmitOk, SubmitErr, SubmitReturn, Subscribe,
       CheckComplete, CheckPending, Expire, Unpark, SpuriousUnpark, TaskWoken, TaskMovesOn, Reap
<1>2. IInv /\ [Next]_vars => [Stable]_vars
  BY <1>1
<1> QED BY <1>2, InductiveInvariant, PTL DEF Spec, CompleteIsStable
=============================================================================
