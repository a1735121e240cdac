------------------------ MODULE LinuxInterfaceProofs ------------------------
(***************************************************************************)
(* Proofs about LinuxInterface, for any threads, endpoints and alternate   *)
(* settings.                                                               *)
(*                                                                         *)
(* The properties rest on the order of life-times (LifetimeInv) and on     *)
(* InterfaceState.endpoints being exactly the addresses of the             *)
(* EndpointInners that exist (LockInv).                                    *)
(***************************************************************************)
EXTENDS LinuxInterface, TLAPS

\* Init has a device and nothing else.
LEMMA InitIInv == Init => IInv
<1> SUFFICES ASSUME Init PROVE IInv
  OBVIOUS
<1>1. TypeOK
  BY AltAssumption DEF Init, TypeOK
<1>2. LifetimeInv
  BY NameAssumption DEF Init, LifetimeInv, InnerReferenced, InterfaceReferenced, Owners
<1>3. LockInv /\ ExclusiveEndpoint
  BY DEF Init, LockInv, ExclusiveEndpoint
<1> QED BY <1>1, <1>2, <1>3 DEF IInv

\* Every step keeps the types.
LEMMA TypeStep == TypeOK /\ [Next]_vars => TypeOK'
<1> SUFFICES ASSUME TypeOK, [Next]_vars PROVE TypeOK'
  OBVIOUS
<1> USE AltAssumption, NameAssumption DEF TypeOK, device, claim, state, calls, transfers, Owners
<1>1. CASE Claim \/ DropDevice \/ DropUserInterface \/ SubmitControl
  BY <1>1 DEF Claim, DropDevice, DropUserInterface, SubmitControl
<1>2. CASE \E t \in Threads : Call(t)
  <2> SUFFICES ASSUME NEW t \in Threads, Call(t) PROVE TypeOK'
    BY <1>2
  <2>1. CASE LockForAlt(t) \/ \E a \in AltSettings : SetInterface(t, a)
    BY <2>1 DEF LockForAlt, SetInterface
  <2>2. CASE \E e \in Addresses : FindDescriptor(t, e)
    BY <2>2 DEF FindDescriptor, Exists, Descriptor, Descriptors
  <2>3. CASE \E o \in Opened : Open(t, o)
    BY <2>3 DEF Open, Descriptors
  <2>4. CASE Busy(t)
    BY <2>4 DEF Busy
  <2> QED BY <2>1, <2>2, <2>3, <2>4 DEF Call
<1>3. CASE \E o \in Owners : Submit(o) \/ DropHandle(o)
  BY <1>3 DEF Submit, DropHandle
<1>4. CASE Dropping
  BY <1>4 DEF Dropping, DropInterface, DropLinuxDevice, DropInner, Cleared
<1>5. CASE EventStep \/ Finishing
  BY <1>5 DEF EventStep, Finishing, HandleUsbEpoll, Handled, Reap, Finish
<1>6. CASE UNCHANGED vars
  BY <1>6 DEF vars
<1> QED BY <1>1, <1>2, <1>3, <1>4, <1>5, <1>6 DEF Next

\* Steps of the threads that share the interface.
LEMMA CallKeepsIInv ==
  ASSUME IInv, NEW t \in Threads, Call(t)
  PROVE  LifetimeInv' /\ LockInv' /\ ExclusiveEndpoint'
<1> USE NameAssumption DEF IInv, TypeOK, LifetimeInv, LockInv, ExclusiveEndpoint, InnerReferenced,
        InterfaceReferenced, device, claim, state, calls, transfers, Owners
<1>1. CASE LockForAlt(t)
  BY <1>1 DEF LockForAlt, InUse
<1>2. CASE \E a \in AltSettings : SetInterface(t, a)
  BY <1>2 DEF SetInterface
<1>3. CASE \E e \in Addresses : FindDescriptor(t, e)
  BY <1>3 DEF FindDescriptor
<1>4. CASE \E o \in Opened : Open(t, o)
  <2> SUFFICES ASSUME NEW o \in Opened, Open(t, o)
               PROVE  LifetimeInv' /\ LockInv' /\ ExclusiveEndpoint'
    BY <1>4
  <2>1. /\ inner' = [inner EXCEPT ![o] = found[t]] /\ found[t] # None
        /\ found[t] \in Descriptors /\ found[t].address \notin endpoints
        /\ endpoints' = endpoints \union {found[t].address}
        /\ handle' = [handle EXCEPT ![o] = TRUE] /\ urb' = urb
    BY DEF Open
  <2>2. \A u \in Threads : pc[u] # "set"
    BY DEF Open
  <2>3. LifetimeInv'
    BY <2>1 DEF Open
  <2>4. LockInv'
    BY <2>1, <2>2 DEF Open
  <2>5. ExclusiveEndpoint'
    BY <2>1
  <2> QED BY <2>3, <2>4, <2>5
<1>5. CASE Busy(t)
  BY <1>5 DEF Busy
<1> QED BY <1>1, <1>2, <1>3, <1>4, <1>5 DEF Call

\* Drop for EndpointInner frees the address, which no other endpoint has.
LEMMA DropInnerKeepsIInv ==
  ASSUME IInv, NEW o \in Opened, DropInner(o)
  PROVE  LifetimeInv' /\ LockInv' /\ ExclusiveEndpoint'
<1> USE NameAssumption DEF IInv, TypeOK, DropInner, Cleared, device, claim, state, calls, transfers, Owners
<1>1. LifetimeInv'
  BY DEF LifetimeInv, InnerReferenced, InterfaceReferenced
<1>2. LockInv'
  BY DEF LockInv, ExclusiveEndpoint
<1>3. ExclusiveEndpoint'
  BY DEF ExclusiveEndpoint
<1> QED BY <1>1, <1>2, <1>3

\* All other steps.
LEMMA OtherStepsKeepIInv ==
  ASSUME IInv,
         \/ Claim \/ DropDevice \/ DropUserInterface \/ SubmitControl
         \/ \E o \in Owners : Submit(o) \/ DropHandle(o)
         \/ DropInterface \/ DropLinuxDevice \/ EventStep \/ Finishing
  PROVE  LifetimeInv' /\ LockInv' /\ ExclusiveEndpoint'
<1> USE NameAssumption DEF IInv, TypeOK, LifetimeInv, LockInv, ExclusiveEndpoint, InnerReferenced,
        InterfaceReferenced, device, claim, state, calls, transfers, Owners
<1>1. CASE Claim
  BY <1>1 DEF Claim
<1>2. CASE DropDevice \/ DropUserInterface \/ SubmitControl
  BY <1>2 DEF DropDevice, DropUserInterface, SubmitControl
<1>3. CASE \E o \in Owners : Submit(o) \/ DropHandle(o)
  BY <1>3 DEF Submit, DropHandle
<1>4. CASE DropInterface
  BY <1>4 DEF DropInterface
<1>5. CASE DropLinuxDevice
  BY <1>5 DEF DropLinuxDevice, DeviceReferenced
<1>6. CASE EventStep \/ Finishing
  BY <1>6 DEF EventStep, Finishing, HandleUsbEpoll, Handled, Reap, Finish
<1> QED BY <1>1, <1>2, <1>3, <1>4, <1>5, <1>6

\* The strengthened invariant holds in every reachable state.
THEOREM InductiveInvariant == Spec => []IInv
<1>1. IInv /\ [Next]_vars => IInv'
  <2> SUFFICES ASSUME IInv, [Next]_vars PROVE IInv'
    OBVIOUS
  <2>1. TypeOK'
    BY TypeStep DEF IInv
  <2>2. LifetimeInv' /\ LockInv' /\ ExclusiveEndpoint'
    <3>1. CASE \E t \in Threads : Call(t)
      BY <3>1, CallKeepsIInv
    <3>2. CASE \E o \in Opened : DropInner(o)
      BY <3>2, DropInnerKeepsIInv
    <3>3. CASE UNCHANGED vars
      BY <3>3 DEF vars, device, claim, state, calls, transfers, IInv, LifetimeInv, LockInv,
                  ExclusiveEndpoint, InnerReferenced, InterfaceReferenced
    <3>4. CASE Next /\ ~(\E t \in Threads : Call(t)) /\ ~(\E o \in Opened : DropInner(o))
      BY <3>4, OtherStepsKeepIInv DEF Next, Dropping
    <3> QED BY <3>1, <3>2, <3>3, <3>4
  <2> QED BY <2>1, <2>2 DEF IInv
<1> QED BY <1>1, InitIInv, PTL DEF Spec

\* The types of LinuxInterface's state.
THEOREM TypeCorrect == Spec => []TypeOK
<1>1. IInv => TypeOK
  BY DEF IInv
<1> QED BY <1>1, InductiveInvariant, PTL

\* Exclusive access: an endpoint address is open once at most, and not again before
\* the transfers of its last Endpoint are over.
THEOREM EndpointsAreExclusive == Spec => []ExclusiveEndpoint
<1>1. IInv => ExclusiveEndpoint
  BY DEF IInv
<1> QED BY <1>1, InductiveInvariant, PTL

\* In whatever order Device, Interface and Endpoint are dropped, a transfer that
\* usbfs has keeps its interface claimed, its file open and its address in use.
THEOREM NoTransferOutlives == Spec => []TransfersHaveTheirInterface
<1>1. IInv => TransfersHaveTheirInterface
  BY DEF IInv, LifetimeInv, LockInv, InnerReferenced, InterfaceReferenced, TransfersHaveTheirInterface
<1> QED BY <1>1, InductiveInvariant, PTL

\* set_alt_setting changes the setting only when no endpoint and no transfer is left.
THEOREM AltSettingChangesQuietly == Spec => AltSettingIsQuiescent
<1> DEFINE Quiet == alt_setting' # alt_setting => \A o \in Opened : inner[o] = None /\ urb[o] = "none"
<1>1. IInv /\ Next => Quiet
  <2> SUFFICES ASSUME IInv, Next, alt_setting' # alt_setting
               PROVE  \A o \in Opened : inner[o] = None /\ urb[o] = "none"
    OBVIOUS
  <2> USE DEF device, claim, state, calls, transfers
  <2>1. Claim \/ \E t \in Threads, a \in AltSettings : SetInterface(t, a)
    BY DEF Next, Call, DropDevice, DropUserInterface, LockForAlt, FindDescriptor, Open, Busy,
           SubmitControl, Submit, DropHandle, Dropping, DropInterface, DropLinuxDevice, DropInner,
           EventStep, HandleUsbEpoll, Reap, Handled, Finishing, Finish
  <2>2. \A o \in Opened : inner[o] = None
    BY <2>1 DEF Claim, SetInterface, IInv, LifetimeInv, LockInv, InterfaceReferenced
  <2> QED BY <2>2 DEF IInv, TypeOK, Owners, LifetimeInv, InnerReferenced
<1>2. IInv /\ [Next]_vars => [Quiet]_vars
  BY <1>1
<1> QED BY <1>2, InductiveInvariant, PTL DEF Spec, AltSettingIsQuiescent
=============================================================================
