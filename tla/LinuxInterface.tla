--------------------------- MODULE LinuxInterface ---------------------------
(***************************************************************************)
(* Who keeps what alive on Linux: LinuxDevice, LinuxInterface and          *)
(* EndpointInner, their reference counts and what happens when they drop   *)
(* (src/src/platform/linux_usbfs/device.rs), and opening endpoints and     *)
(* changing the alternate setting from several threads (Interface in       *)
(* src/src/device.rs).                                                     *)
(*                                                                         *)
(* A device with one interface.  An endpoint has at most one transfer with *)
(* the kernel here (LinuxEndpoint has its queue), and the hand-over of     *)
(* TransferHandshake is one step.  X_Y is a mutant of X.                   *)
(***************************************************************************)
EXTENDS Naturals

CONSTANTS
  Threads,     \* threads that share the Interface
  Opened,      \* endpoints that are opened, one after the other or together
  Control,     \* a control transfer
  AltSettings, \* the alternate settings
  Addresses,   \* endpoint addresses
  EndpointsOf, \* the addresses each alternate setting has
  None

ASSUME AltAssumption ==
  /\ 0 \in AltSettings
  /\ EndpointsOf \in [AltSettings -> SUBSET Addresses]
ASSUME NameAssumption ==
  /\ Control \notin Opened
  /\ None \notin Threads /\ None \notin [address : Addresses, alt : AltSettings]

VARIABLES
  userDevice,    \* the program holds a Device
  fd,            \* the device's file descriptor is open
  upgraded,      \* the event thread holds the device it is handling
  userInterface, \* the program holds an Interface
  interface,     \* the LinuxInterface exists
  claimed,       \* usbfs: the interface is claimed
  lock,          \* who holds LinuxInterface.state
  endpoints,     \* InterfaceState.endpoints
  alt_setting,   \* InterfaceState.alt_setting
  pc, found,     \* what each thread does, and the descriptor it has found
  inner,         \* the descriptor of each EndpointInner that exists, or None
  handle,        \* the Endpoint, or the control transfer's future, exists
  urb            \* usbfs: the transfer of each, "none", "active" or "done"

device == <<userDevice, fd, upgraded>>
claim == <<userInterface, interface, claimed>>
state == <<lock, endpoints, alt_setting>>
calls == <<pc, found>>
transfers == <<inner, handle, urb>>
vars == <<device, claim, state, calls, transfers>>

Descriptors == [address : Addresses, alt : AltSettings]
Owners == Opened \union {Control}

TypeOK ==
  /\ {userDevice, fd, upgraded, userInterface, interface, claimed} \subseteq BOOLEAN
  /\ lock \in Threads \union {None}
  /\ endpoints \subseteq Addresses
  /\ alt_setting \in AltSettings
  /\ pc \in [Threads -> {"idle", "open", "set"}]
  /\ found \in [Threads -> Descriptors \union {None}]
  /\ \A t \in Threads : pc[t] = "open" => found[t] # None
  /\ inner \in [Opened -> Descriptors \union {None}]
  /\ handle \in [Owners -> BOOLEAN]
  /\ urb \in [Owners -> {"none", "active", "done"}]

\* The device has just been opened.
Init ==
  /\ userDevice = TRUE /\ fd = TRUE /\ upgraded = FALSE
  /\ userInterface = FALSE /\ interface = FALSE /\ claimed = FALSE
  /\ lock = None /\ endpoints = {} /\ alt_setting = 0
  /\ pc = [t \in Threads |-> "idle"] /\ found = [t \in Threads |-> None]
  /\ inner = [o \in Opened |-> None]
  /\ handle = [o \in Owners |-> FALSE]
  /\ urb = [o \in Owners |-> "none"]

-----------------------------------------------------------------------------
(* References                                                              *)

\* An EndpointInner is held by its endpoint and by the transfer that is out.
InnerReferenced_Cyclic(o) == interface
InnerReferenced(o) == handle[o] \/ urb[o] # "none"

\* A LinuxInterface is held by the program and by every EndpointInner.
InterfaceReferenced_ByProgram == userInterface
InterfaceReferenced == userInterface \/ \E o \in Opened : inner[o] # None

\* A LinuxDevice is held by the program, its interface, the future of a control
\* transfer, and the event thread while it handles an event.
DeviceReferenced_NotByInterface == userDevice \/ handle[Control] \/ upgraded
DeviceReferenced == userDevice \/ interface \/ handle[Control] \/ upgraded

-----------------------------------------------------------------------------
(* Device and interface                                                    *)

\* claim_interface.
Claim ==
  /\ userDevice /\ ~claimed
  /\ claimed' = TRUE /\ interface' = TRUE /\ userInterface' = TRUE
  /\ endpoints' = {} /\ alt_setting' = 0
  /\ UNCHANGED <<device, lock, calls, transfers>>

\* The program drops its last Device or Interface; no call on it is under way.
DropDevice ==
  /\ userDevice
  /\ userDevice' = FALSE
  /\ UNCHANGED <<fd, upgraded, claim, state, calls, transfers>>

DropUserInterface ==
  /\ userInterface /\ \A t \in Threads : pc[t] = "idle"
  /\ userInterface' = FALSE
  /\ UNCHANGED <<device, interface, claimed, state, calls, transfers>>

\* Drop for LinuxInterface, on the thread that drops the last reference.
DropInterface ==
  /\ interface /\ ~InterfaceReferenced
  /\ interface' = FALSE /\ claimed' = FALSE
  /\ UNCHANGED <<device, userInterface, state, calls, transfers>>

\* Drop for LinuxDevice: the fd is no longer watched, and is closed.  The kernel
\* stops what it still has, and nobody will reap it.
DropLinuxDevice ==
  /\ fd /\ ~DeviceReferenced
  /\ fd' = FALSE
  /\ claimed' = FALSE
  /\ urb' = [o \in Owners |-> IF urb[o] = "active" THEN "done" ELSE urb[o]]
  /\ UNCHANGED <<userDevice, upgraded, userInterface, interface, state, calls, inner, handle>>

-----------------------------------------------------------------------------
(* set_alt_setting                                                         *)

InUse_Never == FALSE
InUse == endpoints # {}

\* The lock is taken, and kept if no endpoint is in use.
LockForAlt(t) ==
  /\ userInterface /\ pc[t] = "idle" /\ lock = None /\ ~InUse
  /\ lock' = t
  /\ pc' = [pc EXCEPT ![t] = "set"]
  /\ UNCHANGED <<device, claim, endpoints, alt_setting, found, transfers>>

\* USBDEVFS_SETINTERFACE succeeds, or fails and changes nothing.
SetInterface(t, a) ==
  /\ pc[t] = "set"
  /\ alt_setting' \in {alt_setting, a}
  /\ lock' = None
  /\ pc' = [pc EXCEPT ![t] = "idle"]
  /\ UNCHANGED <<device, claim, endpoints, found, transfers>>

-----------------------------------------------------------------------------
(* Endpoints                                                               *)

Exists_Unchecked(e) == TRUE
Exists(e) == e \in EndpointsOf[alt_setting]

Descriptor(e) == IF e \in EndpointsOf[alt_setting] THEN [address |-> e, alt |-> alt_setting] ELSE None

\* Interface::endpoint looks the address up in the current alternate setting ...
FindDescriptor(t, e) ==
  /\ userInterface /\ pc[t] = "idle" /\ lock = None
  /\ Exists(e)
  /\ found' = [found EXCEPT ![t] = Descriptor(e)]
  /\ pc' = [pc EXCEPT ![t] = "open"]
  /\ UNCHANGED <<device, claim, state, transfers>>

\* ... and LinuxInterface::endpoint opens it unless it is in use.
Open(t, o) ==
  /\ pc[t] = "open" /\ lock = None
  /\ found[t].address \notin endpoints
  /\ inner[o] = None
  /\ endpoints' = endpoints \union {found[t].address}
  /\ inner' = [inner EXCEPT ![o] = found[t]]
  /\ handle' = [handle EXCEPT ![o] = TRUE]
  /\ pc' = [pc EXCEPT ![t] = "idle"] /\ found' = [found EXCEPT ![t] = None]
  /\ UNCHANGED <<device, claim, lock, alt_setting, urb>>

Busy(t) ==
  /\ pc[t] = "open" /\ lock = None
  /\ found[t].address \in endpoints
  /\ pc' = [pc EXCEPT ![t] = "idle"] /\ found' = [found EXCEPT ![t] = None]
  /\ UNCHANGED <<device, claim, state, transfers>>

Submit(o) ==
  /\ o \in Opened /\ handle[o] /\ urb[o] = "none"
  /\ urb' = [urb EXCEPT ![o] = "active"]
  /\ UNCHANGED <<device, claim, state, calls, inner, handle>>

\* control_in or control_out: the future keeps the device.
SubmitControl ==
  /\ userDevice /\ ~handle[Control] /\ urb[Control] = "none"
  /\ handle' = [handle EXCEPT ![Control] = TRUE]
  /\ urb' = [urb EXCEPT ![Control] = "active"]
  /\ UNCHANGED <<device, claim, state, calls, inner>>

\* An endpoint is dropped, which discards its transfer, or a control transfer's
\* future is dropped or ends; a transfer that is still out is abandoned.
DropHandle(o) ==
  /\ handle[o]
  /\ handle' = [handle EXCEPT ![o] = FALSE]
  /\ urb' = [urb EXCEPT ![o] = IF @ = "active" /\ o \in Opened THEN "done" ELSE @]
  /\ UNCHANGED <<device, claim, state, calls, inner>>

\* EndpointBitSet without one of its addresses.
Cleared_All(e) == {}
Cleared(e) == endpoints \ {e}

\* Drop for EndpointInner.
DropInner(o) ==
  /\ inner[o] # None /\ ~InnerReferenced(o) /\ lock = None
  /\ endpoints' = Cleared(inner[o].address)
  /\ inner' = [inner EXCEPT ![o] = None]
  /\ UNCHANGED <<device, claim, lock, alt_setting, calls, handle, urb>>

-----------------------------------------------------------------------------
(* The kernel and the event thread                                         *)

\* The kernel ends a transfer: the device has answered or the timeout has struck.
Finish(o) ==
  /\ urb[o] = "active"
  /\ urb' = [urb EXCEPT ![o] = "done"]
  /\ UNCHANGED <<device, claim, state, calls, inner, handle>>

\* handle_usb_epoll finds the device in DEVICES if someone still holds it ...
HandleUsbEpoll ==
  /\ fd /\ DeviceReferenced /\ ~upgraded
  /\ \E o \in Owners : urb[o] = "done"
  /\ upgraded' = TRUE
  /\ UNCHANGED <<userDevice, fd, claim, state, calls, transfers>>

\* ... reaps one transfer, which goes back to its handle or is freed ...
Reap(o) ==
  /\ upgraded /\ urb[o] = "done"
  /\ urb' = [urb EXCEPT ![o] = "none"]
  /\ UNCHANGED <<device, claim, state, calls, inner, handle>>

\* ... and lets go of the device.
Handled ==
  /\ upgraded
  /\ upgraded' = FALSE
  /\ UNCHANGED <<userDevice, fd, claim, state, calls, transfers>>

-----------------------------------------------------------------------------
Dropping == DropInterface \/ DropLinuxDevice \/ \E o \in Opened : DropInner(o)
EventStep == HandleUsbEpoll \/ Handled \/ \E o \in Owners : Reap(o)
Finishing == \E o \in Owners : Finish(o)

Call(t) ==
  \/ LockForAlt(t)
  \/ \E a \in AltSettings : SetInterface(t, a)
  \/ \E e \in Addresses : FindDescriptor(t, e)
  \/ \E o \in Opened : Open(t, o)
  \/ Busy(t)

Next ==
  \/ Claim \/ DropDevice \/ DropUserInterface
  \/ \E t \in Threads : Call(t)
  \/ SubmitControl
  \/ \E o \in Owners : Submit(o) \/ DropHandle(o)
  \/ Dropping \/ EventStep \/ Finishing

Spec == Init /\ [][Next]_vars

\* Destructors run to their end, and the event thread reaps, each transfer in turn.
\* A control transfer has a timeout, so the kernel ends it some time.
FairSpec ==
  /\ Spec
  /\ WF_vars(Dropping)
  /\ WF_vars(HandleUsbEpoll) /\ WF_vars(Handled)
  /\ \A o \in Owners : SF_vars(Reap(o))
  /\ WF_vars(Finish(Control))
  /\ \A t \in Threads : WF_vars(pc[t] # "idle" /\ Call(t))

-----------------------------------------------------------------------------
(* Properties                                                              *)

\* Exclusive access: an address is open once at most, and not again before the
\* transfers of its last Endpoint are over.
ExclusiveEndpoint ==
  \A o, p \in Opened :
    o # p /\ inner[o] # None /\ inner[p] # None => inner[o].address # inner[p].address

\* While usbfs has a transfer of an endpoint, the interface stays claimed, the
\* file open, and the endpoint in use.
TransfersHaveTheirInterface ==
  \A o \in Opened :
    urb[o] # "none" => claimed /\ fd /\ inner[o] # None /\ inner[o].address \in endpoints

\* The alternate setting never changes under an endpoint's transfers.
AltSettingIsQuiescent ==
  [][alt_setting' # alt_setting => \A o \in Opened : inner[o] = None /\ urb[o] = "none"]_vars

-----------------------------------------------------------------------------
(* The inductive invariant                                                 *)

\* Who outlives whom: a transfer its endpoint, an endpoint its interface, an
\* interface its device.
LifetimeInv ==
  /\ \A o \in Opened : InnerReferenced(o) => inner[o] # None
  /\ InterfaceReferenced => interface
  /\ interface => claimed /\ fd
  /\ userDevice => fd

\* The state under the lock: which endpoints are in use, and who holds the lock.
LockInv ==
  /\ \A o \in Opened : inner[o] # None => inner[o].address \in endpoints
  /\ \A e \in endpoints : \E o \in Opened : inner[o] # None /\ inner[o].address = e
  /\ \A t \in Threads : pc[t] # "idle" => userInterface
  /\ \A t \in Threads : pc[t] = "set" => lock = t /\ endpoints = {}

IInv == TypeOK /\ LifetimeInv /\ LockInv /\ ExclusiveEndpoint

-----------------------------------------------------------------------------
(* Liveness, and what threads break                                        *)

\* When the program lets go of everything, the interface is released and the device
\* closed: the event thread sees the abandoned transfers off first.
EverythingIsReleased ==
  (~userDevice /\ ~userInterface /\ \A o \in Owners : ~handle[o]) ~> (~claimed /\ ~fd)

\* An open endpoint belongs to the current alternate setting.
OpenEndpointsExist == \A o \in Opened : handle[o] => inner[o].alt = alt_setting

\* "The completion handler will drop the buffer and transfer": abandoned transfers of
\* endpoints are freed.  (A control transfer's is not, when the last handle of the
\* device goes first: nothing of it keeps the device.)
AbandonedEndpointTransfersAreFreed ==
  \A o \in Opened : (urb[o] # "none" /\ ~handle[o]) ~> urb[o] = "none"
=============================================================================
