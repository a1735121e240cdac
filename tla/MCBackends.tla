----------------------------- MODULE MCBackends -----------------------------
(***************************************************************************)
(* Instances of BackendDevice, KernelDrivers, BackendEndpoint,             *)
(* LinuxEndpoint and Enumeration for TLC.  A program uses the devices and  *)
(* interfaces of a platform, or one endpoint of it, or lists devices and   *)
(* opens them.                                                             *)
(***************************************************************************)
EXTENDS BackendDevice, KernelDrivers, TLC

CONSTANTS
  Buffers, Orphan, EndpointPlatforms, MaxFlying,
  Transfers, LinuxBuffers, EventThread, User, NoTransfer, NoBuffer, Modes, Outcomes,
  UsbDevices, Ports, Systems, MaxPlugs

ASSUME PlugsAssumption == MaxPlugs \in Nat
ASSUME OrphanAssumption == Orphan \notin Buffers
ASSUME LinuxAssumption ==
  User # EventThread /\ NoTransfer \notin Transfers /\ Modes \subseteq {"poll", "timed"} /\ Outcomes \subseteq {"ok", "error"}

VARIABLES
  program, \* "device", "drivers", "endpoint", "linux" or "enumeration"
  backend, phase, marked, pending, flying, ended, done, outcome, walk, asked, after,
  live, state, handle, notify, upc, ut, mode, expired, woken, hpc, job, wake,
  linuxPhase, cursor, queue, idle_transfer, displaced, buffer, status, urbs, finished,
  connected, registered, endpoints, linuxAsked, linuxAfter,
  lister, at, who, step, info, dev

E == INSTANCE BackendEndpoint
X == INSTANCE LinuxEndpoint WITH
  Buffers <- LinuxBuffers, phase <- linuxPhase, pending <- queue, active <- urbs, done <- finished,
  asked <- linuxAsked, after <- linuxAfter
L == INSTANCE Enumeration WITH system <- lister

endpoint == <<backend, phase, marked, pending, flying, ended, done, outcome, walk, asked, after>>
linuxEndpoint ==
  <<live, state, handle, notify, upc, ut, mode, expired, woken, hpc, job, wake,
    linuxPhase, cursor, queue, idle_transfer, displaced, buffer, status, urbs, finished,
    connected, registered, endpoints, linuxAsked, linuxAfter>>
enumeration == <<lister, at, who, step, info, dev>>

FunctionOfTwo == (0 :> 0) @@ (1 :> 0) @@ (2 :> 2)

\* One initial state of what the program does not use, and one configuration to start
\* with: their values are interchangeable.
MCInit ==
  /\ Init /\ DriversInit /\ E!Init /\ X!Init /\ L!EnumerationInit
  /\ program \in {"device", "drivers", "endpoint", "linux", "enumeration"}
  /\ config = 1
  /\ program # "device" => platform = "webusb"
  /\ program # "endpoint" => backend = "windows"
  /\ program # "enumeration" => lister = "linux"

MCNext ==
  \/ program = "device" /\ Next /\ UNCHANGED <<program, kernelDrivers, endpoint, linuxEndpoint, enumeration>>
  \/ program = "drivers" /\ DriversNext /\ UNCHANGED <<program, vars, endpoint, linuxEndpoint, enumeration>>
  \/ program = "endpoint" /\ E!Next /\ UNCHANGED <<program, vars, kernelDrivers, linuxEndpoint, enumeration>>
  \/ program = "linux" /\ X!Next /\ UNCHANGED <<program, vars, kernelDrivers, endpoint, enumeration>>
  \/ program = "enumeration" /\ L!EnumerationNext /\ UNCHANGED <<program, vars, kernelDrivers, endpoint, linuxEndpoint>>

MCSpec == MCInit /\ [][MCNext]_<<vars, kernelDrivers, endpoint, linuxEndpoint, enumeration, program>>

\* BackendDevice does not tell tasks apart, nor LinuxEndpoint transfers and buffers.
Symmetry == Permutations(Tasks) \union Permutations(Transfers) \union Permutations(LinuxBuffers)

\* See BackendDevice, KernelDrivers, BackendEndpoint, LinuxEndpoint and Enumeration.
BackendsTypeOK ==
  CASE program = "device" -> TypeOK
    [] program = "drivers" -> DriversTypeOK
    [] program = "endpoint" -> E!EndpointTypeOK
    [] program = "linux" -> X!TypeOK
    [] program = "enumeration" -> L!EnumerationTypeOK
FreeMeansQuiescent ==
  CASE program = "endpoint" -> E!FreeMeansQuiescent
    [] program = "linux" -> X!FreeMeansQuiescent
    [] OTHER -> TRUE
ImplementsQueue == E!ImplementsQueue /\ X!ImplementsQueue
Identified == L!Identified
=============================================================================
