---------------------------- MODULE BackendDevice ----------------------------
(***************************************************************************)
(* Devices and interfaces on Windows (WinUSB), macOS (IOKit) and WebUSB:   *)
(* platform/*/device.rs, with the event loop of macOS.  A build has one    *)
(* platform, chosen in the initial state; Linux is LinuxInterface.         *)
(* An interface has one endpoint that matters, in use from endpoint() to   *)
(* the Drop of its EndpointInner.  X_Y is a mutant of X.                   *)
(***************************************************************************)
EXTENDS Naturals, FiniteSets, Functions, FiniteSetsExt

CONSTANTS
  Interfaces, \* interface numbers
  Few,        \* bound: those that are claimed on macOS and WebUSB
  Function,   \* Windows: the first interface of the function of each interface
  Alts,       \* alternate settings
  PipeAlts,   \* those that have the endpoint
  Configs,    \* configuration values
  Tasks,      \* threads (or, on WebUSB, tasks) that call the device
  MaxObjects, \* bound: interface objects at a time, those being dropped included
  Platforms   \* subset of {"windows", "macos", "webusb"}

\* The interfaces of a device are numbered from 0.
ASSUME InterfacesAssumption == Interfaces \subseteq Nat /\ 0 \in Interfaces /\ Few \subseteq Interfaces
ASSUME AltsAssumption == 0 \in Alts /\ PipeAlts \subseteq Alts
ASSUME FunctionAssumption == \A i \in Interfaces : Function[i] \in Interfaces /\ Function[i] <= i
ASSUME PlatformsAssumption == Platforms \subseteq {"windows", "macos", "webusb"}
ASSUME BoundsAssumption == MaxObjects \in Nat /\ IsFiniteSet(Tasks)

VARIABLES
  platform,
  driver,     \* Windows: the driver of the whole device
  children,   \* Windows: the first interfaces of the functions usbccgp has created
  device,     \* "closed", "open", or "let go" by the program; macOS: "opening"
  handles,    \* Windows: WindowsDevice.handles, the claimed_interfaces of each entry
  opened,     \* the interfaces the OS has open: associated WinUSB handles, IOKit
              \* interfaces, interfaces claimed in JavaScript
  count,      \* macOS: claimed_interfaces
  exclusive,  \* macOS: is_open_exclusive
  config,     \* macOS: the configuration of the device
  active,     \* macOS: active_config
  sources,    \* macOS: EventLoop.count
  loop,       \* macOS: the run loop thread runs
  obj,        \* the interface objects (Arc<XInterface>)
  pc,         \* what each task is in the middle of
  overlapped  \* history: a WebUSB call took effect after what it checked had changed

system == <<platform, driver>>
os == <<handles, opened>>
mac == <<count, exclusive, config, active>>
events == <<sources, loop>>
vars == <<system, children, device, os, mac, events, obj, pc, overlapped>>

Objects == 1..MaxObjects
NoObject == [phase |-> "none", num |-> 0, first |-> 0, held |-> FALSE, ep |-> "none", alt |-> 0]
Phases == {"none", "live", "closing"}
Idle == [op |-> "idle"]
Live == {o \in Objects : obj[o].phase = "live"}
Existing == {o \in Objects : obj[o].phase # "none"}

Interface ==
  [phase : Phases, num : Interfaces, first : Interfaces, held : BOOLEAN,
   ep : {"none", "open", "ending"}, alt : Alts]
TypeOK ==
  /\ platform \in Platforms /\ driver \in {"winusb", "usbccgp", "other"}
  /\ children \subseteq Interfaces /\ opened \subseteq Interfaces
  /\ device \in {"closed", "opening", "open", "let go"}
  /\ DOMAIN handles \subseteq Interfaces
  /\ \A k \in DOMAIN handles : handles[k] \subseteq Interfaces
  /\ count \in 0..MaxObjects /\ sources \in Nat
  /\ exclusive \in BOOLEAN /\ loop \in BOOLEAN /\ overlapped \in BOOLEAN
  /\ config \in Configs /\ active \in Configs \union {0}
  /\ obj \in [Objects -> Interface]
  /\ \A t \in Tasks : pc[t].op \in {"idle", "registered", "opened", "config", "store", "reset", "claim", "alt"}

Init ==
  /\ platform \in Platforms
  /\ driver \in (IF platform = "windows" THEN {"winusb", "usbccgp", "other"} ELSE {"other"})
  /\ children = {} /\ device = "closed"
  /\ handles = << >> /\ opened = {}
  /\ count = 0 /\ exclusive = FALSE /\ sources = 0 /\ loop = FALSE
  /\ config \in Configs /\ active = config
  /\ obj = [o \in Objects |-> NoObject]
  /\ pc = [t \in Tasks |-> Idle]
  /\ overlapped = FALSE

-----------------------------------------------------------------------------
(* References                                                              *)

\* The interface object is kept by the program's handle, by EndpointInner, and
\* by a set_alt_setting that awaits.
Referenced(o) ==
  \/ obj[o].held \/ obj[o].ep # "none"
  \/ \E t \in Tasks : pc[t].op = "alt" /\ pc[t].obj = o

\* The device is kept by the program, its interfaces, and the calls.
DeviceReferenced ==
  device = "open" \/ Existing # {} \/ \E t \in Tasks : pc[t].op # "idle"

\* Arc::new of an interface, which the program gets.
Free == Objects \ Existing
NewObject(i, first) ==
  obj' = [obj EXCEPT ![Min(Free)] =
            [phase |-> "live", num |-> i, first |-> first, held |-> TRUE, ep |-> "none", alt |-> 0]]

-----------------------------------------------------------------------------
(* macOS: EVENT_LOOP                                                       *)

AddEventSource_Restarts == loop' = TRUE /\ sources' = 1
AddEventSource ==
  /\ loop' = TRUE
  /\ sources' = IF loop THEN sources + 1 ELSE 1

DropRegistration ==
  /\ sources' = sources - 1
  /\ loop' = (sources # 1)

-----------------------------------------------------------------------------
(* Devices                                                                 *)

OpenWindows ==
  /\ platform = "windows" /\ device = "closed"
  /\ device' = "open" /\ handles' = << >>
  /\ UNCHANGED <<system, children, opened, mac, events, obj, pc, overlapped>>

\* guess_active_config knows the configuration if there is only one; otherwise it
\* is asked for, which may fail.
ActiveConfig == {config} \union (IF Cardinality(Configs) = 1 THEN {} ELSE {0})

\* from_device_info registers the event source first, ...
RegisterDevice ==
  /\ platform = "macos" /\ device = "closed"
  /\ device' = "opening"
  /\ AddEventSource
  /\ UNCHANGED <<system, children, os, mac, obj, pc, overlapped>>

\* ... then opens the device for exclusive access, or that fails and it is not, and
\* reads its descriptors.
OpenMac ==
  /\ device = "opening"
  /\ device' = "open"
  /\ exclusive' \in BOOLEAN
  /\ count' = 0 /\ active' \in ActiveConfig
  /\ UNCHANGED <<system, children, os, config, events, obj, pc, overlapped>>

\* The properties for the device descriptor or the number of configurations cannot be
\* read: the registration is dropped, and the device with what it opened.
OpenMacFails ==
  /\ device = "opening"
  /\ device' = "closed"
  /\ DropRegistration
  /\ UNCHANGED <<system, children, os, mac, obj, pc, overlapped>>

OpenWebusb ==
  /\ platform = "webusb" /\ device = "closed"
  /\ device' = "open"
  /\ UNCHANGED <<system, children, os, mac, events, obj, pc, overlapped>>

LetGoOfDevice ==
  /\ device = "open"
  /\ device' = "let go"
  /\ UNCHANGED <<system, children, os, mac, events, obj, pc, overlapped>>

\* Drop for MacDevice and its registration; the others have nothing to do.
DropDevice ==
  /\ device = "let go" /\ ~DeviceReferenced
  /\ device' = "closed"
  /\ IF platform = "macos"
     THEN exclusive' = FALSE /\ DropRegistration
     ELSE UNCHANGED <<exclusive, events>>
  /\ UNCHANGED <<system, children, os, count, config, active, obj, pc, overlapped>>

-----------------------------------------------------------------------------
(* Windows: claiming under the lock of handles                             *)

\* usbccgp creates the device node of one more function.
ChildAppears(i) ==
  /\ platform = "windows" /\ driver = "usbccgp"
  /\ Function[i] = i /\ i \notin children
  /\ children' = children \union {i}
  /\ UNCHANGED <<system, device, os, mac, events, obj, pc, overlapped>>

\* find_usbccgp_child; winusb has one file, for the whole device.
Candidates(i) == {c \in children : c <= i}
FirstInterface(i) == IF driver = "winusb" THEN 0 ELSE Max(Candidates(i))

HasDriver(i) == driver = "winusb" \/ (driver = "usbccgp" /\ Candidates(i) # {})

\* WinUsb_GetAssociatedInterface knows the interfaces of the file's function.
Associated(i, first) == driver = "winusb" \/ Function[i] = first

\* WinusbFileHandle::claim_interface.  The entry is inserted, if it is new, only
\* after the claim went through.
AlreadyClaimed_Never(i, first) == FALSE
AlreadyClaimed(i, first) == first \in DOMAIN handles /\ i \in handles[first]
\* WinusbFileHandle::new has no claims.
Entry(first) == IF first \in DOMAIN handles THEN handles[first] ELSE {}
WithClaim(i, first) ==
  [k \in DOMAIN handles \union {first} |-> IF k = first THEN Entry(k) \union {i} ELSE handles[k]]

ClaimWindows(i) ==
  /\ platform = "windows" /\ device = "open" /\ HasDriver(i) /\ Free # {}
  /\ LET first == FirstInterface(i) IN
     /\ ~AlreadyClaimed(i, first)
     /\ Associated(i, first)
     /\ handles' = WithClaim(i, first)
     /\ opened' = IF i = first THEN opened ELSE opened \union {i}
     /\ NewObject(i, first)
  /\ UNCHANGED <<system, children, device, mac, events, pc, overlapped>>

\* Drop for WindowsInterface frees the handle of an associated interface, ...
FreeAssociated(o) ==
  /\ platform = "windows" /\ o \in Live /\ ~Referenced(o)
  /\ opened' = opened \ {obj[o].num}
  /\ obj' = [obj EXCEPT ![o].phase = "closing"]
  /\ UNCHANGED <<system, children, device, handles, mac, events, pc, overlapped>>

\* ... and then, locked, the claim, and with the last one the file.
ClearClaim(o) == handles[obj[o].first] \ {obj[o].num}
IsLast_First(o) == obj[o].num = obj[o].first
IsLast_Never(o) == FALSE
IsLast(o) == ClearClaim(o) = {}
CloseFile(first) == Restrict(handles, DOMAIN handles \ {first})
ReleaseWindows(o) ==
  /\ platform = "windows" /\ obj[o].phase = "closing"
  /\ handles' = IF IsLast(o) THEN CloseFile(obj[o].first)
                ELSE [handles EXCEPT ![obj[o].first] = ClearClaim(o)]
  /\ obj' = [obj EXCEPT ![o] = NoObject]
  /\ UNCHANGED <<system, children, device, opened, mac, events, pc, overlapped>>

-----------------------------------------------------------------------------
(* macOS: claiming, and what excludes it                                   *)

RegisterMac(t, i) ==
  /\ platform = "macos" /\ device = "open" /\ pc[t] = Idle
  /\ pc' = [pc EXCEPT ![t] = [op |-> "registered", num |-> i]]
  /\ AddEventSource
  /\ UNCHANGED <<system, children, device, os, mac, obj, overlapped>>

\* USBInterfaceOpen, which gives exclusive access.
InterfaceOpen(t) ==
  /\ pc[t].op = "registered"
  /\ IF pc[t].num \notin opened
     THEN /\ opened' = opened \union {pc[t].num}
          /\ pc' = [pc EXCEPT ![t].op = "opened"]
          /\ UNCHANGED events
     ELSE pc' = [pc EXCEPT ![t] = Idle] /\ DropRegistration /\ UNCHANGED opened
  /\ UNCHANGED <<system, children, device, handles, mac, obj, overlapped>>

CountClaim(t) ==
  /\ pc[t].op = "opened" /\ Free # {}
  /\ count' = count + 1
  /\ NewObject(pc[t].num, 0)
  /\ pc' = [pc EXCEPT ![t] = Idle]
  /\ UNCHANGED <<system, children, device, os, exclusive, config, active, events, overlapped>>

\* Drop for MacInterface: USBInterfaceClose, ...
CloseMac(o) ==
  /\ platform = "macos" /\ o \in Live /\ ~Referenced(o)
  /\ opened' = opened \ {obj[o].num}
  /\ obj' = [obj EXCEPT ![o].phase = "closing"]
  /\ UNCHANGED <<system, children, device, handles, mac, events, pc, overlapped>>

\* ... the counter, and the event registration.
ReleaseMac(o) ==
  /\ platform = "macos" /\ obj[o].phase = "closing"
  /\ count' = count - 1
  /\ DropRegistration
  /\ obj' = [obj EXCEPT ![o] = NoObject]
  /\ UNCHANGED <<system, children, device, os, exclusive, config, active, pc, overlapped>>

\* require_open_exclusive: the device stays open when interfaces are claimed.
RequireOpenExclusive(t, next) ==
  /\ platform = "macos" /\ device = "open" /\ pc[t] = Idle
  /\ exclusive' = TRUE
  /\ pc' = IF count = 0 THEN [pc EXCEPT ![t] = next] ELSE pc
  /\ UNCHANGED <<system, children, device, os, count, config, active, events, obj, overlapped>>

SetConfiguration(t) ==
  /\ pc[t].op = "config"
  /\ \/ config' = pc[t].config /\ pc' = [pc EXCEPT ![t].op = "store"]
     \/ pc' = [pc EXCEPT ![t] = Idle] /\ UNCHANGED config
  /\ UNCHANGED <<system, children, device, os, count, exclusive, active, events, obj, overlapped>>

StoreActiveConfig(t) ==
  /\ pc[t].op = "store"
  /\ active' = pc[t].config
  /\ pc' = [pc EXCEPT ![t] = Idle]
  /\ UNCHANGED <<system, children, device, os, count, exclusive, config, events, obj, overlapped>>

\* reset re-enumerates: the configuration is the system's choice again.
Reset(t) ==
  /\ pc[t].op = "reset"
  /\ config' \in Configs
  /\ pc' = [pc EXCEPT ![t] = Idle]
  /\ UNCHANGED <<system, children, device, os, count, exclusive, active, events, obj, overlapped>>

-----------------------------------------------------------------------------
(* WebUSB: a check, an await, and the rest                                 *)

ClaimWebusb(t, i) ==
  /\ platform = "webusb" /\ device = "open" /\ pc[t] = Idle
  /\ i \notin opened
  /\ pc' = [pc EXCEPT ![t] = [op |-> "claim", num |-> i]]
  /\ UNCHANGED <<system, children, device, os, mac, events, obj, overlapped>>

\* The promise resolves, also if the page has claimed the interface meanwhile.
ClaimedWebusb(t) ==
  /\ pc[t].op = "claim" /\ Free # {}
  /\ overlapped' = (overlapped \/ pc[t].num \in opened)
  /\ opened' = opened \union {pc[t].num}
  /\ NewObject(pc[t].num, 0)
  /\ pc' = [pc EXCEPT ![t] = Idle]
  /\ UNCHANGED <<system, children, device, handles, mac, events>>

\* Drop for WebusbInterface calls release_interface and does not await it.
DropWebusb(o) ==
  /\ platform = "webusb" /\ o \in Live /\ ~Referenced(o)
  /\ obj' = [obj EXCEPT ![o].phase = "closing"]
  /\ UNCHANGED <<system, children, device, os, mac, events, pc, overlapped>>

ReleasedWebusb(o) ==
  /\ platform = "webusb" /\ obj[o].phase = "closing"
  /\ opened' = opened \ {obj[o].num}
  /\ obj' = [obj EXCEPT ![o] = NoObject]
  /\ UNCHANGED <<system, children, device, handles, mac, events, pc, overlapped>>

SetAltWebusb(t, o, a) ==
  /\ platform = "webusb" /\ obj[o].held /\ pc[t] = Idle
  /\ obj[o].ep = "none"
  /\ pc' = [pc EXCEPT ![t] = [op |-> "alt", obj |-> o, alt |-> a]]
  /\ UNCHANGED <<system, children, device, os, mac, events, obj, overlapped>>

AltSetWebusb(t) ==
  /\ pc[t].op = "alt"
  /\ overlapped' = (overlapped \/ obj[pc[t].obj].ep # "none")
  /\ obj' = [obj EXCEPT ![pc[t].obj].alt = pc[t].alt]
  /\ pc' = [pc EXCEPT ![t] = Idle]
  /\ UNCHANGED <<system, children, device, os, mac, events>>

\* A claim or a change of setting that the browser refuses.
FailedWebusb(t) ==
  /\ pc[t].op \in {"claim", "alt"}
  /\ pc' = [pc EXCEPT ![t] = Idle]
  /\ UNCHANGED <<system, children, device, os, mac, events, obj, overlapped>>

-----------------------------------------------------------------------------
(* Interfaces: under the lock of their state                               *)

LetGoOfInterface(o) ==
  /\ obj[o].held
  /\ obj' = [obj EXCEPT ![o].held = FALSE]
  /\ UNCHANGED <<system, children, device, os, mac, events, pc, overlapped>>

CanSetAlt_Always(o) == TRUE
CanSetAlt(o) == obj[o].ep = "none"
SetAltWindows(o, a) ==
  /\ platform = "windows" /\ obj[o].held /\ CanSetAlt(o)
  /\ obj' = [obj EXCEPT ![o].alt = a]
  /\ UNCHANGED <<system, children, device, os, mac, events, pc, overlapped>>

SetAltMac(o, a) ==
  /\ platform = "macos" /\ obj[o].held /\ CanSetAlt(o)
  /\ obj' = [obj EXCEPT ![o].alt = a]
  /\ UNCHANGED <<system, children, device, os, mac, events, pc, overlapped>>

\* endpoint(): the address is marked.  The caller has found the descriptor of an
\* alternate setting; macOS looks for the pipe again, among those of this setting.
Mark(o) ==
  /\ obj[o].held /\ obj[o].ep = "none"
  /\ obj' = [obj EXCEPT ![o].ep = "open"]
  /\ UNCHANGED <<system, children, device, os, mac, events, pc, overlapped>>

FindPipeRef(o) == obj[o].alt \in PipeAlts
EndpointWindows(o) == platform = "windows" /\ Mark(o)
EndpointMac(o) == platform = "macos" /\ FindPipeRef(o) /\ Mark(o)
EndpointWebusb(o) == platform = "webusb" /\ Mark(o)

\* The Endpoint is dropped.  Pending transfers keep EndpointInner, and with it the
\* interface; in WebUSB they are futures of the endpoint.
DropEndpoint(o) ==
  /\ obj[o].ep = "open"
  /\ \E ep \in (IF platform = "webusb" THEN {"none"} ELSE {"none", "ending"}) :
       obj' = [obj EXCEPT ![o].ep = ep]
  /\ UNCHANGED <<system, children, device, os, mac, events, pc, overlapped>>

\* The last of them ends, on the thread of the callback.
DropEndpointInner(o) ==
  /\ obj[o].ep = "ending"
  /\ obj' = [obj EXCEPT ![o].ep = "none"]
  /\ UNCHANGED <<system, children, device, os, mac, events, pc, overlapped>>

-----------------------------------------------------------------------------
WindowsNext ==
  \/ OpenWindows
  \/ \E i \in Interfaces : ChildAppears(i) \/ ClaimWindows(i)
  \/ \E o \in Objects : FreeAssociated(o) \/ ReleaseWindows(o) \/ \E a \in Alts : SetAltWindows(o, a)

MacNext ==
  \/ RegisterDevice \/ OpenMac \/ OpenMacFails
  \/ \E t \in Tasks :
       \/ \E i \in Few : RegisterMac(t, i)
       \/ InterfaceOpen(t) \/ CountClaim(t) \/ SetConfiguration(t) \/ StoreActiveConfig(t) \/ Reset(t)
       \/ RequireOpenExclusive(t, [op |-> "reset"])
       \/ \E c \in Configs : RequireOpenExclusive(t, [op |-> "config", config |-> c])
  \/ \E o \in Objects : CloseMac(o) \/ ReleaseMac(o) \/ \E a \in Alts : SetAltMac(o, a)

WebusbNext ==
  \/ OpenWebusb
  \/ \E t \in Tasks :
       \/ \E i \in Few : ClaimWebusb(t, i)
       \/ ClaimedWebusb(t) \/ AltSetWebusb(t) \/ FailedWebusb(t)
       \/ \E o \in Objects, a \in Alts : SetAltWebusb(t, o, a)
  \/ \E o \in Objects : DropWebusb(o) \/ ReleasedWebusb(o)

ProgramNext ==
  \/ LetGoOfDevice \/ DropDevice
  \/ \E o \in Objects : LetGoOfInterface(o) \/ EndpointWindows(o) \/ EndpointMac(o) \/ EndpointWebusb(o)
                       \/ DropEndpoint(o) \/ DropEndpointInner(o)

Next == WindowsNext \/ MacNext \/ WebusbNext \/ ProgramNext

Spec == Init /\ [][Next]_vars

-----------------------------------------------------------------------------
(* Properties                                                              *)

\* What an interface object relies on is open until it is dropped: on Windows the
\* file it copied the handle from, with its claim in the table ("missing handle
\* that should be open" is unreachable), and its own associated handle.  And
\* nothing stays open without an owner: every file, associated handle and IOKit
\* interface belongs to an interface object or to a claim that is under way.
StayOpen ==
  /\ platform = "windows" => \A o \in Existing :
       obj[o].phase = "live" /\ obj[o].num # obj[o].first => obj[o].num \in opened
  /\ platform = "macos" \/ ~overlapped => \A o \in Live : platform # "windows" => obj[o].num \in opened
ClaimsOf(first) == {obj[o].num : o \in {x \in Existing : obj[x].first = first}}
TableMatches == \A k \in DOMAIN handles : handles[k] # {} /\ handles[k] = ClaimsOf(k)
HaveOwners ==
  opened \subseteq {obj[o].num : o \in Existing} \union {pc[t].num : t \in {x \in Tasks : pc[x].op = "opened"}}
HandlesMatchClaims ==
  /\ StayOpen /\ TableMatches /\ HaveOwners
  /\ platform = "windows" => \A o \in Existing : obj[o].first \in DOMAIN handles

\* EVENT_LOOP: the run loop runs while, and only while, a device, an interface or
\* a claim that is under way is registered, and counts them right.
Claiming == {t \in Tasks : pc[t].op \in {"registered", "opened"}}
Registered ==
  (IF device # "closed" THEN 1 ELSE 0) + Cardinality(Existing) + Cardinality(Claiming)
EventLoopRuns == platform = "macos" => (loop <=> sources > 0) /\ sources = Registered

\* InterfaceClaims is implemented, by WebUSB as long as no call took effect after
\* what it had checked before its await had changed.
Holding == {o \in Existing : platform = "macos" => o \in Live}
Current(i) == {o \in Holding : obj[o].num = i}
Claimed == IF platform = "windows" THEN UNION Range(handles) ELSE opened
InUse == {obj[o].num : o \in {x \in Objects : obj[x].ep # "none"}}
Setting == [i \in Interfaces |-> IF Current(i) = {} THEN 0 ELSE obj[Min(Current(i))].alt]
Claims == INSTANCE InterfaceClaims WITH claimed <- Claimed, inUse <- InUse, setting <- Setting

ImplementsClaims == Claims!Init /\ [][Claims!Next \/ overlapped']_(Claims!claims)

-----------------------------------------------------------------------------
(* The inductive invariant                                                 *)

\* What a task remembers of the call it is in the middle of, and that the call
\* keeps what it needs.
Steps ==
  [op : {"idle", "reset"}]
    \union [op : {"registered", "opened", "claim"}, num : Interfaces]
    \union [op : {"config", "store"}, config : Configs]
    \union [op : {"alt"}, obj : Objects, alt : Alts]
PcInv ==
  /\ pc \in [Tasks -> Steps]
  /\ \A t \in Tasks :
       /\ pc[t].op \in {"registered", "opened", "config", "store", "reset"} => platform = "macos"
       /\ pc[t].op \in {"claim", "alt"} => platform = "webusb"
       /\ pc[t].op = "alt" => obj[pc[t].obj].phase = "live"

\* The program and an endpoint keep the interface, and those that exist the device.
LifetimeInv ==
  /\ \A o \in Objects :
       /\ obj[o].phase = "none" => obj[o] = NoObject
       /\ obj[o].held \/ obj[o].ep # "none" => obj[o].phase = "live"
  /\ device \in {"closed", "opening"} => Existing = {} /\ \A t \in Tasks : pc[t].op = "idle"
  /\ device = "opening" => platform = "macos"

\* No two of these objects are for the same interface.
Distinct(S) == \A o1, o2 \in S : obj[o1].num = obj[o2].num => o1 = o2

\* Windows: the entries of the table are the files of the objects that exist, and
\* a claim is in the entry of the function it belongs to.
WindowsInv ==
  /\ TableMatches
  /\ platform # "windows" => DOMAIN handles = {}
  /\ platform = "windows" =>
       /\ Distinct(Existing)
       /\ opened = {obj[o].num : o \in {x \in Live : obj[x].num # obj[x].first}}
       /\ \A o \in Existing :
            /\ obj[o].first \in DOMAIN handles
            /\ \/ driver = "winusb" /\ obj[o].first = 0
               \/ driver = "usbccgp" /\ obj[o].first = Function[obj[o].num]

\* macOS: an IOKit interface is that of a live object or of one claim under way,
\* and what exists is counted.
Opening == {t \in Tasks : pc[t].op = "opened"}
MacInv ==
  platform = "macos" =>
    /\ opened = {obj[o].num : o \in Live} \union {pc[t].num : t \in Opening}
    /\ Distinct(Live)
    /\ \A t \in Opening : \A o \in Live : pc[t].num # obj[o].num
    /\ \A t, u \in Opening : pc[t].num = pc[u].num => t = u
    /\ count = Cardinality(Existing)
    /\ EventLoopRuns

\* WebUSB: what is claimed has an object, and, until a call took effect too late,
\* the other way round.
WebusbInv ==
  platform = "webusb" =>
    /\ opened \subseteq {obj[o].num : o \in Existing}
    /\ ~overlapped => Distinct(Existing) /\ \A o \in Existing : obj[o].num \in opened

IInv == TypeOK /\ PcInv /\ LifetimeInv /\ WindowsInv /\ MacInv /\ WebusbInv
=============================================================================
