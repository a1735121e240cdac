------------------------ MODULE BackendDeviceProofs ------------------------
(***************************************************************************)
(* Proofs about BackendDevice and KernelDrivers, for any interfaces,       *)
(* functions, alternate settings, configurations, tasks, drivers and       *)
(* number of objects.                                                      *)
(*                                                                         *)
(* IInv describes, for each platform, the tables of the operating system   *)
(* and of nusb by the interface objects and claims that exist: a claim has *)
(* one owner, and the counters are the cardinalities of the sets they      *)
(* count.  Then each step is mapped to InterfaceClaims.                    *)
(*                                                                         *)
(* Kernel drivers, on Linux, come back: DriversReturn alone is not         *)
(* inductive, since what a driver comes back to depends on there being one *)
(* object of the interface and on what it remembers of the driver it found *)
(* (OneClaim).                                                             *)
(***************************************************************************)
EXTENDS BackendDevice, KernelDrivers, FiniteSetTheorems, WellFoundedInduction, TLAPS

-----------------------------------------------------------------------------
(* Helpers                                                                 *)

\* A set of natural numbers has a least element.
LEMMA MinInSet == ASSUME NEW S, S \subseteq Nat, S # {} PROVE Min(S) \in S
<1>1. \E x \in S : \A y \in S : ~ (<<y, x>> \in OpToRel(<, Nat))
  BY NatLessThanWellFounded, WFMin
<1>2. \A x, y \in Nat : <<y, x>> \notin OpToRel(<, Nat) => x <= y
  BY DEF OpToRel
<1>3. \E x \in S : \A y \in S : x <= y
  BY <1>1, <1>2
<1> QED BY <1>3 DEF Min

\* A bounded set of natural numbers has a greatest element.
LEMMA MaxInSet == ASSUME NEW n \in Nat, NEW S, S \subseteq 0..n, S # {} PROVE Max(S) \in S
<1> DEFINE D == {n - x : x \in S}
<1>1. D \subseteq Nat
  <2>1. \A x \in S : n - x \in Nat
    OBVIOUS
  <2> QED BY <2>1
<1>2. D # {}
  OBVIOUS
<1>3. \E x \in D : \A y \in D : ~ (<<y, x>> \in OpToRel(<, Nat))
  BY <1>1, <1>2, NatLessThanWellFounded, WFMin
<1>4. \A x, y \in Nat : <<y, x>> \notin OpToRel(<, Nat) => x <= y
  BY DEF OpToRel
<1>5. PICK m \in S : \A y \in D : n - m <= y
  <2> HIDE DEF D
  <2>1. PICK d \in D : \A y \in D : d <= y
    BY <1>1, <1>3, <1>4
  <2> QED BY <2>1 DEF D
<1>6. \A y \in S : m >= y
  <2> TAKE y \in S
  <2>1. n - m <= n - y
    BY <1>5
  <2> QED BY <2>1
<1> QED BY <1>6 DEF Max

-----------------------------------------------------------------------------
(* The initial state                                                       *)

\* There is no device and no interface at first.
LEMMA InitIInv == Init => IInv
<1> SUFFICES ASSUME Init PROVE IInv
  OBVIOUS
<1>0. Existing = {} /\ Live = {} /\ Opening = {}
  BY DEF Init, Existing, Live, Opening, NoObject, Idle
<1>1. TypeOK
  <2>1. DOMAIN handles = {} /\ \A k \in DOMAIN handles : handles[k] \subseteq Interfaces
    BY DEF Init
  <2>2. exclusive \in BOOLEAN /\ loop \in BOOLEAN /\ overlapped \in BOOLEAN
    BY DEF Init
  <2>3. obj \in [Objects -> Interface]
    BY InterfacesAssumption, AltsAssumption DEF Init, Interface, NoObject, Phases
  <2>4. count \in 0..MaxObjects
    BY BoundsAssumption DEF Init
  <2>5. platform \in Platforms /\ driver \in {"winusb", "usbccgp", "other"} /\ sources \in Nat
    BY DEF Init
  <2> QED BY <2>1, <2>2, <2>3, <2>4, <2>5 DEF Init, TypeOK, Idle
<1>2. PcInv
  BY DEF Init, PcInv, Steps, Idle
<1>3. LifetimeInv
  BY DEF Init, LifetimeInv, Existing, NoObject, Idle
<1>4. WindowsInv
  BY <1>0 DEF Init, WindowsInv, TableMatches, ClaimsOf, Distinct
<1>5. MacInv
  <2>1. Cardinality(Existing) = 0 /\ Cardinality(Claiming) = 0
    BY <1>0, FS_EmptySet DEF Init, Claiming, Idle
  <2>2. sources = Registered
    BY <2>1 DEF Init, Registered
  <2>3. EventLoopRuns
    BY <2>2 DEF Init, EventLoopRuns
  <2> QED BY <1>0, <2>1, <2>3 DEF Init, MacInv, Distinct
<1>6. WebusbInv
  BY <1>0 DEF Init, WebusbInv, Distinct
<1> QED BY <1>1, <1>2, <1>3, <1>4, <1>5, <1>6 DEF IInv

\* Interface objects, and the tasks that claim, can be counted.
LEMMA ExistingFinite ==
  TypeOK => IsFiniteSet(Existing) /\ Cardinality(Existing) \in 0..MaxObjects
<1> SUFFICES ASSUME TypeOK PROVE IsFiniteSet(Existing) /\ Cardinality(Existing) \in 0..MaxObjects
  OBVIOUS
<1>1. IsFiniteSet(Objects) /\ Cardinality(Objects) = MaxObjects
  BY FS_Interval, BoundsAssumption DEF Objects
<1>2. IsFiniteSet(Existing) /\ Cardinality(Existing) <= Cardinality(Objects)
  BY <1>1, FS_Subset DEF Existing
<1>3. Cardinality(Existing) \in Nat
  BY <1>2, FS_CardinalityType
<1> QED BY <1>1, <1>2, <1>3, BoundsAssumption

LEMMA ClaimingFinite == IsFiniteSet(Claiming) /\ Cardinality(Claiming) \in Nat
<1>1. IsFiniteSet(Claiming)
  BY FS_Subset, BoundsAssumption DEF Claiming
<1> QED BY <1>1, FS_CardinalityType

\* Arc::new: one more object exists, for the interface and its function.
LEMMA NewObjectExists ==
  ASSUME TypeOK, NEW i \in Interfaces, NEW first \in Interfaces, Free # {}, NewObject(i, first)
  PROVE  \E o \in Objects \ Existing :
           /\ obj' = [obj EXCEPT ![o] = [phase |-> "live", num |-> i, first |-> first, held |-> TRUE, ep |-> "none", alt |-> 0]]
           /\ Existing' = Existing \union {o} /\ Live' = Live \union {o}
           /\ Cardinality(Existing') = Cardinality(Existing) + 1
<1> DEFINE o == Min(Free)
<1>1. o \in Objects \ Existing
  BY MinInSet, BoundsAssumption DEF Free, Objects
<1> HIDE DEF o
<1>2. obj' = [obj EXCEPT ![o] = [phase |-> "live", num |-> i, first |-> first, held |-> TRUE, ep |-> "none", alt |-> 0]]
  BY DEF NewObject, o
<1>3. Existing' = Existing \union {o} /\ Live' = Live \union {o}
  BY <1>1, <1>2 DEF Existing, Live, TypeOK, Interface
<1>4. Cardinality(Existing') = Cardinality(Existing) + 1
  BY <1>1, <1>3, ExistingFinite, FS_AddElement
<1> QED BY <1>1, <1>2, <1>3, <1>4

\* The last reference of an object is dropped: it is no longer counted.
LEMMA ObjectRemoved ==
  ASSUME TypeOK, NEW o \in Existing, obj' = [obj EXCEPT ![o] = NoObject]
  PROVE  /\ Existing' = Existing \ {o} /\ Live' = Live \ {o}
         /\ Cardinality(Existing') = Cardinality(Existing) - 1
<1>1. Existing' = Existing \ {o} /\ Live' = Live \ {o}
  BY DEF Existing, Live, TypeOK, NoObject
<1>2. Cardinality(Existing \ {o}) = Cardinality(Existing) - 1
  BY ExistingFinite, FS_RemoveElement
<1> QED BY <1>1, <1>2

-----------------------------------------------------------------------------
(* Steps that change no claim                                              *)

\* A step that changes no claim: the objects stay what they are for, and what is open or
\* registered stays open or registered.
ClaimsKept ==
  /\ \A o \in Objects : obj'[o].phase = obj[o].phase /\ obj'[o].num = obj[o].num /\ obj'[o].first = obj[o].first
  /\ UNCHANGED <<system, os, count, events>>
  /\ (device = "closed") <=> (device' = "closed")
  /\ Claiming' = Claiming /\ Opening' = Opening
  /\ \A t \in Opening : pc'[t].num = pc[t].num
  /\ overlapped => overlapped'

\* Such a step keeps what the invariant says of the platforms.
LEMMA ClaimsKeptKeepsInv ==
  ASSUME IInv, ClaimsKept
  PROVE  WindowsInv' /\ MacInv' /\ WebusbInv'
<1>1. Existing' = Existing /\ Live' = Live
  BY DEF Existing, Live, ClaimsKept
<1>2. WindowsInv'
  BY <1>1 DEF IInv, ClaimsKept, WindowsInv, TableMatches, ClaimsOf, Distinct, system, os, Existing, Live
<1>3. MacInv'
  <2>1. EventLoopRuns => EventLoopRuns'
    BY <1>1 DEF ClaimsKept, EventLoopRuns, Registered, system, events
  <2> QED BY <1>1, <2>1 DEF IInv, ClaimsKept, MacInv, Distinct, system, os, Live
<1>4. WebusbInv'
  BY <1>1 DEF IInv, ClaimsKept, WebusbInv, Distinct, system, os, Existing
<1> QED BY <1>2, <1>3, <1>4

\* n is an object for the same interface, at the same point of its life, as r.
SameInterface(n, r) == n \in Interface /\ n.phase = r.phase /\ n.num = r.num /\ n.first = r.first

\* What an update of one field does to an object.
LEMMA FieldsUpdated ==
  ASSUME NEW r \in Interface
  PROVE  /\ SameInterface([r EXCEPT !.held = FALSE], r)
         /\ [r EXCEPT !.held = FALSE].ep = r.ep /\ [r EXCEPT !.held = FALSE].alt = r.alt
         /\ \A e \in {"none", "open", "ending"} :
              /\ SameInterface([r EXCEPT !.ep = e], r)
              /\ [r EXCEPT !.ep = e].ep = e /\ [r EXCEPT !.ep = e].alt = r.alt
         /\ \A a \in Alts :
              /\ SameInterface([r EXCEPT !.alt = a], r)
              /\ [r EXCEPT !.alt = a].ep = r.ep /\ [r EXCEPT !.alt = a].alt = a
         /\ [r EXCEPT !.phase = "closing"] \in Interface
         /\ [r EXCEPT !.phase = "closing"].phase = "closing"
         /\ [r EXCEPT !.phase = "closing"].num = r.num
         /\ [r EXCEPT !.phase = "closing"].first = r.first
         /\ [r EXCEPT !.phase = "closing"].ep = r.ep /\ [r EXCEPT !.phase = "closing"].alt = r.alt
         /\ [r EXCEPT !.phase = "closing"].held => r.held
<1>1. SameInterface([r EXCEPT !.held = FALSE], r)
  BY DEF Interface, SameInterface
<1>2. [r EXCEPT !.held = FALSE].ep = r.ep /\ [r EXCEPT !.held = FALSE].alt = r.alt
  BY DEF Interface
<1>3. ASSUME NEW e \in {"none", "open", "ending"}
      PROVE  /\ SameInterface([r EXCEPT !.ep = e], r)
             /\ [r EXCEPT !.ep = e].ep = e /\ [r EXCEPT !.ep = e].alt = r.alt
  BY DEF Interface, SameInterface
<1>4. ASSUME NEW a \in Alts
      PROVE  /\ SameInterface([r EXCEPT !.alt = a], r)
             /\ [r EXCEPT !.alt = a].ep = r.ep /\ [r EXCEPT !.alt = a].alt = a
  BY DEF Interface, SameInterface
<1>5. /\ [r EXCEPT !.phase = "closing"] \in Interface
      /\ [r EXCEPT !.phase = "closing"].phase = "closing"
      /\ [r EXCEPT !.phase = "closing"].num = r.num
      /\ [r EXCEPT !.phase = "closing"].first = r.first
      /\ [r EXCEPT !.phase = "closing"].ep = r.ep /\ [r EXCEPT !.phase = "closing"].alt = r.alt
  BY DEF Interface, Phases
<1>6. [r EXCEPT !.phase = "closing"].held => r.held
  BY DEF Interface
<1> QED BY <1>1, <1>2, <1>3, <1>4, <1>5, <1>6

\* An object that lives changes, but stays what it is for.
LEMMA UseKeepsClaims ==
  ASSUME IInv, NEW o \in Objects, obj[o].phase = "live",
         NEW n, SameInterface(n, obj[o]), obj' = [obj EXCEPT ![o] = n],
         UNCHANGED <<system, children, device, os, mac, events, pc>>, overlapped' \in BOOLEAN, overlapped => overlapped'
  PROVE  IInv'
<1>1. TypeOK'
  BY DEF SameInterface, IInv, TypeOK, system, os, mac, events
<1>2. ClaimsKept
  BY DEF SameInterface, ClaimsKept, Claiming, Opening, mac, IInv, TypeOK
<1>3. PcInv'
  <2>1. \A t \in Tasks : pc[t].op = "alt" => pc[t].obj \in Objects
    BY DEF IInv, PcInv, Steps
  <2> QED BY <2>1 DEF SameInterface, IInv, TypeOK, PcInv, system
<1>4. LifetimeInv'
  BY DEF SameInterface, IInv, TypeOK, LifetimeInv, Existing
<1> QED BY <1>1, <1>2, <1>3, <1>4, ClaimsKeptKeepsInv DEF IInv

\* The uses of an interface: its endpoint, its alternate setting, and letting go of it.
LEMMA UseKeepsIInv ==
  ASSUME IInv, NEW o \in Objects,
         \/ LetGoOfInterface(o) \/ DropEndpoint(o) \/ DropEndpointInner(o)
         \/ \E a \in Alts : SetAltWindows(o, a) \/ SetAltMac(o, a)
         \/ EndpointWindows(o) \/ EndpointMac(o) \/ EndpointWebusb(o)
  PROVE  IInv'
<1>1. obj[o] \in Interface
  BY DEF IInv, TypeOK
<1>2. obj[o].held \/ obj[o].ep # "none" => obj[o].phase = "live"
  BY DEF IInv, LifetimeInv
<1>3. CASE LetGoOfInterface(o)
  <2>1. obj' = [obj EXCEPT ![o] = [obj[o] EXCEPT !.held = FALSE]]
    BY <1>3 DEF LetGoOfInterface
  <2>2. SameInterface([obj[o] EXCEPT !.held = FALSE], obj[o])
    BY <1>1, FieldsUpdated
  <2>3. obj[o].phase = "live" /\ UNCHANGED <<system, children, device, os, mac, events, pc, overlapped>>
    BY <1>2, <1>3 DEF LetGoOfInterface
  <2> QED BY <2>1, <2>2, <2>3, UseKeepsClaims DEF IInv, TypeOK
<1>4. CASE DropEndpoint(o) \/ DropEndpointInner(o) \/ EndpointWindows(o) \/ EndpointMac(o) \/ EndpointWebusb(o)
  <2>1. PICK e \in {"none", "open", "ending"} : obj' = [obj EXCEPT ![o] = [obj[o] EXCEPT !.ep = e]]
    BY <1>4 DEF DropEndpoint, DropEndpointInner, EndpointWindows, EndpointMac, EndpointWebusb, Mark
  <2>2. SameInterface([obj[o] EXCEPT !.ep = e], obj[o])
    BY <1>1, FieldsUpdated
  <2>3. obj[o].phase = "live" /\ UNCHANGED <<system, children, device, os, mac, events, pc, overlapped>>
    BY <1>2, <1>4 DEF DropEndpoint, DropEndpointInner, EndpointWindows, EndpointMac, EndpointWebusb, Mark
  <2> QED BY <2>1, <2>2, <2>3, UseKeepsClaims DEF IInv, TypeOK
<1>5. CASE \E a \in Alts : SetAltWindows(o, a) \/ SetAltMac(o, a)
  <2>1. PICK a \in Alts : obj' = [obj EXCEPT ![o] = [obj[o] EXCEPT !.alt = a]]
    BY <1>5 DEF SetAltWindows, SetAltMac
  <2>2. SameInterface([obj[o] EXCEPT !.alt = a], obj[o])
    BY <1>1, FieldsUpdated
  <2>3. obj[o].phase = "live" /\ UNCHANGED <<system, children, device, os, mac, events, pc, overlapped>>
    BY <1>2, <1>5 DEF SetAltWindows, SetAltMac
  <2> QED BY <2>1, <2>2, <2>3, UseKeepsClaims DEF IInv, TypeOK
<1> QED BY <1>3, <1>4, <1>5

\* Steps of the device and of the system that touch no interface.
LEMMA DeviceKeepsIInv ==
  ASSUME IInv,
         LetGoOfDevice \/ (\E i \in Interfaces : ChildAppears(i)) \/ OpenWebusb
  PROVE  IInv'
<1>1. TypeOK'
  BY DEF IInv, TypeOK, LetGoOfDevice, ChildAppears, OpenWebusb, system, os, mac, events
<1>2. PcInv' /\ LifetimeInv'
  BY DEF IInv, PcInv, LifetimeInv, LetGoOfDevice, ChildAppears, OpenWebusb, system, os, mac, events, Existing, Steps
<1>3. CASE ~OpenWebusb
  <2>1. UNCHANGED <<system, os, mac, events, obj, pc, overlapped>>
    BY <1>3 DEF LetGoOfDevice, ChildAppears
  <2>2. (device = "closed") <=> (device' = "closed")
    BY <1>3 DEF LetGoOfDevice, ChildAppears
  <2>3. ClaimsKept
    BY <2>1, <2>2 DEF ClaimsKept, Claiming, Opening, mac
  <2> QED BY <1>1, <1>2, <2>3, ClaimsKeptKeepsInv DEF IInv
<1>4. CASE OpenWebusb
  <2>1. Existing' = Existing /\ Live' = Live
    BY <1>4 DEF OpenWebusb, Existing, Live
  <2>2. WindowsInv' /\ MacInv' /\ WebusbInv'
    BY <1>4, <2>1 DEF IInv, OpenWebusb, WindowsInv, TableMatches, ClaimsOf, MacInv, WebusbInv, Distinct, system, os, Existing
  <2> QED BY <1>1, <1>2, <2>2 DEF IInv
<1> QED BY <1>3, <1>4

\* What a task that proceeds with its call still remembers.
LEMMA StepsUpdated ==
  ASSUME NEW s \in Steps
  PROVE  /\ s.op = "registered" => [s EXCEPT !.op = "opened"] \in Steps /\ [s EXCEPT !.op = "opened"].num = s.num
         /\ s.op = "config" => [s EXCEPT !.op = "store"] \in Steps /\ [s EXCEPT !.op = "store"].config = s.config
         /\ s.op = "registered" => [s EXCEPT !.op = "opened"].op = "opened"
         /\ s.op = "config" => [s EXCEPT !.op = "store"].op = "store"
BY DEF Steps

\* A task starts, continues or ends a call that is not a claim on macOS.
LEMMA CallKeepsClaims ==
  ASSUME IInv, NEW t \in Tasks, NEW s \in Steps, pc' = [pc EXCEPT ![t] = s],
         pc[t].op \notin {"registered", "opened"}, s.op \notin {"registered", "opened"},
         s.op \in {"config", "store", "reset"} => platform = "macos",
         s.op \in {"claim", "alt"} => platform = "webusb",
         s.op = "alt" => obj[s.obj].phase = "live",
         s.op # "idle" => device \notin {"closed", "opening"},
         UNCHANGED <<system, children, device, os, count, events, obj, overlapped>>,
         exclusive' \in BOOLEAN, config' \in Configs, active' \in Configs \union {0}
  PROVE  IInv'
<1>1. \A u \in Tasks : pc'[u] = IF u = t THEN s ELSE pc[u]
  BY DEF IInv, PcInv
<1>2. TypeOK'
  <2>1. \A u \in Tasks : pc'[u].op \in {"idle", "registered", "opened", "config", "store", "reset", "claim", "alt"}
    BY <1>1 DEF IInv, TypeOK, Steps
  <2> QED BY <2>1 DEF IInv, TypeOK, system, os, events
<1>3. PcInv'
  BY <1>1 DEF IInv, PcInv, system, Steps, Objects
<1>4. LifetimeInv'
  BY <1>1 DEF IInv, LifetimeInv, Existing, system
<1>5. ClaimsKept
  <2>1. Claiming' = Claiming /\ Opening' = Opening
    BY <1>1 DEF Claiming, Opening
  <2> QED BY <1>1, <2>1 DEF ClaimsKept, Opening
<1> QED BY <1>2, <1>3, <1>4, <1>5, ClaimsKeptKeepsInv DEF IInv

\* The calls of CallKeepsClaims: configurations, resets, and the promises of WebUSB.
LEMMA CallKeepsIInv ==
  ASSUME IInv, NEW t \in Tasks,
         \/ SetConfiguration(t) \/ StoreActiveConfig(t) \/ Reset(t)
         \/ RequireOpenExclusive(t, [op |-> "reset"])
         \/ \E c \in Configs : RequireOpenExclusive(t, [op |-> "config", config |-> c])
         \/ \E i \in Few : ClaimWebusb(t, i)
         \/ \E o \in Objects, a \in Alts : SetAltWebusb(t, o, a)
         \/ FailedWebusb(t)
  PROVE  IInv'
<1> DEFINE Unchanged == UNCHANGED <<system, children, device, os, count, events, obj, overlapped>>
<1> DEFINE Typed == exclusive' \in BOOLEAN /\ config' \in Configs /\ active' \in Configs \union {0}
<1>1. Idle \in Steps /\ Idle.op = "idle"
  BY DEF Idle, Steps
<1>2. pc[t] \in Steps /\ pc = [pc EXCEPT ![t] = pc[t]]
  BY DEF IInv, PcInv
<1>3. pc[t].op # "idle" => device \notin {"closed", "opening"}
  BY DEF IInv, LifetimeInv
<1>4. CASE SetConfiguration(t)
  <2>1. Unchanged /\ Typed
    BY <1>2, <1>4 DEF SetConfiguration, IInv, TypeOK, PcInv, Steps, mac
  <2>2. CASE pc' = [pc EXCEPT ![t] = Idle]
    BY <1>1, <1>4, <2>1, <2>2, CallKeepsClaims DEF SetConfiguration
  <2>3. CASE pc' = [pc EXCEPT ![t].op = "store"]
    <3>1. pc' = [pc EXCEPT ![t] = [pc[t] EXCEPT !.op = "store"]]
      BY <2>3
    <3>2. [pc[t] EXCEPT !.op = "store"] \in Steps /\ [pc[t] EXCEPT !.op = "store"].op = "store"
      BY <1>2, <1>4, StepsUpdated DEF SetConfiguration
    <3>3. platform = "macos"
      BY <1>4 DEF SetConfiguration, IInv, PcInv
    <3> QED BY <1>3, <1>4, <2>1, <3>1, <3>2, <3>3, CallKeepsClaims DEF SetConfiguration
  <2> QED BY <1>4, <2>2, <2>3 DEF SetConfiguration
<1>5. CASE StoreActiveConfig(t) \/ Reset(t) \/ FailedWebusb(t)
  <2>1. Unchanged /\ Typed
    BY <1>2, <1>5 DEF StoreActiveConfig, Reset, FailedWebusb, IInv, TypeOK, PcInv, Steps, mac
  <2>2. pc' = [pc EXCEPT ![t] = Idle] /\ pc[t].op \notin {"registered", "opened"}
    BY <1>5 DEF StoreActiveConfig, Reset, FailedWebusb
  <2> QED BY <1>1, <2>1, <2>2, CallKeepsClaims
<1>6. ASSUME NEW s \in [op : {"reset"}] \union [op : {"config"}, config : Configs], RequireOpenExclusive(t, s)
      PROVE  IInv'
  <2>1. Unchanged /\ Typed
    BY <1>6 DEF RequireOpenExclusive, IInv, TypeOK, mac
  <2>2. s \in Steps /\ s.op \in {"config", "reset"}
    BY DEF Steps
  <2>3. pc[t].op = "idle" /\ platform = "macos" /\ device \notin {"closed", "opening"}
    BY <1>6 DEF RequireOpenExclusive, Idle
  <2>4. \E n \in {s, pc[t]} : pc' = [pc EXCEPT ![t] = n]
    BY <1>2, <1>6 DEF RequireOpenExclusive
  <2> QED BY <1>2, <2>1, <2>2, <2>3, <2>4, CallKeepsClaims
<1>7. ASSUME NEW i \in Few, ClaimWebusb(t, i)
      PROVE  IInv'
  <2>1. PICK s \in Steps : s = [op |-> "claim", num |-> i]
    BY InterfacesAssumption DEF Steps
  <2>2. Unchanged /\ Typed
    BY <1>7 DEF ClaimWebusb, IInv, TypeOK, mac
  <2>3. pc[t].op = "idle" /\ platform = "webusb" /\ device \notin {"closed", "opening"} /\ pc' = [pc EXCEPT ![t] = s]
    BY <1>7, <2>1 DEF ClaimWebusb, Idle
  <2>4. s.op = "claim"
    BY <2>1
  <2> QED BY <2>2, <2>3, <2>4, CallKeepsClaims
<1>8. ASSUME NEW o \in Objects, NEW a \in Alts, SetAltWebusb(t, o, a)
      PROVE  IInv'
  <2>1. PICK s \in Steps : s = [op |-> "alt", obj |-> o, alt |-> a]
    BY DEF Steps
  <2>2. Unchanged /\ Typed
    BY <1>8 DEF SetAltWebusb, IInv, TypeOK, mac
  <2>3. obj[o].phase = "live" /\ device \notin {"closed", "opening"}
    BY <1>8 DEF SetAltWebusb, IInv, LifetimeInv, Existing
  <2>4. pc[t].op = "idle" /\ platform = "webusb" /\ pc' = [pc EXCEPT ![t] = s]
    BY <1>8, <2>1 DEF SetAltWebusb, Idle
  <2>5. s.op = "alt" /\ s.obj = o
    BY <2>1
  <2> QED BY <2>2, <2>3, <2>4, <2>5, CallKeepsClaims
<1>9. [op |-> "reset"] \in [op : {"reset"}] /\ \A c \in Configs : [op |-> "config", config |-> c] \in [op : {"config"}, config : Configs]
  OBVIOUS
<1> QED BY <1>4, <1>5, <1>6, <1>7, <1>8, <1>9

\* set_alt_setting of WebUSB takes effect.
LEMMA AltSetKeepsIInv ==
  ASSUME IInv, NEW t \in Tasks, AltSetWebusb(t)
  PROVE  IInv'
<1> DEFINE o == pc[t].obj
<1>1. pc[t].op = "alt" /\ o \in Objects /\ pc[t].alt \in Alts
  BY DEF AltSetWebusb, IInv, PcInv, Steps
<1>2. obj[o] \in Interface /\ obj[o].phase = "live" /\ platform = "webusb"
  BY <1>1 DEF IInv, TypeOK, PcInv
<1>3. PICK n : SameInterface(n, obj[o]) /\ obj' = [obj EXCEPT ![o] = n]
  <2>1. obj' = [obj EXCEPT ![o] = [obj[o] EXCEPT !.alt = pc[t].alt]]
    BY DEF AltSetWebusb
  <2> QED BY <1>1, <1>2, <2>1, FieldsUpdated
<1>4. pc' = [pc EXCEPT ![t] = Idle] /\ UNCHANGED <<system, children, device, os, mac, events>>
  BY DEF AltSetWebusb, os
<1>5. overlapped' \in BOOLEAN /\ (overlapped => overlapped')
  BY DEF AltSetWebusb, IInv, TypeOK
<1> HIDE DEF o
<1>6. \A u \in Tasks : pc'[u] = IF u = t THEN Idle ELSE pc[u]
  BY <1>4 DEF IInv, PcInv
<1>7. TypeOK'
  <2>1. obj' \in [Objects -> Interface]
    BY <1>3 DEF SameInterface, IInv, TypeOK
  <2>2. \A u \in Tasks : pc'[u].op \in {"idle", "registered", "opened", "config", "store", "reset", "claim", "alt"}
    <3>1. Idle.op = "idle"
      BY DEF Idle
    <3> QED BY <1>6, <3>1 DEF IInv, TypeOK
  <2> QED BY <1>4, <1>5, <2>1, <2>2 DEF IInv, TypeOK, system, os, mac, events
<1>8. ClaimsKept
  <2>1. Claiming' = Claiming /\ Opening' = Opening
    BY <1>1, <1>6 DEF Claiming, Opening, Idle
  <2> QED BY <1>1, <1>3, <1>4, <1>5, <1>6, <2>1 DEF ClaimsKept, SameInterface, Opening, IInv, TypeOK, mac
<1>9. PcInv'
  <2>1. \A u \in Tasks : pc[u].op = "alt" => pc[u].obj \in Objects
    BY DEF IInv, PcInv, Steps
  <2>2. pc' \in [Tasks -> Steps]
    BY <1>4 DEF IInv, PcInv, Steps, Idle
  <2> QED BY <1>1, <1>2, <1>3, <1>4, <1>6, <2>1, <2>2 DEF SameInterface, IInv, TypeOK, PcInv, system, Idle
<1>10. LifetimeInv'
  BY <1>1, <1>2, <1>3, <1>4, <1>6 DEF SameInterface, IInv, TypeOK, LifetimeInv, Existing, Idle
<1> QED BY <1>7, <1>8, <1>9, <1>10, ClaimsKeptKeepsInv DEF IInv

\* The first step of opening finds no device open, so that nothing is claimed or registered.
LEMMA OpenKeepsIInv ==
  ASSUME IInv, OpenWindows \/ RegisterDevice
  PROVE  IInv'
<1>1. Existing = {} /\ Live = {} /\ Claiming = {} /\ Opening = {} /\ device = "closed" /\ device' \in {"open", "opening"}
  BY DEF IInv, LifetimeInv, Existing, Live, Claiming, Opening, OpenWindows, RegisterDevice
<1>2. Existing' = {} /\ Live' = {} /\ Claiming' = {} /\ Opening' = {}
  BY <1>1 DEF Existing, Live, Claiming, Opening, OpenWindows, RegisterDevice
<1>3. DOMAIN handles = {}
  <2>1. \A k \in DOMAIN handles : ClaimsOf(k) = {}
    BY <1>1 DEF ClaimsOf
  <2>2. \A k \in DOMAIN handles : handles[k] # {} /\ handles[k] = {}
    BY <2>1 DEF IInv, WindowsInv, TableMatches
  <2> QED BY <2>2
<1>4. TypeOK'
  <2>1. CASE OpenWindows
    BY <2>1 DEF OpenWindows, IInv, TypeOK, system, mac, events
  <2>2. CASE RegisterDevice
    BY <2>2, BoundsAssumption DEF RegisterDevice, AddEventSource, IInv, TypeOK, system, os, mac
  <2> QED BY <2>1, <2>2
<1>5. PcInv' /\ LifetimeInv'
  BY <1>2 DEF IInv, PcInv, LifetimeInv, OpenWindows, RegisterDevice, system
<1>6. WindowsInv'
  <2>1. DOMAIN handles' = {}
    BY <1>3 DEF OpenWindows, RegisterDevice, os
  <2>2. platform = "windows" => opened' = {}
    BY <1>1 DEF IInv, WindowsInv, OpenWindows, RegisterDevice, os
  <2> QED BY <1>2, <2>1, <2>2 DEF WindowsInv, TableMatches, ClaimsOf, Distinct, OpenWindows, RegisterDevice, system
<1>7. MacInv'
  <2>1. CASE RegisterDevice
    <3>1. Cardinality(Existing) = 0 /\ Cardinality(Claiming) = 0
      BY <1>1, FS_EmptySet
    <3>2. Cardinality(Existing') = 0 /\ Cardinality(Claiming') = 0
      BY <1>2, FS_EmptySet
    <3>3. sources = 0 /\ ~loop
      BY <1>1, <3>1, <2>1 DEF IInv, MacInv, EventLoopRuns, Registered, RegisterDevice
    <3>4. sources' = 1 /\ loop'
      BY <2>1, <3>3 DEF RegisterDevice, AddEventSource
    <3>5. EventLoopRuns'
      BY <1>1, <3>2, <3>4 DEF EventLoopRuns, Registered
    <3>6. opened' = {}
      BY <1>1, <2>1 DEF IInv, MacInv, RegisterDevice, os
    <3>7. count' = 0
      BY <2>1, <3>1 DEF RegisterDevice, mac, IInv, MacInv
    <3> QED BY <1>2, <2>1, <3>2, <3>5, <3>6, <3>7 DEF MacInv, Distinct, RegisterDevice
  <2>2. CASE OpenWindows
    BY <2>2 DEF OpenWindows, MacInv, system
  <2> QED BY <2>1, <2>2
<1>8. WebusbInv'
  BY DEF WebusbInv, OpenWindows, RegisterDevice, system
<1> QED BY <1>4, <1>5, <1>6, <1>7, <1>8 DEF IInv

\* MacDevice: the device that is opening has no interfaces, so that none are counted.
LEMMA OpenMacKeepsIInv ==
  ASSUME IInv, OpenMac
  PROVE  IInv'
<1>1. platform = "macos" /\ Existing = {} /\ device = "opening" /\ device' = "open"
  BY DEF OpenMac, IInv, LifetimeInv
<1>2. count' = count
  BY <1>1, FS_EmptySet DEF OpenMac, IInv, MacInv
<1>3. TypeOK'
  BY <1>2 DEF OpenMac, IInv, TypeOK, ActiveConfig, system, os, events
<1>4. PcInv' /\ LifetimeInv'
  BY <1>1 DEF OpenMac, IInv, PcInv, LifetimeInv, Existing, system
<1>5. ClaimsKept
  BY <1>1, <1>2 DEF OpenMac, ClaimsKept, Claiming, Opening
<1> QED BY <1>3, <1>4, <1>5, ClaimsKeptKeepsInv DEF IInv

\* Opening fails: the only registration is dropped.
LEMMA OpenMacFailsKeepsIInv ==
  ASSUME IInv, OpenMacFails
  PROVE  IInv'
<1>1. /\ platform = "macos" /\ Existing = {} /\ Live = {} /\ Claiming = {} /\ Opening = {}
      /\ device = "opening" /\ device' = "closed"
  BY DEF OpenMacFails, IInv, LifetimeInv, Existing, Live, Claiming, Opening
<1>2. UNCHANGED <<system, children, os, mac, obj, pc, overlapped>>
  BY DEF OpenMacFails
<1>3. Existing' = {} /\ Live' = {} /\ Claiming' = {} /\ Opening' = {}
  BY <1>1, <1>2 DEF Existing, Live, Claiming, Opening
<1>4. Cardinality(Existing) = 0 /\ Cardinality(Claiming) = 0 /\ Cardinality(Existing') = 0 /\ Cardinality(Claiming') = 0
  BY <1>1, <1>3, FS_EmptySet
<1>5. sources' = 0 /\ ~loop'
  <2>1. device # "closed"
    BY <1>1
  <2>2. Registered = 1
    BY ONLY <1>4, <2>1 DEF Registered
  <2>3. sources = 1
    BY <1>1, <2>2 DEF IInv, MacInv, EventLoopRuns
  <2>4. sources' = sources - 1 /\ loop' = (sources # 1)
    BY DEF OpenMacFails, DropRegistration
  <2>5. ~loop'
    BY ONLY <2>3, <2>4, Zenon
  <2> QED BY <2>3, <2>4, <2>5
<1>6. TypeOK'
  <2>1. loop' \in BOOLEAN
    BY DEF OpenMacFails, DropRegistration
  <2> QED BY <1>1, <1>2, <1>5, <2>1 DEF IInv, TypeOK, system, os, mac
<1>7. PcInv' /\ LifetimeInv'
  BY <1>1, <1>2, <1>3 DEF IInv, PcInv, LifetimeInv, system
<1>8. WindowsInv' /\ WebusbInv'
  BY <1>1, <1>2, <1>3 DEF IInv, WindowsInv, WebusbInv, TableMatches, ClaimsOf, Distinct, system, os
<1>9. MacInv'
  <2>1. Registered' = 0
    <3>1. device' = "closed"
      BY <1>1
    <3> QED BY ONLY <1>4, <3>1 DEF Registered
  <2>2. EventLoopRuns'
    BY <1>5, <2>1 DEF EventLoopRuns
  <2>3. count' = 0 /\ opened' = {}
    BY <1>1, <1>2, <1>4 DEF IInv, MacInv, os, mac
  <2> QED BY <1>3, <1>4, <2>2, <2>3 DEF MacInv, Distinct
<1> QED BY <1>6, <1>7, <1>8, <1>9 DEF IInv

\* MacDevice is dropped when it has no interfaces and no calls: its registration was the last.
LEMMA DropDeviceKeepsIInv ==
  ASSUME IInv, DropDevice
  PROVE  IInv'
<1>1. Existing = {} /\ Live = {} /\ Claiming = {} /\ Opening = {} /\ device = "let go" /\ device' = "closed"
  BY DEF DropDevice, DeviceReferenced, Existing, Live, Claiming, Opening
<1>2. UNCHANGED <<system, children, os, count, config, active, obj, pc, overlapped>>
  BY DEF DropDevice
<1>3. Existing' = {} /\ Live' = {} /\ Claiming' = {} /\ Opening' = {}
  BY <1>1, <1>2 DEF Existing, Live, Claiming, Opening
<1>4. platform = "macos" => sources = 1 /\ exclusive' = FALSE /\ sources' = 0 /\ ~loop'
  <2>1. Cardinality(Existing) = 0 /\ Cardinality(Claiming) = 0
    BY <1>1, FS_EmptySet
  <2> SUFFICES ASSUME platform = "macos" PROVE sources = 1 /\ exclusive' = FALSE /\ sources' = 0 /\ ~loop'
    OBVIOUS
  <2>2. sources = 1
    <3>1. sources = Registered
      BY DEF IInv, MacInv, EventLoopRuns
    <3>2. device # "closed"
      BY <1>1
    <3>3. Registered = 1
      BY ONLY <2>1, <3>2 DEF Registered
    <3> QED BY <3>1, <3>3
  <2>3. exclusive' = FALSE /\ sources' = sources - 1 /\ loop' = (sources # 1)
    BY DEF DropDevice, DropRegistration
  <2>4. ~loop'
    BY ONLY <2>2, <2>3, Zenon
  <2> QED BY <2>2, <2>3, <2>4
<1>5. platform # "macos" => UNCHANGED <<exclusive, events>>
  BY DEF DropDevice
<1>6. TypeOK'
  <2>1. exclusive' \in BOOLEAN /\ loop' \in BOOLEAN /\ sources' \in Nat
    <3>1. loop' \in BOOLEAN
      BY <1>5 DEF IInv, TypeOK, events, DropDevice, DropRegistration
    <3>2. exclusive' \in BOOLEAN
      BY <1>4, <1>5 DEF IInv, TypeOK
    <3>3. platform = "macos" => sources' = 0
      BY <1>4
    <3>4. platform # "macos" => sources' = sources
      BY <1>5 DEF events
    <3>5. sources \in Nat
      BY DEF IInv, TypeOK
    <3> QED BY <3>1, <3>2, <3>3, <3>4, <3>5
  <2> QED BY <1>1, <1>2, <2>1 DEF IInv, TypeOK, system, os
<1>7. PcInv'
  BY <1>2 DEF IInv, PcInv, system
<1>8. LifetimeInv'
  BY <1>2, <1>3 DEF DropDevice, DeviceReferenced, IInv, LifetimeInv
<1>9. WindowsInv' /\ WebusbInv'
  BY <1>1, <1>2, <1>3 DEF IInv, WindowsInv, WebusbInv, TableMatches, ClaimsOf, Distinct, system, os
<1>10. MacInv'
  <2>1. Cardinality(Existing') = 0 /\ Cardinality(Claiming') = 0
    BY <1>3, FS_EmptySet
  <2>2. Registered' = 0
    <3>1. device' = "closed"
      BY <1>1
    <3> QED BY ONLY <2>1, <3>1 DEF Registered
  <2>3. EventLoopRuns'
    BY <1>2, <1>4, <2>2 DEF EventLoopRuns, system
  <2>4. platform = "macos" => count' = 0 /\ opened' = {}
    BY <1>1, <1>2, FS_EmptySet DEF IInv, MacInv, os
  <2> QED BY <1>2, <1>3, <2>1, <2>3, <2>4 DEF MacInv, Distinct, system
<1> QED BY <1>6, <1>7, <1>8, <1>9, <1>10 DEF IInv

-----------------------------------------------------------------------------
(* Steps that claim and release                                            *)

\* The file that is opened for a claim is that of the function of the interface.
LEMMA FirstInterfaceKnown ==
  ASSUME IInv, NEW i \in Interfaces, HasDriver(i), Associated(i, FirstInterface(i))
  PROVE  /\ FirstInterface(i) \in Interfaces
         /\ \/ driver = "winusb" /\ FirstInterface(i) = 0
            \/ driver = "usbccgp" /\ FirstInterface(i) = Function[i]
<1>1. CASE driver = "winusb"
  BY <1>1, InterfacesAssumption DEF FirstInterface
<1>2. CASE driver = "usbccgp"
  <2>0. children \subseteq Nat /\ children \subseteq Interfaces
    BY InterfacesAssumption DEF IInv, TypeOK
  <2>1. Candidates(i) \subseteq Interfaces /\ Candidates(i) \subseteq 0..i
    <3>1. ASSUME NEW c \in Candidates(i)
          PROVE  c \in Interfaces /\ c \in 0..i
      <4>1. c \in children /\ c <= i
        BY DEF Candidates
      <4>2. c \in Nat /\ i \in Nat
        BY <2>0, <4>1, InterfacesAssumption
      <4> QED BY <2>0, <4>1, <4>2
    <3> QED BY <3>1
  <2>3. Candidates(i) # {}
    BY <1>2 DEF HasDriver
  <2>2. Max(Candidates(i)) \in Candidates(i)
    BY <2>1, <2>3, InterfacesAssumption, MaxInSet
  <2> QED BY <1>2, <2>1, <2>2 DEF FirstInterface, Associated
<1> QED BY <1>1, <1>2 DEF HasDriver

\* WindowsInterface: a claim is entered into the table once.
LEMMA ClaimWindowsKeepsIInv ==
  ASSUME IInv, NEW i \in Interfaces, ClaimWindows(i)
  PROVE  IInv'
<1> DEFINE first == FirstInterface(i)
<1>1. /\ platform = "windows" /\ device = "open"
      /\ ~AlreadyClaimed(i, first) /\ Associated(i, first) /\ HasDriver(i)
      /\ handles' = WithClaim(i, first)
      /\ opened' = IF i = first THEN opened ELSE opened \union {i}
      /\ UNCHANGED <<system, children, device, mac, events, pc, overlapped>>
  BY DEF ClaimWindows
<1>2. /\ first \in Interfaces
      /\ \/ driver = "winusb" /\ first = 0
         \/ driver = "usbccgp" /\ first = Function[i]
  BY <1>1, FirstInterfaceKnown
<1>3. PICK o \in Objects \ Existing :
        /\ obj' = [obj EXCEPT ![o] = [phase |-> "live", num |-> i, first |-> first, held |-> TRUE, ep |-> "none", alt |-> 0]]
        /\ Existing' = Existing \union {o} /\ Live' = Live \union {o}
  BY <1>2, NewObjectExists DEF ClaimWindows, IInv
<1> HIDE DEF first
<1>4. /\ obj'[o] = [phase |-> "live", num |-> i, first |-> first, held |-> TRUE, ep |-> "none", alt |-> 0]
      /\ \A x \in Objects \ {o} : obj'[x] = obj[x]
  BY <1>3 DEF IInv, TypeOK
<1>5. /\ obj'[o].num = i /\ obj'[o].first = first /\ obj'[o].phase = "live" /\ obj'[o].ep = "none"
      /\ obj'[o] \in Interface
  BY <1>2, <1>4, AltsAssumption DEF Interface, Phases
<1>6. \A x \in Existing : x \in Objects /\ x # o /\ obj'[x] = obj[x]
  BY <1>4 DEF Existing
<1>7. \A x \in Existing : obj[x].num # i
  BY <1>1, <1>2 DEF IInv, WindowsInv, TableMatches, ClaimsOf, AlreadyClaimed
<1>8. /\ DOMAIN handles' = DOMAIN handles \union {first}
      /\ \A k \in DOMAIN handles : k # first => handles'[k] = handles[k]
      /\ handles'[first] = ClaimsOf(first) \union {i}
  <2>1. Entry(first) = ClaimsOf(first)
    BY <1>1 DEF Entry, IInv, WindowsInv, TableMatches, ClaimsOf
  <2> QED BY <1>1, <2>1 DEF WithClaim
<1>9. \A k : ClaimsOf(k)' = IF k = first THEN ClaimsOf(k) \union {i} ELSE ClaimsOf(k)
  BY <1>3, <1>5, <1>6 DEF ClaimsOf
<1>10. TypeOK'
  <2>1. obj' \in [Objects -> Interface]
    BY <1>3, <1>4, <1>5 DEF IInv, TypeOK
  <2>2. DOMAIN handles' \subseteq Interfaces /\ \A k \in DOMAIN handles' : handles'[k] \subseteq Interfaces
    <3>1. ClaimsOf(first) \subseteq Interfaces
      BY DEF ClaimsOf, IInv, TypeOK, Existing, Interface
    <3> QED BY <1>2, <1>8, <3>1 DEF IInv, TypeOK
  <2>3. opened' \subseteq Interfaces
    BY <1>1 DEF IInv, TypeOK
  <2> QED BY <1>1, <2>1, <2>2, <2>3 DEF IInv, TypeOK, system, mac, events
<1>11. PcInv'
  BY <1>1, <1>3, <1>4 DEF IInv, PcInv, system
<1>12. LifetimeInv'
  BY <1>1, <1>4, <1>5 DEF IInv, LifetimeInv
<1>13. WindowsInv'
  <2>1. TableMatches'
    BY <1>8, <1>9 DEF IInv, WindowsInv, TableMatches
  <2>2. Distinct(Existing)'
    BY <1>1, <1>3, <1>5, <1>6, <1>7 DEF IInv, WindowsInv, Distinct
  <2>3. opened' = {obj'[x].num : x \in {y \in Live' : obj'[y].num # obj'[y].first}}
    <3>1. opened = {obj[x].num : x \in {y \in Live : obj[y].num # obj[y].first}}
      BY <1>1 DEF IInv, WindowsInv
    <3>2. Live \subseteq Existing
      BY DEF Live, Existing
    <3> QED BY <1>1, <1>3, <1>5, <1>6, <3>1, <3>2
  <2>4. \A x \in Existing' :
          /\ obj'[x].first \in DOMAIN handles'
          /\ \/ driver = "winusb" /\ obj'[x].first = 0
             \/ driver = "usbccgp" /\ obj'[x].first = Function[obj'[x].num]
    BY <1>1, <1>2, <1>3, <1>5, <1>6, <1>8 DEF IInv, WindowsInv
  <2> QED BY <1>1, <2>1, <2>2, <2>3, <2>4 DEF WindowsInv, system
<1>14. MacInv' /\ WebusbInv'
  BY <1>1 DEF MacInv, WebusbInv, system
<1> QED BY <1>10, <1>11, <1>12, <1>13, <1>14 DEF IInv

\* Drop of an interface starts: no endpoint and no call refers to it.
LEMMA ClosingKeeps ==
  ASSUME IInv, NEW o \in Live, ~Referenced(o), obj' = [obj EXCEPT ![o].phase = "closing"],
         UNCHANGED <<system, children, device, pc>>
  PROVE  /\ obj' \in [Objects -> Interface]
         /\ \A x \in Objects : /\ obj'[x].num = obj[x].num /\ obj'[x].first = obj[x].first
                               /\ obj'[x].ep = obj[x].ep /\ obj'[x].alt = obj[x].alt
         /\ Existing' = Existing /\ Live' = Live \ {o}
         /\ PcInv' /\ LifetimeInv'
<1>1. o \in Objects /\ obj[o].phase = "live" /\ obj[o] \in Interface
  BY DEF Live, IInv, TypeOK
<1>2. PICK n : n = [obj[o] EXCEPT !.phase = "closing"]
  OBVIOUS
<1>3. /\ n \in Interface /\ n.phase = "closing" /\ n.num = obj[o].num /\ n.first = obj[o].first
      /\ n.ep = obj[o].ep /\ n.alt = obj[o].alt /\ (n.held => obj[o].held)
  BY <1>1, <1>2, FieldsUpdated
<1>4. obj' = [obj EXCEPT ![o] = n]
  BY <1>2
<1>5. obj' \in [Objects -> Interface] /\ obj'[o] = n /\ \A x \in Objects \ {o} : obj'[x] = obj[x]
  BY <1>1, <1>3, <1>4 DEF IInv, TypeOK
<1>6. \A x \in Objects : /\ obj'[x].num = obj[x].num /\ obj'[x].first = obj[x].first
                         /\ obj'[x].ep = obj[x].ep /\ obj'[x].alt = obj[x].alt
  BY <1>3, <1>5
<1>7. Existing' = Existing /\ Live' = Live \ {o}
  BY <1>1, <1>3, <1>5 DEF Existing, Live
<1>8. ~n.held /\ n.ep = "none" /\ \A t \in Tasks : ~(pc[t].op = "alt" /\ pc[t].obj = o)
  BY <1>3 DEF Referenced
<1>9. PcInv'
  <2>1. \A t \in Tasks : pc[t].op = "alt" => pc[t].obj \in Objects
    BY DEF IInv, PcInv, Steps
  <2> QED BY <1>5, <1>8, <2>1 DEF IInv, PcInv, system
<1>10. LifetimeInv'
  BY <1>1, <1>3, <1>5, <1>7, <1>8 DEF IInv, LifetimeInv, system
<1> QED BY <1>5, <1>6, <1>7, <1>9, <1>10

\* Drop of an interface ends.
LEMMA RemovedKeeps ==
  ASSUME IInv, NEW o \in Objects, obj[o].phase = "closing", obj' = [obj EXCEPT ![o] = NoObject],
         UNCHANGED <<system, children, device, pc>>
  PROVE  /\ obj' \in [Objects -> Interface]
         /\ \A x \in Objects \ {o} : obj'[x] = obj[x]
         /\ o \in Existing \ Live /\ Existing' = Existing \ {o} /\ Live' = Live
         /\ Cardinality(Existing') = Cardinality(Existing) - 1
         /\ PcInv' /\ LifetimeInv'
<1>1. o \in Existing \ Live
  BY DEF Existing, Live
<1>2. NoObject \in Interface /\ NoObject.phase = "none" /\ ~NoObject.held /\ NoObject.ep = "none"
  BY InterfacesAssumption, AltsAssumption DEF NoObject, Interface, Phases
<1>3. obj' \in [Objects -> Interface] /\ obj'[o] = NoObject /\ \A x \in Objects \ {o} : obj'[x] = obj[x]
  BY <1>2 DEF IInv, TypeOK
<1>4. Existing' = Existing \ {o} /\ Live' = Live /\ Cardinality(Existing') = Cardinality(Existing) - 1
  <2>1. /\ Existing' = Existing \ {o} /\ Live' = Live \ {o}
        /\ Cardinality(Existing') = Cardinality(Existing) - 1
    BY <1>1, ObjectRemoved DEF IInv
  <2> QED BY <1>1, <2>1
<1>5. PcInv'
  <2>1. \A t \in Tasks : pc[t].op = "alt" => pc[t].obj \in Objects \ {o}
    BY DEF IInv, PcInv, Steps
  <2> QED BY <1>3, <2>1 DEF IInv, PcInv, system
<1>6. LifetimeInv'
  BY <1>2, <1>3, <1>4 DEF IInv, LifetimeInv, system
<1> QED BY <1>1, <1>3, <1>4, <1>5, <1>6

\* Drop for WindowsInterface: its own handle, ...
LEMMA FreeAssociatedKeepsIInv ==
  ASSUME IInv, NEW o \in Objects, FreeAssociated(o)
  PROVE  IInv'
<1>1. /\ platform = "windows" /\ o \in Live /\ ~Referenced(o)
      /\ opened' = opened \ {obj[o].num}
      /\ UNCHANGED <<system, children, device, handles, mac, events, pc, overlapped>>
  BY DEF FreeAssociated
<1>2. /\ obj' \in [Objects -> Interface]
      /\ \A x \in Objects : obj'[x].num = obj[x].num /\ obj'[x].first = obj[x].first
      /\ Existing' = Existing /\ Live' = Live \ {o} /\ PcInv' /\ LifetimeInv'
  BY <1>1, ClosingKeeps DEF FreeAssociated
<1>3. TypeOK'
  BY <1>1, <1>2 DEF IInv, TypeOK, system, mac, events
<1>4. WindowsInv'
  <2>1. Existing \subseteq Objects /\ Live \subseteq Existing
    BY DEF Existing, Live
  <2>2. TableMatches'
    <3>1. \A k : ClaimsOf(k)' = ClaimsOf(k)
      BY <1>2, <2>1 DEF ClaimsOf
    <3> QED BY <1>1, <3>1 DEF IInv, WindowsInv, TableMatches
  <2>3. Distinct(Existing)'
    BY <1>1, <1>2, <2>1 DEF IInv, WindowsInv, Distinct
  <2>4. opened' = {obj'[x].num : x \in {y \in Live' : obj'[y].num # obj'[y].first}}
    <3>1. opened = {obj[x].num : x \in {y \in Live : obj[y].num # obj[y].first}}
      BY <1>1 DEF IInv, WindowsInv
    <3>2. \A x \in Live \ {o} : obj[x].num # obj[o].num
      BY <1>1, <2>1 DEF IInv, WindowsInv, Distinct
    <3> QED BY <1>1, <1>2, <2>1, <3>1, <3>2
  <2>5. \A x \in Existing' :
          /\ obj'[x].first \in DOMAIN handles'
          /\ \/ driver = "winusb" /\ obj'[x].first = 0
             \/ driver = "usbccgp" /\ obj'[x].first = Function[obj'[x].num]
    BY <1>1, <1>2, <2>1 DEF IInv, WindowsInv
  <2> QED BY <1>1, <2>2, <2>3, <2>4, <2>5 DEF WindowsInv, system
<1>5. MacInv' /\ WebusbInv'
  BY <1>1 DEF MacInv, WebusbInv, system
<1> QED BY <1>2, <1>3, <1>4, <1>5 DEF IInv

\* ... its entry, and the file if no other interface needs it.
LEMMA ReleaseWindowsKeepsIInv ==
  ASSUME IInv, NEW o \in Objects, ReleaseWindows(o)
  PROVE  IInv'
<1> DEFINE first == obj[o].first
<1>1. /\ platform = "windows" /\ obj[o].phase = "closing"
      /\ handles' = IF IsLast(o) THEN CloseFile(first) ELSE [handles EXCEPT ![first] = ClearClaim(o)]
      /\ obj' = [obj EXCEPT ![o] = NoObject]
      /\ UNCHANGED <<system, children, device, opened, mac, events, pc, overlapped>>
  BY DEF ReleaseWindows
<1>2. /\ obj' \in [Objects -> Interface] /\ \A x \in Objects \ {o} : obj'[x] = obj[x]
      /\ o \in Existing \ Live /\ Existing' = Existing \ {o} /\ Live' = Live /\ PcInv' /\ LifetimeInv'
  BY <1>1, RemovedKeeps
<1>3. Existing \subseteq Objects /\ Live \subseteq Existing
  BY DEF Existing, Live
<1>4. first \in DOMAIN handles
  BY <1>1, <1>2 DEF IInv, WindowsInv
<1> HIDE DEF first
<1>5. \A k : ClaimsOf(k)' = IF k = first THEN ClaimsOf(k) \ {obj[o].num} ELSE ClaimsOf(k)
  BY <1>1, <1>2, <1>3 DEF ClaimsOf, IInv, WindowsInv, Distinct, first
<1>6. ClearClaim(o) = ClaimsOf(first) \ {obj[o].num}
  BY <1>4 DEF ClearClaim, first, IInv, WindowsInv, TableMatches
<1>7. /\ DOMAIN handles' = IF ClearClaim(o) = {} THEN DOMAIN handles \ {first} ELSE DOMAIN handles
      /\ \A k \in DOMAIN handles' : handles'[k] = IF k = first THEN ClearClaim(o) ELSE handles[k]
  BY <1>1, <1>4 DEF IsLast, CloseFile, Restrict
<1>8. TypeOK'
  <2>1. DOMAIN handles' \subseteq Interfaces /\ \A k \in DOMAIN handles' : handles'[k] \subseteq Interfaces
    <3>1. ClearClaim(o) \subseteq Interfaces
      BY <1>4 DEF ClearClaim, first, IInv, TypeOK
    <3> QED BY <1>7, <3>1 DEF IInv, TypeOK
  <2> QED BY <1>1, <1>2, <2>1 DEF IInv, TypeOK, system, mac, events
<1>9. WindowsInv'
  <2>1. TableMatches'
    BY <1>5, <1>6, <1>7 DEF IInv, WindowsInv, TableMatches
  <2>2. Distinct(Existing)'
    BY <1>1, <1>2, <1>3 DEF IInv, WindowsInv, Distinct
  <2>3. opened' = {obj'[x].num : x \in {y \in Live' : obj'[y].num # obj'[y].first}}
    BY <1>1, <1>2, <1>3 DEF IInv, WindowsInv
  <2>4. ASSUME NEW x \in Existing'
        PROVE  /\ obj'[x].first \in DOMAIN handles'
               /\ \/ driver = "winusb" /\ obj'[x].first = 0
                  \/ driver = "usbccgp" /\ obj'[x].first = Function[obj'[x].num]
    <3>1. x \in Existing /\ x # o /\ obj'[x] = obj[x]
      BY <1>2, <1>3, <2>4
    <3>2. obj[x].first \in DOMAIN handles
      BY <1>1, <3>1 DEF IInv, WindowsInv
    <3>3. obj[x].first = first => ClearClaim(o) # {}
      BY <1>1, <1>2, <1>6, <3>1 DEF ClaimsOf, IInv, WindowsInv, Distinct
    <3> QED BY <1>1, <1>7, <3>1, <3>2, <3>3 DEF IInv, WindowsInv
  <2> QED BY <1>1, <2>1, <2>2, <2>3, <2>4 DEF WindowsInv, system
<1>10. MacInv' /\ WebusbInv'
  BY <1>1 DEF MacInv, WebusbInv, system
<1> QED BY <1>2, <1>8, <1>9, <1>10 DEF IInv

\* A claim of a task goes through: its interface object is created.
LEMMA CreatedKeeps ==
  ASSUME IInv, NEW t \in Tasks, pc[t].op \in {"opened", "claim"}, Free # {},
         NewObject(pc[t].num, 0), pc' = [pc EXCEPT ![t] = Idle],
         UNCHANGED <<system, children, device>>
  PROVE  \E o \in Objects \ Existing :
           /\ obj' \in [Objects -> Interface]
           /\ \A x \in Objects \ {o} : obj'[x] = obj[x]
           /\ obj'[o].num = pc[t].num /\ obj'[o].ep = "none" /\ obj'[o].alt = 0
           /\ Existing' = Existing \union {o} /\ Live' = Live \union {o}
           /\ Cardinality(Existing') = Cardinality(Existing) + 1
           /\ \A u \in Tasks : pc'[u] = IF u = t THEN Idle ELSE pc[u]
           /\ PcInv' /\ LifetimeInv'
           /\ \A u \in Tasks : pc'[u].op \in {"idle", "registered", "opened", "config", "store", "reset", "claim", "alt"}
<1>1. pc[t].num \in Interfaces
  BY DEF IInv, PcInv, Steps
<1>2. PICK o \in Objects \ Existing :
        /\ obj' = [obj EXCEPT ![o] = [phase |-> "live", num |-> pc[t].num, first |-> 0, held |-> TRUE, ep |-> "none", alt |-> 0]]
        /\ Existing' = Existing \union {o} /\ Live' = Live \union {o}
        /\ Cardinality(Existing') = Cardinality(Existing) + 1
  BY <1>1, InterfacesAssumption, NewObjectExists DEF IInv
<1>3. /\ obj'[o] = [phase |-> "live", num |-> pc[t].num, first |-> 0, held |-> TRUE, ep |-> "none", alt |-> 0]
      /\ \A x \in Objects \ {o} : obj'[x] = obj[x]
  BY <1>2 DEF IInv, TypeOK
<1>4. /\ obj'[o].num = pc[t].num /\ obj'[o].phase = "live" /\ obj'[o].ep = "none" /\ obj'[o].alt = 0
      /\ obj'[o] \in Interface
  BY <1>1, <1>3, InterfacesAssumption, AltsAssumption DEF Interface, Phases
<1>5. obj' \in [Objects -> Interface]
  BY <1>2, <1>3, <1>4 DEF IInv, TypeOK
<1>6. \A u \in Tasks : pc'[u] = IF u = t THEN Idle ELSE pc[u]
  BY DEF IInv, PcInv
<1>7. Idle \in Steps /\ Idle.op = "idle"
  BY DEF Idle, Steps
<1>8. PcInv'
  <2>1. \A u \in Tasks : pc[u].op = "alt" => pc[u].obj \in Objects
    BY DEF IInv, PcInv, Steps
  <2>2. pc' \in [Tasks -> Steps]
    BY <1>7 DEF IInv, PcInv
  <2>3. \A u \in Tasks : pc[u].op = "alt" => obj'[pc[u].obj].phase = "live"
    BY <1>3, <1>4, <2>1 DEF IInv, PcInv
  <2> QED BY <1>6, <1>7, <2>2, <2>3 DEF IInv, PcInv, system
<1>9. LifetimeInv'
  <2>1. device' # "closed"
    BY DEF IInv, LifetimeInv
  <2> QED BY <1>3, <1>4, <2>1 DEF IInv, LifetimeInv
<1>10. \A u \in Tasks : pc'[u].op \in {"idle", "registered", "opened", "config", "store", "reset", "claim", "alt"}
  BY <1>6, <1>7 DEF IInv, TypeOK
<1> QED BY <1>2, <1>3, <1>4, <1>5, <1>6, <1>8, <1>9, <1>10

\* WebUSB: the promise of claim_interface resolves.
LEMMA ClaimedWebusbKeepsIInv ==
  ASSUME IInv, NEW t \in Tasks, ClaimedWebusb(t)
  PROVE  IInv'
<1>1. /\ pc[t].op = "claim" /\ platform = "webusb"
      /\ overlapped' = (overlapped \/ pc[t].num \in opened)
      /\ opened' = opened \union {pc[t].num}
      /\ UNCHANGED <<system, children, device, handles, mac, events>>
  BY DEF ClaimedWebusb, IInv, PcInv
<1>2. pc[t].num \in Interfaces
  BY <1>1 DEF IInv, PcInv, Steps
<1>3. PICK o \in Objects \ Existing :
        /\ obj' \in [Objects -> Interface]
        /\ \A x \in Objects \ {o} : obj'[x] = obj[x]
        /\ obj'[o].num = pc[t].num
        /\ Existing' = Existing \union {o} /\ PcInv' /\ LifetimeInv'
        /\ \A u \in Tasks : pc'[u].op \in {"idle", "registered", "opened", "config", "store", "reset", "claim", "alt"}
  BY <1>1, CreatedKeeps DEF ClaimedWebusb
<1>4. \A x \in Existing : x # o /\ obj'[x] = obj[x]
  BY <1>3 DEF Existing
<1>5. TypeOK'
  <2>1. overlapped' \in BOOLEAN
    BY <1>1
  <2>2. opened' \subseteq Interfaces
    BY <1>1, <1>2 DEF IInv, TypeOK
  <2> QED BY <1>1, <1>3, <2>1, <2>2 DEF IInv, TypeOK, system, mac, events
<1>6. WindowsInv' /\ MacInv'
  BY <1>1 DEF IInv, WindowsInv, TableMatches, MacInv, system
<1>7. WebusbInv'
  <2>1. opened' \subseteq {obj'[x].num : x \in Existing'}
    BY <1>1, <1>3, <1>4 DEF IInv, WebusbInv
  <2>2. ASSUME ~overlapped'
        PROVE  Distinct(Existing)' /\ \A x \in Existing' : obj'[x].num \in opened'
    <3>1. ~overlapped /\ pc[t].num \notin opened
      BY <1>1, <2>2
    <3>2. Distinct(Existing) /\ \A x \in Existing : obj[x].num \in opened
      BY <1>1, <3>1 DEF IInv, WebusbInv
    <3> QED BY <1>1, <1>3, <1>4, <3>1, <3>2 DEF Distinct
  <2> QED BY <2>1, <2>2 DEF WebusbInv
<1> QED BY <1>3, <1>5, <1>6, <1>7 DEF IInv

\* WebUSB: release_interface is called, ...
LEMMA DropWebusbKeepsIInv ==
  ASSUME IInv, NEW o \in Objects, DropWebusb(o)
  PROVE  IInv'
<1>1. /\ platform = "webusb" /\ o \in Live /\ ~Referenced(o)
      /\ UNCHANGED <<system, children, device, os, mac, events, pc, overlapped>>
  BY DEF DropWebusb
<1>2. /\ obj' \in [Objects -> Interface] /\ \A x \in Objects : obj'[x].num = obj[x].num
      /\ Existing' = Existing /\ PcInv' /\ LifetimeInv'
  BY <1>1, ClosingKeeps DEF DropWebusb
<1>3. TypeOK'
  BY <1>1, <1>2 DEF IInv, TypeOK, system, os, mac, events
<1>4. WindowsInv' /\ MacInv'
  BY <1>1 DEF IInv, WindowsInv, TableMatches, MacInv, system, os
<1>5. WebusbInv'
  BY <1>1, <1>2 DEF IInv, WebusbInv, Distinct, Existing, system, os
<1> QED BY <1>2, <1>3, <1>4, <1>5 DEF IInv

\* ... and takes effect.
LEMMA ReleasedWebusbKeepsIInv ==
  ASSUME IInv, NEW o \in Objects, ReleasedWebusb(o)
  PROVE  IInv'
<1>1. /\ platform = "webusb" /\ obj[o].phase = "closing"
      /\ opened' = opened \ {obj[o].num} /\ obj' = [obj EXCEPT ![o] = NoObject]
      /\ UNCHANGED <<system, children, device, handles, mac, events, pc, overlapped>>
  BY DEF ReleasedWebusb
<1>2. /\ obj' \in [Objects -> Interface] /\ \A x \in Objects \ {o} : obj'[x] = obj[x]
      /\ o \in Existing /\ Existing' = Existing \ {o} /\ PcInv' /\ LifetimeInv'
  BY <1>1, RemovedKeeps
<1>3. Existing \subseteq Objects
  BY DEF Existing
<1>4. TypeOK'
  BY <1>1, <1>2 DEF IInv, TypeOK, system, mac, events
<1>5. WindowsInv' /\ MacInv'
  BY <1>1 DEF IInv, WindowsInv, TableMatches, MacInv, system
<1>6. WebusbInv'
  BY <1>1, <1>2, <1>3 DEF IInv, WebusbInv, Distinct, system
<1> QED BY <1>2, <1>4, <1>5, <1>6 DEF IInv

\* EVENT_LOOP counts one registration more ...
LEMMA SourceAdded ==
  ASSUME EventLoopRuns, sources \in Nat, platform = "macos", AddEventSource
  PROVE  loop' /\ sources' = Registered + 1
<1>1. sources = Registered /\ (loop <=> sources > 0)
  BY DEF EventLoopRuns
<1>2. sources' = IF loop THEN sources + 1 ELSE 1
  BY DEF AddEventSource
<1>3. sources' = sources + 1
  BY <1>1, <1>2
<1> QED BY <1>1, <1>3 DEF AddEventSource

\* ... and one less, and stops with the last.
LEMMA SourceDropped ==
  ASSUME EventLoopRuns, sources \in Nat, platform = "macos", DropRegistration
  PROVE  sources' = Registered - 1 /\ (sources' \in Nat => (loop' <=> sources' > 0))
<1>1. sources = Registered
  BY DEF EventLoopRuns
<1>2. sources' = sources - 1 /\ loop' = (sources # 1)
  BY DEF DropRegistration
<1>3. sources' \in Nat => ((sources # 1) <=> (sources' > 0))
  BY <1>2
<1> QED BY <1>1, <1>2, <1>3

\* macOS: a claim registers with the event loop, ...
LEMMA RegisterMacKeepsIInv ==
  ASSUME IInv, NEW t \in Tasks, NEW i \in Few, RegisterMac(t, i)
  PROVE  IInv'
<1>1. /\ platform = "macos" /\ device = "open" /\ pc[t].op = "idle"
      /\ UNCHANGED <<system, children, device, os, mac, obj, overlapped>> /\ AddEventSource
  BY DEF RegisterMac, Idle
<1>2. PICK s \in Steps : s = [op |-> "registered", num |-> i]
  BY InterfacesAssumption DEF Steps
<1>3. s.op = "registered" /\ pc' = [pc EXCEPT ![t] = s]
  BY <1>2 DEF RegisterMac
<1>4. pc' \in [Tasks -> Steps] /\ \A u \in Tasks : pc'[u] = IF u = t THEN s ELSE pc[u]
  BY <1>3 DEF IInv, PcInv
<1>5. Existing' = Existing /\ Live' = Live
  BY <1>1 DEF Existing, Live
<1>6. Opening' = Opening /\ t \notin Claiming /\ Claiming' = Claiming \union {t} /\ t \notin Opening
  BY <1>1, <1>3, <1>4 DEF Opening, Claiming
<1>7. loop' /\ sources' = Registered + 1
  BY <1>1, SourceAdded DEF IInv, MacInv, TypeOK
<1>8. Registered' = Registered + 1
  <2>1. Cardinality(Claiming') = Cardinality(Claiming) + 1
    BY <1>6, ClaimingFinite, FS_AddElement
  <2>2. device' = device /\ Cardinality(Existing') = Cardinality(Existing)
    BY <1>1, <1>5
  <2>3. Cardinality(Existing) \in Nat /\ Cardinality(Claiming) \in Nat
    BY ClaimingFinite, ExistingFinite, BoundsAssumption DEF IInv
  <2> QED BY ONLY <2>1, <2>2, <2>3 DEF Registered
<1>9. Registered \in Nat
  BY ClaimingFinite, ExistingFinite, BoundsAssumption DEF IInv, Registered
<1>10. TypeOK'
  <2>1. \A u \in Tasks : pc'[u].op \in {"idle", "registered", "opened", "config", "store", "reset", "claim", "alt"}
    BY <1>3, <1>4 DEF IInv, TypeOK
  <2>2. loop' \in BOOLEAN
    BY <1>1 DEF AddEventSource
  <2>3. sources' \in Nat
    BY <1>7, <1>9
  <2> QED BY <1>1, <2>1, <2>2, <2>3 DEF IInv, TypeOK, system, os, mac
<1>11. PcInv'
  BY <1>1, <1>3, <1>4 DEF IInv, PcInv, system
<1>12. LifetimeInv'
  BY <1>1, <1>5 DEF IInv, LifetimeInv
<1>13. WindowsInv' /\ WebusbInv'
  BY <1>1 DEF IInv, WindowsInv, TableMatches, WebusbInv, system, os
<1>14. MacInv'
  <2>1. EventLoopRuns'
    BY <1>7, <1>8, <1>9 DEF EventLoopRuns
  <2> QED BY <1>1, <1>4, <1>5, <1>6, <2>1 DEF IInv, MacInv, Distinct, os, mac, Opening
<1> QED BY <1>10, <1>11, <1>12, <1>13, <1>14 DEF IInv

\* ... opens the interface, or gives the registration back, ...
LEMMA InterfaceOpenKeepsIInv ==
  ASSUME IInv, NEW t \in Tasks, InterfaceOpen(t)
  PROVE  IInv'
<1>1. /\ pc[t].op = "registered" /\ pc[t] \in Steps /\ platform = "macos" /\ device # "closed"
      /\ UNCHANGED <<system, children, device, handles, mac, obj, overlapped>>
  BY DEF InterfaceOpen, IInv, PcInv, LifetimeInv
<1>2. Existing' = Existing /\ Live' = Live
  BY <1>1 DEF Existing, Live
<1>3. t \in Claiming /\ t \notin Opening /\ Claiming \subseteq Tasks
  BY <1>1 DEF Claiming, Opening
<1>4. CASE pc[t].num \notin opened
  <2>1. /\ opened' = opened \union {pc[t].num} /\ UNCHANGED events
        /\ pc' = [pc EXCEPT ![t] = [pc[t] EXCEPT !.op = "opened"]]
    BY <1>4 DEF InterfaceOpen
  <2>2. PICK s : s = [pc[t] EXCEPT !.op = "opened"]
    OBVIOUS
  <2>3. s \in Steps /\ s.op = "opened" /\ s.num = pc[t].num /\ pc[t].num \in Interfaces
    <3>1. s \in Steps /\ s.op = "opened" /\ s.num = pc[t].num
      BY <1>1, <2>2, StepsUpdated
    <3>2. pc[t].num \in Interfaces
      BY <1>1 DEF Steps
    <3> QED BY <3>1, <3>2
  <2>4. pc' \in [Tasks -> Steps] /\ \A u \in Tasks : pc'[u] = IF u = t THEN s ELSE pc[u]
    BY <2>1, <2>2, <2>3 DEF IInv, PcInv
  <2>5. Opening' = Opening \union {t} /\ Claiming' = Claiming
    BY <1>1, <2>3, <2>4 DEF Opening, Claiming
  <2>6. TypeOK'
    <3>1. \A u \in Tasks : pc'[u].op \in {"idle", "registered", "opened", "config", "store", "reset", "claim", "alt"}
      BY <2>3, <2>4 DEF IInv, TypeOK
    <3>2. opened' \subseteq Interfaces
      BY <2>1, <2>3 DEF IInv, TypeOK
    <3> QED BY <1>1, <2>1, <3>1, <3>2 DEF IInv, TypeOK, system, mac, events
  <2>7. PcInv'
    BY <1>1, <2>3, <2>4 DEF IInv, PcInv, system
  <2>8. LifetimeInv'
    BY <1>1, <1>2 DEF IInv, LifetimeInv
  <2>9. WindowsInv' /\ WebusbInv'
    BY <1>1 DEF IInv, WindowsInv, TableMatches, WebusbInv, system
  <2>10. MacInv'
    <3>1. EventLoopRuns'
      <4>1. Registered' = Registered
        BY <1>1, <1>2, <2>5 DEF Registered
      <4> QED BY <1>1, <2>1, <4>1 DEF IInv, MacInv, EventLoopRuns, events
    <3>2. \A u \in Opening : u \in Tasks /\ u # t /\ pc'[u] = pc[u]
      BY <1>3, <2>4 DEF Opening
    <3>3. pc'[t].num = pc[t].num
      BY <2>3, <2>4
    <3>4. opened' = {obj'[x].num : x \in Live'} \union {pc'[u].num : u \in Opening'}
      BY <1>1, <1>2, <2>1, <2>5, <3>2, <3>3 DEF IInv, MacInv
    <3>5. /\ \A u \in Opening' : \A x \in Live' : pc'[u].num # obj'[x].num
          /\ \A u, v \in Opening' : pc'[u].num = pc'[v].num => u = v
      BY <1>1, <1>2, <1>4, <2>5, <3>2, <3>3 DEF IInv, MacInv
    <3> QED BY <1>1, <1>2, <3>1, <3>4, <3>5 DEF IInv, MacInv, Distinct, mac
  <2> QED BY <2>6, <2>7, <2>8, <2>9, <2>10 DEF IInv
<1>5. CASE pc[t].num \in opened
  <2>1. UNCHANGED opened /\ DropRegistration /\ pc' = [pc EXCEPT ![t] = Idle]
    BY <1>5 DEF InterfaceOpen
  <2>2. Idle \in Steps /\ Idle.op = "idle"
    BY DEF Idle, Steps
  <2>3. pc' \in [Tasks -> Steps] /\ \A u \in Tasks : pc'[u] = IF u = t THEN Idle ELSE pc[u]
    BY <2>1, <2>2 DEF IInv, PcInv
  <2>4. Opening' = Opening /\ Claiming' = Claiming \ {t}
    BY <1>1, <2>2, <2>3 DEF Opening, Claiming
  <2>5. sources' = Registered - 1 /\ (sources' \in Nat => (loop' <=> sources' > 0))
    BY <1>1, <2>1, SourceDropped DEF IInv, MacInv, TypeOK
  <2>6. Registered' = Registered - 1 /\ Registered' \in Nat
    <3>1. Cardinality(Claiming') = Cardinality(Claiming) - 1 /\ Cardinality(Claiming') \in Nat
      BY <1>3, <2>4, ClaimingFinite, FS_RemoveElement, FS_CardinalityType
    <3>2. device' = device /\ Cardinality(Existing') = Cardinality(Existing)
      BY <1>1, <1>2
    <3>3. Cardinality(Existing) \in Nat /\ Cardinality(Claiming) \in Nat
      BY ClaimingFinite, ExistingFinite, BoundsAssumption DEF IInv
    <3> QED BY ONLY <3>1, <3>2, <3>3 DEF Registered
  <2>7. TypeOK'
    <3>1. \A u \in Tasks : pc'[u].op \in {"idle", "registered", "opened", "config", "store", "reset", "claim", "alt"}
      BY <2>2, <2>3 DEF IInv, TypeOK
    <3>2. loop' \in BOOLEAN
      BY <2>1 DEF DropRegistration
    <3>3. sources' \in Nat
      BY <2>5, <2>6
    <3> QED BY <1>1, <2>1, <3>1, <3>2, <3>3 DEF IInv, TypeOK, system, mac
  <2>8. PcInv'
    BY <1>1, <2>2, <2>3 DEF IInv, PcInv, system
  <2>9. LifetimeInv'
    BY <1>1, <1>2 DEF IInv, LifetimeInv
  <2>10. WindowsInv' /\ WebusbInv'
    BY <1>1 DEF IInv, WindowsInv, TableMatches, WebusbInv, system
  <2>11. MacInv'
    <3>1. EventLoopRuns'
      <4>1. sources' = Registered' /\ sources' \in Nat
        BY <2>5, <2>6
      <4>2. loop' <=> sources' > 0
        BY <2>5, <4>1
      <4> QED BY <4>1, <4>2 DEF EventLoopRuns
    <3>2. \A u \in Opening : u \in Tasks /\ u # t /\ pc'[u] = pc[u]
      BY <1>3, <2>3 DEF Opening
    <3> QED BY <1>1, <1>2, <2>1, <2>4, <3>1, <3>2 DEF IInv, MacInv, Distinct, mac
  <2> QED BY <2>7, <2>8, <2>9, <2>10, <2>11 DEF IInv
<1> QED BY <1>4, <1>5

\* ... and hands it to an object.
LEMMA CountClaimKeepsIInv ==
  ASSUME IInv, NEW t \in Tasks, CountClaim(t)
  PROVE  IInv'
<1>1. /\ pc[t].op = "opened" /\ platform = "macos" /\ device # "closed" /\ count' = count + 1
      /\ UNCHANGED <<system, children, device, os, exclusive, config, active, events, overlapped>>
  BY DEF CountClaim, IInv, PcInv, LifetimeInv
<1>2. PICK o \in Objects \ Existing :
        /\ obj' \in [Objects -> Interface]
        /\ \A x \in Objects \ {o} : obj'[x] = obj[x]
        /\ obj'[o].num = pc[t].num
        /\ Existing' = Existing \union {o} /\ Live' = Live \union {o}
        /\ Cardinality(Existing') = Cardinality(Existing) + 1
        /\ \A u \in Tasks : pc'[u] = IF u = t THEN Idle ELSE pc[u]
        /\ PcInv' /\ LifetimeInv'
        /\ \A u \in Tasks : pc'[u].op \in {"idle", "registered", "opened", "config", "store", "reset", "claim", "alt"}
  BY <1>1, CreatedKeeps DEF CountClaim
<1>3. \A x \in Live : x # o /\ obj'[x] = obj[x]
  BY <1>2 DEF Existing, Live
<1>4. t \in Claiming /\ Opening' = Opening \ {t} /\ Claiming' = Claiming \ {t} /\ t \in Opening /\ Opening \subseteq Tasks
  BY <1>1, <1>2 DEF Opening, Claiming, Idle
<1>5. count = Cardinality(Existing) /\ Cardinality(Existing) \in Nat
  BY <1>1, ExistingFinite, BoundsAssumption DEF IInv, MacInv
<1>6. TypeOK'
  <2>1. count' \in 0..MaxObjects
    <3>1. Cardinality(Objects) = MaxObjects /\ IsFiniteSet(Objects)
      BY FS_Interval, BoundsAssumption DEF Objects
    <3>2. Existing' \subseteq Objects
      BY <1>2 DEF Existing
    <3>3. Cardinality(Existing') <= MaxObjects
      BY <3>1, <3>2, FS_Subset
    <3> QED BY <1>1, <1>2, <1>5, <3>3, BoundsAssumption
  <2> QED BY <1>1, <1>2, <2>1 DEF IInv, TypeOK, system, os, events
<1>7. WindowsInv' /\ WebusbInv'
  BY <1>1 DEF IInv, WindowsInv, TableMatches, WebusbInv, system, os
<1>8. MacInv'
  <2>1. EventLoopRuns'
    <3>1. Cardinality(Claiming') = Cardinality(Claiming) - 1 /\ Cardinality(Claiming) \in Nat
      BY <1>4, ClaimingFinite, FS_RemoveElement
    <3>2. device' = device /\ Cardinality(Existing') = Cardinality(Existing) + 1
      BY <1>1, <1>2
    <3>3. Registered' = Registered
      BY ONLY <1>5, <3>1, <3>2 DEF Registered
    <3> QED BY <1>1, <3>3 DEF IInv, MacInv, EventLoopRuns, events
  <2>2. opened' = {obj'[x].num : x \in Live'} \union {pc'[u].num : u \in Opening'}
    <3>1. opened = {obj[x].num : x \in Live} \union {pc[u].num : u \in Opening}
      BY <1>1 DEF IInv, MacInv
    <3>2. \A u \in Opening' : pc'[u] = pc[u]
      BY <1>2, <1>4
    <3>3. {pc'[u].num : u \in Opening'} \union {pc[t].num} = {pc[u].num : u \in Opening}
      BY <1>4, <3>2
    <3>4. {obj'[x].num : x \in Live'} = {obj[x].num : x \in Live} \union {pc[t].num}
      BY <1>2, <1>3
    <3>5. opened' = opened
      BY <1>1 DEF os
    <3> QED BY <3>1, <3>3, <3>4, <3>5
  <2>3. Distinct(Live)'
    BY <1>1, <1>2, <1>3, <1>4 DEF IInv, MacInv, Distinct
  <2>4. /\ \A u \in Opening' : \A x \in Live' : pc'[u].num # obj'[x].num
        /\ \A u, v \in Opening' : pc'[u].num = pc'[v].num => u = v
    BY <1>1, <1>2, <1>3, <1>4 DEF IInv, MacInv
  <2> QED BY <1>1, <1>2, <1>5, <2>1, <2>2, <2>3, <2>4 DEF MacInv
<1> QED BY <1>2, <1>6, <1>7, <1>8 DEF IInv

\* Drop for MacInterface: USBInterfaceClose, ...
LEMMA CloseMacKeepsIInv ==
  ASSUME IInv, NEW o \in Objects, CloseMac(o)
  PROVE  IInv'
<1>1. /\ platform = "macos" /\ o \in Live /\ ~Referenced(o)
      /\ opened' = opened \ {obj[o].num}
      /\ UNCHANGED <<system, children, device, handles, mac, events, pc, overlapped>>
  BY DEF CloseMac
<1>2. /\ obj' \in [Objects -> Interface] /\ \A x \in Objects : obj'[x].num = obj[x].num
      /\ Existing' = Existing /\ Live' = Live \ {o} /\ PcInv' /\ LifetimeInv'
  BY <1>1, ClosingKeeps DEF CloseMac
<1>3. TypeOK'
  BY <1>1, <1>2 DEF IInv, TypeOK, system, mac, events
<1>4. WindowsInv' /\ WebusbInv'
  BY <1>1 DEF IInv, WindowsInv, TableMatches, WebusbInv, system
<1>5. Claiming' = Claiming /\ Opening' = Opening /\ Live \subseteq Objects
  BY <1>1 DEF Claiming, Opening, Live
<1>6. MacInv'
  <2>1. EventLoopRuns'
    <3>1. Registered' = Registered
      BY <1>1, <1>2, <1>5 DEF Registered
    <3> QED BY <1>1, <3>1 DEF IInv, MacInv, EventLoopRuns, events
  <2>2. opened' = {obj'[x].num : x \in Live'} \union {pc'[u].num : u \in Opening'}
    <3>1. opened = {obj[x].num : x \in Live} \union {pc[u].num : u \in Opening}
      BY <1>1 DEF IInv, MacInv
    <3>2. {obj'[x].num : x \in Live'} = {obj[x].num : x \in Live} \ {obj[o].num}
      BY <1>1, <1>2, <1>5 DEF IInv, MacInv, Distinct
    <3>3. {pc'[u].num : u \in Opening'} = {pc[u].num : u \in Opening}
      BY <1>1, <1>5
    <3>4. obj[o].num \notin {pc[u].num : u \in Opening}
      BY <1>1 DEF IInv, MacInv
    <3> QED BY <1>1, <3>1, <3>2, <3>3, <3>4
  <2> QED BY <1>1, <1>2, <1>5, <2>1, <2>2 DEF IInv, MacInv, Distinct, mac
<1> QED BY <1>2, <1>3, <1>4, <1>6 DEF IInv

\* ... the counter and the registration.
LEMMA ReleaseMacKeepsIInv ==
  ASSUME IInv, NEW o \in Objects, ReleaseMac(o)
  PROVE  IInv'
<1>1. /\ platform = "macos" /\ obj[o].phase = "closing" /\ count' = count - 1 /\ DropRegistration
      /\ obj' = [obj EXCEPT ![o] = NoObject]
      /\ UNCHANGED <<system, children, device, os, exclusive, config, active, pc, overlapped>>
  BY DEF ReleaseMac
<1>2. /\ obj' \in [Objects -> Interface] /\ \A x \in Objects \ {o} : obj'[x] = obj[x]
      /\ o \in Existing \ Live /\ Existing' = Existing \ {o} /\ Live' = Live
      /\ Cardinality(Existing') = Cardinality(Existing) - 1 /\ PcInv' /\ LifetimeInv'
  BY <1>1, RemovedKeeps
<1>3. count = Cardinality(Existing) /\ count \in 0..MaxObjects
  BY <1>1 DEF IInv, MacInv, TypeOK
<1>4. Cardinality(Existing') \in Nat
  BY <1>2, ExistingFinite, FS_RemoveElement, FS_CardinalityType DEF IInv
<1>5. Claiming' = Claiming /\ Opening' = Opening /\ Live \subseteq Objects \ {o}
  BY <1>1, <1>2 DEF Claiming, Opening, Live
<1>6. sources' = Registered - 1 /\ (sources' \in Nat => (loop' <=> sources' > 0))
  BY <1>1, SourceDropped DEF IInv, MacInv, TypeOK
<1>7. Registered' = Registered - 1 /\ Registered' \in Nat
  <2>1. device' = device /\ Cardinality(Claiming') = Cardinality(Claiming) /\ Cardinality(Claiming) \in Nat
    BY <1>1, <1>5, ClaimingFinite
  <2>2. Cardinality(Existing) \in Nat
    BY ExistingFinite, BoundsAssumption DEF IInv
  <2>3. Cardinality(Existing') = Cardinality(Existing) - 1
    BY <1>2
  <2> QED BY ONLY <1>4, <2>1, <2>2, <2>3 DEF Registered
<1>8. TypeOK'
  <2>1. count' \in 0..MaxObjects
    BY <1>1, <1>2, <1>3, <1>4, BoundsAssumption
  <2>2. loop' \in BOOLEAN
    BY <1>1 DEF DropRegistration
  <2>3. sources' \in Nat
    BY <1>6, <1>7
  <2> QED BY <1>1, <1>2, <2>1, <2>2, <2>3 DEF IInv, TypeOK, system, os
<1>9. WindowsInv' /\ WebusbInv'
  BY <1>1 DEF IInv, WindowsInv, TableMatches, WebusbInv, system, os
<1>10. MacInv'
  <2>1. EventLoopRuns'
    <3>1. sources' = Registered' /\ sources' \in Nat
      BY <1>6, <1>7
    <3>2. loop' <=> sources' > 0
      BY <1>6, <3>1
    <3> QED BY <3>1, <3>2 DEF EventLoopRuns
  <2>2. count' = Cardinality(Existing')
    BY <1>1, <1>2, <1>3
  <2> QED BY <1>1, <1>2, <1>5, <2>1, <2>2 DEF IInv, MacInv, Distinct, os
<1> QED BY <1>2, <1>8, <1>9, <1>10 DEF IInv

-----------------------------------------------------------------------------
(* The invariant and what follows from it                                  *)

\* Every step keeps the invariant.
LEMMA NextKeepsIInv == IInv /\ [Next]_vars => IInv'
<1> SUFFICES ASSUME IInv, [Next]_vars PROVE IInv'
  OBVIOUS
<1>1. CASE WindowsNext
  BY <1>1, OpenKeepsIInv, DeviceKeepsIInv, ClaimWindowsKeepsIInv, FreeAssociatedKeepsIInv,
     ReleaseWindowsKeepsIInv, UseKeepsIInv DEF WindowsNext
<1>2. CASE MacNext
  BY <1>2, OpenKeepsIInv, OpenMacKeepsIInv, OpenMacFailsKeepsIInv, RegisterMacKeepsIInv, InterfaceOpenKeepsIInv,
     CountClaimKeepsIInv, CallKeepsIInv, CloseMacKeepsIInv, ReleaseMacKeepsIInv, UseKeepsIInv DEF MacNext
<1>3. CASE WebusbNext
  BY <1>3, DeviceKeepsIInv, CallKeepsIInv, ClaimedWebusbKeepsIInv, AltSetKeepsIInv, DropWebusbKeepsIInv,
     ReleasedWebusbKeepsIInv DEF WebusbNext
<1>4. CASE ProgramNext
  BY <1>4, DeviceKeepsIInv, DropDeviceKeepsIInv, UseKeepsIInv DEF ProgramNext
<1>5. CASE UNCHANGED vars
  <2>1. ClaimsKept
    BY <1>5 DEF ClaimsKept, vars, Claiming, Opening, mac
  <2>2. TypeOK' /\ PcInv' /\ LifetimeInv'
    BY <1>5 DEF vars, IInv, TypeOK, PcInv, LifetimeInv, Existing, system, os, mac, events
  <2> QED BY <2>1, <2>2, ClaimsKeptKeepsInv DEF IInv
<1> QED BY <1>1, <1>2, <1>3, <1>4, <1>5 DEF Next

\* The invariant holds in every reachable state, types included.
THEOREM SpecIInv == Spec => []IInv
<1> QED BY InitIInv, NextKeepsIInv, PTL DEF Spec

\* The run loop of EVENT_LOOP runs while, and only while, a device, an interface or a claim that
\* is under way is registered, and counts them right.
THEOREM SpecEventLoopRuns == Spec => []EventLoopRuns
<1>1. IInv => EventLoopRuns
  BY DEF IInv, MacInv, EventLoopRuns
<1> QED BY <1>1, SpecIInv, PTL

\* What an interface object relies on is open until it is dropped, and nothing stays open without
\* an owner.
THEOREM SpecHandlesMatchClaims == Spec => []HandlesMatchClaims
<1>1. IInv => HandlesMatchClaims
  <2> SUFFICES ASSUME IInv PROVE HandlesMatchClaims
    OBVIOUS
  <2>0. Live \subseteq Existing
    BY DEF Live, Existing
  <2>1. StayOpen
    <3>1. ASSUME platform = "windows", NEW o \in Existing, obj[o].phase = "live", obj[o].num # obj[o].first
          PROVE  obj[o].num \in opened
      BY <3>1 DEF IInv, WindowsInv, Live, Existing
    <3>2. ASSUME platform = "macos" \/ ~overlapped, NEW o \in Live, platform # "windows"
          PROVE  obj[o].num \in opened
      <4>1. platform \in {"macos", "webusb"}
        BY <3>2, PlatformsAssumption DEF IInv, TypeOK
      <4> QED BY <2>0, <3>2, <4>1 DEF IInv, MacInv, WebusbInv
    <3> QED BY <3>1, <3>2 DEF StayOpen
  <2>2. HaveOwners
    <3>1. CASE platform = "windows"
      BY <2>0, <3>1 DEF IInv, WindowsInv, HaveOwners
    <3>2. CASE platform = "macos"
      BY <2>0, <3>2 DEF IInv, MacInv, HaveOwners, Opening
    <3>3. CASE platform = "webusb"
      BY <3>3 DEF IInv, WebusbInv, HaveOwners
    <3> QED BY <3>1, <3>2, <3>3, PlatformsAssumption DEF IInv, TypeOK
  <2> QED BY <2>1, <2>2 DEF HandlesMatchClaims, IInv, WindowsInv
<1> QED BY <1>1, SpecIInv, PTL

-----------------------------------------------------------------------------
(* The refinement of InterfaceClaims                                       *)

\* What InterfaceClaims sees, in terms of the objects that hold a claim.
AbstractState ==
  /\ Distinct(Holding)
  /\ \A o \in Holding : o \in Objects /\ obj[o].num \in Interfaces
  /\ \A t \in Opening : pc[t].num \in Interfaces /\ \A o \in Holding : pc[t].num # obj[o].num
  /\ Claimed = {obj[o].num : o \in Holding} \union {pc[t].num : t \in Opening}
  /\ InUse = {obj[o].num : o \in {x \in Holding : obj[x].ep # "none"}}
  /\ Setting = [i \in Interfaces |-> Setting[i]]
  /\ \A o \in Holding : Setting[obj[o].num] = obj[o].alt
  /\ \A i \in Interfaces : (\A o \in Holding : obj[o].num # i) => Setting[i] = 0

\* The mapped state follows from the invariant as long as no WebUSB call came too late.
LEMMA AbstractStateHolds == IInv /\ ~overlapped => AbstractState
<1> SUFFICES ASSUME IInv, ~overlapped PROVE AbstractState
  OBVIOUS
<1>1. platform \in {"windows", "macos", "webusb"}
  BY PlatformsAssumption DEF IInv, TypeOK
<1>2. Distinct(Holding)
  BY <1>1 DEF IInv, WindowsInv, MacInv, WebusbInv, Distinct, Holding
<1>3. \A o \in Holding : o \in Objects /\ obj[o].num \in Interfaces
  BY DEF Holding, Existing, IInv, TypeOK, Interface
<1>4. platform # "macos" => Opening = {}
  BY DEF Opening, IInv, PcInv
<1>5. \A t \in Opening : pc[t].num \in Interfaces /\ \A o \in Holding : pc[t].num # obj[o].num
  <2>1. \A t \in Opening : pc[t].num \in Interfaces
    BY DEF Opening, IInv, PcInv, Steps
  <2> QED BY <1>4, <2>1 DEF Holding, IInv, MacInv
<1>6. Claimed = {obj[o].num : o \in Holding} \union {pc[t].num : t \in Opening}
  <2>1. CASE platform = "windows"
    <3>1. Claimed = UNION {handles[k] : k \in DOMAIN handles}
      BY <2>1 DEF Claimed, Range
    <3>2. Holding = Existing
      BY <2>1 DEF Holding
    <3>3. \A k \in DOMAIN handles : handles[k] = {obj[o].num : o \in {x \in Existing : obj[x].first = k}}
      BY DEF IInv, WindowsInv, TableMatches, ClaimsOf
    <3>4. \A o \in Existing : obj[o].first \in DOMAIN handles
      BY <2>1 DEF IInv, WindowsInv
    <3> QED BY <1>4, <2>1, <3>1, <3>2, <3>3, <3>4
  <2>2. CASE platform = "macos"
    <3>1. Holding = Live
      BY <2>2 DEF Holding, Live, Existing
    <3> QED BY <2>2, <3>1 DEF Claimed, IInv, MacInv
  <2>3. CASE platform = "webusb"
    <3>1. Holding = Existing
      BY <2>3 DEF Holding
    <3> QED BY <1>4, <2>3, <3>1 DEF Claimed, IInv, WebusbInv
  <2> QED BY <1>1, <2>1, <2>2, <2>3
<1>7. InUse = {obj[o].num : o \in {x \in Holding : obj[x].ep # "none"}}
  <2>1. {x \in Objects : obj[x].ep # "none"} = {x \in Holding : obj[x].ep # "none"}
    BY DEF Holding, Existing, Live, IInv, LifetimeInv
  <2> QED BY <2>1 DEF InUse
<1>8. Setting = [i \in Interfaces |-> Setting[i]]
  BY DEF Setting
<1>9. \A o \in Holding : Setting[obj[o].num] = obj[o].alt
  <2> TAKE o \in Holding
  <2>1. Current(obj[o].num) = {o}
    BY <1>2 DEF Current, Distinct
  <2>2. o \in Nat
    BY <1>3, BoundsAssumption DEF Objects
  <2>3. Min({o}) = o
    BY <2>2, MinInSet
  <2>4. Setting[obj[o].num] = obj[Min(Current(obj[o].num))].alt
    BY <1>3, <2>1 DEF Setting
  <2> QED BY <2>1, <2>3, <2>4
<1>10. \A i \in Interfaces : (\A o \in Holding : obj[o].num # i) => Setting[i] = 0
  <2> TAKE i \in Interfaces
  <2>1. (\A o \in Holding : obj[o].num # i) => Current(i) = {}
    BY DEF Current
  <2> QED BY <2>1 DEF Setting
<1> QED BY <1>2, <1>3, <1>5, <1>6, <1>7, <1>8, <1>9, <1>10 DEF AbstractState

\* The history variable is never reset.
LEMMA OverlappedStays == [Next]_vars => (overlapped => overlapped')
<1> SUFFICES ASSUME [Next]_vars, overlapped PROVE overlapped'
  OBVIOUS
<1>1. CASE WindowsNext
  BY <1>1 DEF WindowsNext, OpenWindows, ChildAppears, ClaimWindows, FreeAssociated, ReleaseWindows, SetAltWindows
<1>2. CASE MacNext
  BY <1>2 DEF MacNext, RegisterDevice, OpenMac, OpenMacFails, RegisterMac, InterfaceOpen, CountClaim, SetConfiguration, StoreActiveConfig,
     Reset, RequireOpenExclusive, CloseMac, ReleaseMac, SetAltMac
<1>3. CASE WebusbNext
  BY <1>3 DEF WebusbNext, OpenWebusb, ClaimWebusb, ClaimedWebusb, AltSetWebusb, FailedWebusb, SetAltWebusb,
     DropWebusb, ReleasedWebusb
<1>4. CASE ProgramNext
  BY <1>4 DEF ProgramNext, LetGoOfDevice, DropDevice, LetGoOfInterface, EndpointWindows, EndpointMac,
     EndpointWebusb, Mark, DropEndpoint, DropEndpointInner
<1>5. CASE UNCHANGED vars
  BY <1>5 DEF vars
<1> QED BY <1>1, <1>2, <1>3, <1>4, <1>5 DEF Next

\* Nothing is claimed at first.
LEMMA InitImplementsClaims == Init => Claims!Init
<1> SUFFICES ASSUME Init PROVE Claims!Init
  OBVIOUS
<1>1. Existing = {} /\ Live = {} /\ Holding = {}
  BY DEF Init, Existing, Live, Holding, NoObject
<1>2. Claimed = {}
  BY DEF Init, Claimed, Range
<1>3. InUse = {}
  BY DEF Init, InUse, NoObject
<1>4. Setting = [i \in Interfaces |-> 0]
  BY <1>1 DEF Setting, Current
<1> QED BY <1>2, <1>3, <1>4 DEF Claims!Init

\* The alternate setting of an interface is kept if its holder is; a new holder has setting 0.
LEMMA SettingKept ==
  ASSUME AbstractState, AbstractState', NEW i \in Interfaces,
         \A o \in Holding : obj[o].num = i => o \in Holding' /\ obj'[o].num = i /\ obj'[o].alt = obj[o].alt,
         \A o \in Holding' : obj'[o].num = i => (o \in Holding /\ obj[o].num = i) \/ obj'[o].alt = 0
  PROVE  Setting'[i] = Setting[i]
<1>1. ASSUME NEW o \in Holding, obj[o].num = i
      PROVE  Setting'[i] = Setting[i]
  <2>1. Setting[i] = obj[o].alt
    BY <1>1 DEF AbstractState
  <2>2. Setting'[i] = obj'[o].alt
    BY <1>1 DEF AbstractState
  <2> QED BY <1>1, <2>1, <2>2
<1>2. ASSUME \A o \in Holding : obj[o].num # i
      PROVE  Setting'[i] = Setting[i]
  <2>1. Setting[i] = 0
    BY <1>2 DEF AbstractState
  <2>2. ASSUME NEW o \in Holding', obj'[o].num = i
        PROVE  Setting'[i] = 0
    <3>1. obj'[o].alt = 0
      BY <1>2, <2>2
    <3> QED BY <2>2, <3>1 DEF AbstractState
  <2>3. (\A o \in Holding' : obj'[o].num # i) => Setting'[i] = 0
    BY DEF AbstractState
  <2> QED BY <2>1, <2>2, <2>3
<1> QED BY <1>1, <1>2

\* The same holders with the same settings and endpoints: a stuttering step.
LEMMA StutterImplementsClaims ==
  ASSUME AbstractState, AbstractState', Holding' = Holding,
         \A o \in Holding : /\ obj'[o].num = obj[o].num /\ obj'[o].alt = obj[o].alt
                            /\ (obj'[o].ep = "none" <=> obj[o].ep = "none"),
         Opening' = Opening, \A t \in Opening : pc'[t].num = pc[t].num
  PROVE  UNCHANGED Claims!claims
<1>1. Claimed' = Claimed
  BY DEF AbstractState
<1>2. InUse' = InUse
  BY DEF AbstractState
<1>3. Setting' = Setting
  <2>1. \A i \in Interfaces : Setting'[i] = Setting[i]
    BY SettingKept
  <2>2. Setting = [i \in Interfaces |-> Setting[i]] /\ Setting' = [i \in Interfaces |-> Setting'[i]]
    BY DEF AbstractState
  <2> QED BY <2>1, <2>2
<1> QED BY <1>1, <1>2, <1>3 DEF Claims!claims

\* A new holder: Claim, unless a task held the interface for it already.
LEMMA CreationImplementsClaims ==
  ASSUME AbstractState, AbstractState', NEW o, o \notin Holding, Holding' = Holding \union {o},
         \A x \in Holding : obj'[x] = obj[x],
         obj'[o].ep = "none", obj'[o].alt = 0
  PROVE  /\ InUse' = InUse /\ Setting' = Setting
         /\ Opening' = Opening /\ (\A t \in Opening : pc'[t] = pc[t]) => Claims!Claim(obj'[o].num)
<1>1. InUse' = InUse
  BY DEF AbstractState
<1>2. Setting' = Setting
  <2>1. \A i \in Interfaces : Setting'[i] = Setting[i]
    BY SettingKept
  <2>2. Setting = [i \in Interfaces |-> Setting[i]] /\ Setting' = [i \in Interfaces |-> Setting'[i]]
    BY DEF AbstractState
  <2> QED BY <2>1, <2>2
<1>3. ASSUME Opening' = Opening, \A t \in Opening : pc'[t] = pc[t]
      PROVE  obj'[o].num \notin Claimed /\ Claimed' = Claimed \union {obj'[o].num}
  <2>1. Claimed' = Claimed \union {obj'[o].num}
    BY <1>3 DEF AbstractState
  <2>2. obj'[o].num \notin {obj[x].num : x \in Holding}
    BY DEF AbstractState, Distinct
  <2>3. obj'[o].num \notin {pc[t].num : t \in Opening}
    BY <1>3 DEF AbstractState
  <2> QED BY <2>1, <2>2, <2>3 DEF AbstractState
<1> QED BY <1>1, <1>2, <1>3 DEF Claims!Claim

\* A holder fewer: Release.
LEMMA RemovalImplementsClaims ==
  ASSUME AbstractState, AbstractState', NEW o \in Holding, Holding' = Holding \ {o},
         \A x \in Holding \ {o} : obj'[x].num = obj[x].num /\ obj'[x].alt = obj[x].alt /\ obj'[x].ep = obj[x].ep,
         obj[o].ep = "none", Opening' = Opening, \A t \in Opening : pc'[t] = pc[t]
  PROVE  Claims!Release(obj[o].num)
<1>1. InUse' = InUse
  BY DEF AbstractState
<1>2. Claimed' = Claimed \ {obj[o].num}
  BY DEF AbstractState, Distinct
<1>3. obj[o].num \in Claimed \ InUse
  BY DEF AbstractState, Distinct
<1>4. Setting' = [Setting EXCEPT ![obj[o].num] = 0]
  <2>1. ASSUME NEW i \in Interfaces, i # obj[o].num
        PROVE  Setting'[i] = Setting[i]
    BY <2>1, SettingKept
  <2>2. Setting'[obj[o].num] = 0
    <3>1. \A x \in Holding' : obj'[x].num # obj[o].num
      BY DEF AbstractState, Distinct
    <3>2. obj[o].num \in Interfaces
      BY DEF AbstractState
    <3> QED BY <3>1, <3>2 DEF AbstractState
  <2>3. Setting = [i \in Interfaces |-> Setting[i]] /\ Setting' = [i \in Interfaces |-> Setting'[i]]
    BY DEF AbstractState
  <2> QED BY <2>1, <2>2, <2>3
<1> QED BY <1>1, <1>2, <1>3, <1>4 DEF Claims!Release

\* The endpoint of a holder: Open or Close.
LEMMA EndpointImplementsClaims ==
  ASSUME AbstractState, AbstractState', NEW o \in Holding, Holding' = Holding,
         \A x \in Holding : obj'[x].num = obj[x].num /\ obj'[x].alt = obj[x].alt,
         \A x \in Holding \ {o} : obj'[x].ep = obj[x].ep,
         Opening' = Opening, \A t \in Opening : pc'[t] = pc[t]
  PROVE  /\ obj[o].ep = "none" /\ obj'[o].ep # "none" => Claims!Open(obj[o].num)
         /\ obj[o].ep # "none" /\ obj'[o].ep = "none" => Claims!Close(obj[o].num)
<1>1. Claimed' = Claimed
  BY DEF AbstractState
<1>2. Setting' = Setting
  <2>1. \A i \in Interfaces : Setting'[i] = Setting[i]
    BY SettingKept
  <2>2. Setting = [i \in Interfaces |-> Setting[i]] /\ Setting' = [i \in Interfaces |-> Setting'[i]]
    BY DEF AbstractState
  <2> QED BY <2>1, <2>2
<1>3. ASSUME obj[o].ep = "none", obj'[o].ep # "none"
      PROVE  Claims!Open(obj[o].num)
  <2>1. obj[o].num \in Claimed \ InUse
    BY <1>3 DEF AbstractState, Distinct
  <2>2. InUse' = InUse \union {obj[o].num}
    BY <1>3 DEF AbstractState
  <2> QED BY <1>1, <1>2, <2>1, <2>2 DEF Claims!Open
<1>4. ASSUME obj[o].ep # "none", obj'[o].ep = "none"
      PROVE  Claims!Close(obj[o].num)
  <2>1. obj[o].num \in InUse
    BY <1>4 DEF AbstractState
  <2>2. InUse' = InUse \ {obj[o].num}
    BY <1>4 DEF AbstractState, Distinct
  <2> QED BY <1>1, <1>2, <2>1, <2>2 DEF Claims!Close
<1> QED BY <1>3, <1>4

\* The alternate setting of a holder without an endpoint: SetAlt.
LEMMA AltImplementsClaims ==
  ASSUME AbstractState, AbstractState', NEW o \in Holding, Holding' = Holding,
         \A x \in Holding : obj'[x].num = obj[x].num /\ obj'[x].ep = obj[x].ep,
         \A x \in Holding \ {o} : obj'[x].alt = obj[x].alt, obj[o].ep = "none",
         Opening' = Opening, \A t \in Opening : pc'[t] = pc[t]
  PROVE  Claims!SetAlt(obj[o].num, obj'[o].alt)
<1>1. Claimed' = Claimed /\ InUse' = InUse
  BY DEF AbstractState
<1>2. obj[o].num \in Claimed \ InUse
  BY DEF AbstractState, Distinct
<1>3. Setting' = [Setting EXCEPT ![obj[o].num] = obj'[o].alt]
  <2>1. ASSUME NEW i \in Interfaces, i # obj[o].num
        PROVE  Setting'[i] = Setting[i]
    BY <2>1, SettingKept
  <2>2. Setting'[obj[o].num] = obj'[o].alt
    BY DEF AbstractState
  <2>3. Setting = [i \in Interfaces |-> Setting[i]] /\ Setting' = [i \in Interfaces |-> Setting'[i]]
    BY DEF AbstractState
  <2> QED BY <2>1, <2>2, <2>3
<1> QED BY <1>1, <1>2, <1>3 DEF Claims!SetAlt

\* A step of InterfaceClaims, or a stuttering step.
ClaimsStep == Claims!Next \/ UNCHANGED Claims!claims

\* Steps that touch no object and no claim.
LEMMA QuietSteps ==
  ASSUME AbstractState, AbstractState', IInv, UNCHANGED <<platform, obj>>,
         \A t \in Tasks : pc'[t] = pc[t] \/ (pc[t].op # "opened" /\ pc'[t].op # "opened")
  PROVE  ClaimsStep
<1>1. Holding' = Holding
  BY DEF Holding, Existing, Live
<1>2. Opening' = Opening /\ \A t \in Opening : pc'[t] = pc[t]
  BY DEF Opening
<1> QED BY <1>1, <1>2, StutterImplementsClaims DEF ClaimsStep

\* The uses of an interface.
LEMMA UsesImplementClaims ==
  ASSUME AbstractState, AbstractState', IInv, NEW o \in Objects,
         \/ LetGoOfInterface(o) \/ DropEndpoint(o) \/ DropEndpointInner(o)
         \/ \E a \in Alts : SetAltWindows(o, a) \/ SetAltMac(o, a)
         \/ EndpointWindows(o) \/ EndpointMac(o) \/ EndpointWebusb(o)
  PROVE  ClaimsStep
<1>1. UNCHANGED <<platform, pc>> /\ (obj[o].held \/ obj[o].ep # "none")
  BY DEF LetGoOfInterface, DropEndpoint, DropEndpointInner, SetAltWindows, SetAltMac,
         EndpointWindows, EndpointMac, EndpointWebusb, Mark, system
<1>2. obj[o].phase = "live" /\ obj[o] \in Interface /\ o \in Holding
  BY <1>1 DEF IInv, TypeOK, LifetimeInv, Holding, Existing, Live
<1>3. Opening' = Opening /\ \A t \in Opening : pc'[t] = pc[t]
  BY <1>1 DEF Opening
<1>4. ASSUME NEW n, SameInterface(n, obj[o]), obj' = [obj EXCEPT ![o] = n]
      PROVE  /\ obj'[o] = n /\ \A x \in Objects \ {o} : obj'[x] = obj[x]
             /\ Holding' = Holding
             /\ \A x \in Holding : obj'[x].num = obj[x].num
             /\ \A x \in Holding \ {o} : obj'[x].alt = obj[x].alt /\ obj'[x].ep = obj[x].ep
             /\ obj[o].num \in Interfaces
  <2>1. obj'[o] = n /\ \A x \in Objects \ {o} : obj'[x] = obj[x]
    BY <1>4 DEF IInv, TypeOK
  <2>2. Holding' = Holding
    BY <1>1, <1>2, <1>4, <2>1 DEF SameInterface, Holding, Existing, Live
  <2>3. \A x \in Holding : x \in Objects
    BY DEF Holding, Existing
  <2> QED BY <1>2, <1>4, <2>1, <2>2, <2>3 DEF SameInterface, Interface
<1>5. CASE LetGoOfInterface(o)
  <2>1. PICK n : n = [obj[o] EXCEPT !.held = FALSE]
    OBVIOUS
  <2>2. SameInterface(n, obj[o]) /\ n.ep = obj[o].ep /\ n.alt = obj[o].alt
    BY <1>2, <2>1, FieldsUpdated
  <2>3. obj' = [obj EXCEPT ![o] = n]
    BY <1>5, <2>1 DEF LetGoOfInterface
  <2>4. \A x \in Holding : /\ obj'[x].num = obj[x].num /\ obj'[x].alt = obj[x].alt
                           /\ (obj'[x].ep = "none" <=> obj[x].ep = "none")
    <3>1. obj'[o].num = obj[o].num /\ obj'[o].alt = obj[o].alt /\ obj'[o].ep = obj[o].ep
      BY <1>2, <1>4, <2>2, <2>3
    <3>2. \A x \in Holding \ {o} : obj'[x].num = obj[x].num /\ obj'[x].alt = obj[x].alt /\ obj'[x].ep = obj[x].ep
      BY <1>4, <2>2, <2>3
    <3> QED BY <3>1, <3>2
  <2> QED BY <1>3, <1>4, <2>2, <2>3, <2>4, StutterImplementsClaims DEF ClaimsStep
<1>6. CASE DropEndpoint(o) \/ DropEndpointInner(o) \/ EndpointWindows(o) \/ EndpointMac(o) \/ EndpointWebusb(o)
  <2>1. PICK e \in {"none", "open", "ending"} : obj' = [obj EXCEPT ![o] = [obj[o] EXCEPT !.ep = e]]
    BY <1>6 DEF DropEndpoint, DropEndpointInner, EndpointWindows, EndpointMac, EndpointWebusb, Mark
  <2>2. PICK n : n = [obj[o] EXCEPT !.ep = e]
    OBVIOUS
  <2>3. SameInterface(n, obj[o]) /\ n.ep = e /\ n.alt = obj[o].alt
    BY <1>2, <2>2, FieldsUpdated
  <2>4. obj'[o] = n /\ Holding' = Holding /\ obj[o].num \in Interfaces
    BY <1>4, <2>1, <2>2, <2>3
  <2>5. \A x \in Holding : obj'[x].num = obj[x].num /\ obj'[x].alt = obj[x].alt
    BY <1>4, <2>1, <2>2, <2>3
  <2>6. \A x \in Holding \ {o} : obj'[x].ep = obj[x].ep
    BY <1>4, <2>1, <2>2, <2>3
  <2>7. CASE obj[o].ep = "none" <=> e = "none"
    <3>1. \A x \in Holding : obj'[x].ep = "none" <=> obj[x].ep = "none"
      BY <2>3, <2>4, <2>6, <2>7
    <3> QED BY <1>3, <2>4, <2>5, <3>1, StutterImplementsClaims DEF ClaimsStep
  <2>8. CASE ~(obj[o].ep = "none" <=> e = "none")
    <3>1. Claims!Open(obj[o].num) \/ Claims!Close(obj[o].num)
      BY <1>2, <1>3, <2>3, <2>4, <2>5, <2>6, <2>8, EndpointImplementsClaims
    <3> QED BY <2>4, <3>1 DEF ClaimsStep, Claims!Next
  <2> QED BY <2>7, <2>8
<1>7. ASSUME NEW a \in Alts, SetAltWindows(o, a) \/ SetAltMac(o, a)
      PROVE  ClaimsStep
  <2>1. obj' = [obj EXCEPT ![o] = [obj[o] EXCEPT !.alt = a]] /\ obj[o].ep = "none"
    BY <1>7 DEF SetAltWindows, SetAltMac, CanSetAlt
  <2>2. PICK n : n = [obj[o] EXCEPT !.alt = a]
    OBVIOUS
  <2>3. SameInterface(n, obj[o]) /\ n.ep = obj[o].ep /\ n.alt = a
    BY <1>2, <2>2, FieldsUpdated
  <2>4. obj'[o] = n /\ Holding' = Holding /\ obj[o].num \in Interfaces
    BY <1>4, <2>1, <2>2, <2>3
  <2>5. \A x \in Holding : obj'[x].num = obj[x].num /\ obj'[x].ep = obj[x].ep
    BY <1>4, <2>1, <2>2, <2>3
  <2>6. \A x \in Holding \ {o} : obj'[x].alt = obj[x].alt
    BY <1>4, <2>1, <2>2, <2>3
  <2>7. Claims!SetAlt(obj[o].num, obj'[o].alt)
    BY <1>2, <1>3, <2>1, <2>4, <2>5, <2>6, AltImplementsClaims
  <2> QED BY <2>3, <2>4, <2>7 DEF ClaimsStep, Claims!Next
<1> QED BY <1>5, <1>6, <1>7

\* Drop of an interface starts: it is released then on macOS.
LEMMA ClosingImplementsClaims ==
  ASSUME AbstractState, AbstractState', IInv, NEW o \in Objects,
         FreeAssociated(o) \/ CloseMac(o) \/ DropWebusb(o)
  PROVE  ClaimsStep
<1>1. /\ o \in Live /\ ~Referenced(o) /\ obj' = [obj EXCEPT ![o].phase = "closing"]
      /\ UNCHANGED <<system, children, device, pc>>
  BY DEF FreeAssociated, CloseMac, DropWebusb
<1>2. /\ \A x \in Objects : /\ obj'[x].num = obj[x].num /\ obj'[x].first = obj[x].first
                            /\ obj'[x].ep = obj[x].ep /\ obj'[x].alt = obj[x].alt
      /\ Existing' = Existing /\ Live' = Live \ {o}
  BY <1>1, ClosingKeeps
<1>3. Opening' = Opening /\ (\A t \in Opening : pc'[t] = pc[t]) /\ platform' = platform
  BY <1>1 DEF Opening, system
<1>4. Holding \subseteq Objects /\ o \in Holding
  BY <1>1 DEF Holding, Existing, Live
<1>5. CASE platform = "macos"
  <2>1. Holding' = Holding \ {o}
    BY <1>2, <1>3, <1>5 DEF Holding
  <2>2. obj[o].ep = "none"
    BY <1>1 DEF Referenced
  <2>3. \A x \in Holding \ {o} : obj'[x].num = obj[x].num /\ obj'[x].alt = obj[x].alt /\ obj'[x].ep = obj[x].ep
    BY <1>2, <1>4
  <2>4. Claims!Release(obj[o].num)
    BY <1>3, <1>4, <2>1, <2>2, <2>3, RemovalImplementsClaims
  <2>5. obj[o].num \in Interfaces
    BY <1>4 DEF AbstractState
  <2> QED BY <2>4, <2>5 DEF ClaimsStep, Claims!Next
<1>6. CASE platform # "macos"
  <2>1. Holding' = Holding
    BY <1>2, <1>3, <1>6 DEF Holding
  <2>2. \A x \in Holding : /\ obj'[x].num = obj[x].num /\ obj'[x].alt = obj[x].alt
                           /\ (obj'[x].ep = "none" <=> obj[x].ep = "none")
    BY <1>2, <1>4
  <2> QED BY <1>3, <2>1, <2>2, StutterImplementsClaims DEF ClaimsStep
<1> QED BY <1>5, <1>6

\* Drop of an interface ends: it is released then on Windows and WebUSB.
LEMMA RemovedImplementsClaims ==
  ASSUME AbstractState, AbstractState', IInv, NEW o \in Objects,
         ReleaseWindows(o) \/ ReleaseMac(o) \/ ReleasedWebusb(o)
  PROVE  ClaimsStep
<1>1. /\ obj[o].phase = "closing" /\ obj' = [obj EXCEPT ![o] = NoObject]
      /\ UNCHANGED <<system, children, device, pc>>
  BY DEF ReleaseWindows, ReleaseMac, ReleasedWebusb
<1>2. /\ \A x \in Objects \ {o} : obj'[x] = obj[x]
      /\ o \in Existing \ Live /\ Existing' = Existing \ {o} /\ Live' = Live
  BY <1>1, RemovedKeeps
<1>3. Opening' = Opening /\ (\A t \in Opening : pc'[t] = pc[t]) /\ platform' = platform
  BY <1>1 DEF Opening, system
<1>4. Holding \subseteq Objects
  BY DEF Holding, Existing
<1>5. CASE platform = "macos"
  <2>1. Holding' = Holding /\ o \notin Holding
    BY <1>2, <1>3, <1>5 DEF Holding
  <2>2. \A x \in Holding : obj'[x] = obj[x]
    BY <1>2, <1>4, <2>1
  <2> QED BY <1>3, <2>1, <2>2, StutterImplementsClaims DEF ClaimsStep
<1>6. CASE platform # "macos"
  <2>1. Holding' = Holding \ {o} /\ o \in Holding
    BY <1>2, <1>3, <1>6 DEF Holding
  <2>2. obj[o].ep = "none"
    BY <1>1 DEF IInv, LifetimeInv
  <2>3. \A x \in Holding \ {o} : obj'[x].num = obj[x].num /\ obj'[x].alt = obj[x].alt /\ obj'[x].ep = obj[x].ep
    BY <1>2, <1>4
  <2>4. Claims!Release(obj[o].num)
    BY <1>3, <2>1, <2>2, <2>3, RemovalImplementsClaims
  <2>5. obj[o].num \in Interfaces
    BY <2>1 DEF AbstractState
  <2> QED BY <2>4, <2>5 DEF ClaimsStep, Claims!Next
<1> QED BY <1>5, <1>6

\* An interface object is created: a claim on Windows and WebUSB.
LEMMA ClaimImplementsClaims ==
  ASSUME AbstractState, AbstractState', IInv,
         \/ \E i \in Interfaces : ClaimWindows(i)
         \/ \E t \in Tasks : ClaimedWebusb(t) \/ CountClaim(t)
  PROVE  ClaimsStep
<1>1. \A x \in Holding : x \in Existing
  BY DEF Holding
<1>2. ASSUME NEW i \in Interfaces, ClaimWindows(i)
      PROVE  ClaimsStep
  <2>1. platform = "windows" /\ platform' = platform /\ pc' = pc
    BY <1>2 DEF ClaimWindows, system
  <2>2. FirstInterface(i) \in Interfaces
    BY <1>2, FirstInterfaceKnown DEF ClaimWindows
  <2>3. PICK o \in Objects \ Existing :
          /\ obj' = [obj EXCEPT ![o] = [phase |-> "live", num |-> i, first |-> FirstInterface(i), held |-> TRUE,
                                        ep |-> "none", alt |-> 0]]
          /\ Existing' = Existing \union {o}
    BY <1>2, <2>2, NewObjectExists DEF ClaimWindows, IInv
  <2>4. obj'[o].num = i /\ obj'[o].ep = "none" /\ obj'[o].alt = 0 /\ \A x \in Objects \ {o} : obj'[x] = obj[x]
    BY <2>3 DEF IInv, TypeOK
  <2>5. o \notin Holding /\ Holding' = Holding \union {o}
    BY <2>1, <2>3 DEF Holding
  <2>6. \A x \in Holding : obj'[x] = obj[x]
    BY <1>1, <2>3, <2>4 DEF Existing
  <2>7. Opening' = Opening /\ \A t \in Opening : pc'[t] = pc[t]
    BY <2>1 DEF Opening
  <2>8. Claims!Claim(i)
    BY <2>4, <2>5, <2>6, <2>7, CreationImplementsClaims
  <2> QED BY <2>8 DEF ClaimsStep, Claims!Next
<1>3. ASSUME NEW t \in Tasks, ClaimedWebusb(t) \/ CountClaim(t)
      PROVE  ClaimsStep
  <2>1. /\ pc[t].op \in {"opened", "claim"} /\ NewObject(pc[t].num, 0) /\ pc' = [pc EXCEPT ![t] = Idle]
        /\ Free # {} /\ UNCHANGED <<system, children, device>>
    BY <1>3 DEF ClaimedWebusb, CountClaim
  <2>2. PICK o \in Objects \ Existing :
          /\ \A x \in Objects \ {o} : obj'[x] = obj[x]
          /\ obj'[o].num = pc[t].num /\ obj'[o].ep = "none" /\ obj'[o].alt = 0
          /\ Existing' = Existing \union {o} /\ Live' = Live \union {o}
          /\ \A u \in Tasks : pc'[u] = IF u = t THEN Idle ELSE pc[u]
    BY <2>1, CreatedKeeps
  <2>3. o \notin Holding /\ Holding' = Holding \union {o}
    BY <2>1, <2>2 DEF Holding, system
  <2>4. \A x \in Holding : obj'[x] = obj[x]
    BY <1>1, <2>2 DEF Existing
  <2>5. CASE pc[t].op = "claim"
    <3>1. Opening' = Opening /\ \A u \in Opening : pc'[u] = pc[u]
      BY <2>2, <2>5 DEF Opening, Idle
    <3>2. Claims!Claim(pc[t].num)
      BY <2>2, <2>3, <2>4, <3>1, CreationImplementsClaims
    <3>3. pc[t].num \in Interfaces
      BY <2>5 DEF IInv, PcInv, Steps
    <3> QED BY <3>2, <3>3 DEF ClaimsStep, Claims!Next
  <2>6. CASE pc[t].op = "opened"
    <3>1. t \in Opening /\ Opening' = Opening \ {t} /\ \A u \in Opening' : pc'[u] = pc[u]
      BY <2>2, <2>6 DEF Opening, Idle
    <3>2. InUse' = InUse /\ Setting' = Setting
      BY <2>2, <2>3, <2>4, CreationImplementsClaims
    <3>3. Claimed' = Claimed
      <4>1. {obj'[x].num : x \in Holding'} = {obj[x].num : x \in Holding} \union {pc[t].num}
        BY <2>2, <2>3, <2>4
      <4>2. {pc'[u].num : u \in Opening'} \union {pc[t].num} = {pc[u].num : u \in Opening}
        BY <3>1
      <4>3. /\ Claimed = {obj[x].num : x \in Holding} \union {pc[u].num : u \in Opening}
            /\ Claimed' = {obj'[x].num : x \in Holding'} \union {pc'[u].num : u \in Opening'}
        BY DEF AbstractState
      <4> QED BY <4>1, <4>2, <4>3
    <3> QED BY <3>2, <3>3 DEF ClaimsStep, Claims!claims
  <2> QED BY <2>1, <2>5, <2>6
<1> QED BY <1>2, <1>3

\* USBInterfaceOpen: a claim on macOS.
LEMMA InterfaceOpenImplementsClaims ==
  ASSUME AbstractState, AbstractState', IInv, NEW t \in Tasks, InterfaceOpen(t)
  PROVE  ClaimsStep
<1>1. pc[t].op = "registered" /\ UNCHANGED <<platform, obj>> /\ pc[t] \in Steps /\ platform = "macos"
  BY DEF InterfaceOpen, system, IInv, PcInv
<1>2. Holding' = Holding
  BY <1>1 DEF Holding, Existing, Live
<1>3. CASE pc[t].num \notin opened
  <2>1. pc' = [pc EXCEPT ![t] = [pc[t] EXCEPT !.op = "opened"]]
    BY <1>3 DEF InterfaceOpen
  <2>2. [pc[t] EXCEPT !.op = "opened"].op = "opened" /\ [pc[t] EXCEPT !.op = "opened"].num = pc[t].num
    BY <1>1, StepsUpdated
  <2>3. pc'[t].op = "opened" /\ pc'[t].num = pc[t].num /\ \A u \in Tasks \ {t} : pc'[u] = pc[u]
    BY <2>1, <2>2 DEF IInv, PcInv
  <2>4. t \notin Opening /\ Opening' = Opening \union {t} /\ \A u \in Opening : pc'[u] = pc[u]
    BY <1>1, <2>3 DEF Opening
  <2>5. Claimed' = Claimed \union {pc[t].num}
    BY <1>1, <1>2, <2>3, <2>4 DEF AbstractState
  <2>6. pc[t].num \notin Claimed /\ pc[t].num \in Interfaces
    BY <1>1, <1>3 DEF Claimed, Steps
  <2>7. InUse' = InUse /\ Setting' = Setting
    BY <1>1 DEF InUse, Setting, Current, Holding, Existing, Live
  <2>8. Claims!Claim(pc[t].num)
    BY <2>5, <2>6, <2>7 DEF Claims!Claim
  <2> QED BY <2>6, <2>8 DEF ClaimsStep, Claims!Next
<1>4. CASE pc[t].num \in opened
  <2>1. pc' = [pc EXCEPT ![t] = Idle]
    BY <1>4 DEF InterfaceOpen
  <2>2. \A u \in Tasks : pc'[u] = pc[u] \/ (pc[u].op # "opened" /\ pc'[u].op # "opened")
    BY <1>1, <2>1 DEF IInv, PcInv, Idle
  <2> QED BY <1>1, <2>2, QuietSteps
<1> QED BY <1>3, <1>4

\* set_alt_setting of WebUSB takes effect in time.
LEMMA AltSetImplementsClaims ==
  ASSUME AbstractState, AbstractState', IInv, NEW t \in Tasks, AltSetWebusb(t), ~overlapped'
  PROVE  ClaimsStep
<1> DEFINE o == pc[t].obj
<1>1. /\ pc[t].op = "alt" /\ o \in Objects /\ pc[t].alt \in Alts /\ obj[o].phase = "live" /\ obj[o].ep = "none"
      /\ platform = "webusb" /\ platform' = platform
  BY DEF AltSetWebusb, IInv, PcInv, Steps, system
<1>2. obj' = [obj EXCEPT ![o] = [obj[o] EXCEPT !.alt = pc[t].alt]] /\ pc' = [pc EXCEPT ![t] = Idle]
  BY DEF AltSetWebusb
<1> HIDE DEF o
<1>3. PICK n : n = [obj[o] EXCEPT !.alt = pc[t].alt]
  OBVIOUS
<1>4. SameInterface(n, obj[o]) /\ n.ep = obj[o].ep /\ n.alt = pc[t].alt
  <2>1. obj[o] \in Interface
    BY <1>1 DEF IInv, TypeOK
  <2> QED BY <1>1, <1>3, <2>1, FieldsUpdated
<1>5. obj'[o] = n /\ \A x \in Objects \ {o} : obj'[x] = obj[x]
  BY <1>1, <1>2, <1>3 DEF IInv, TypeOK
<1>6. Holding' = Holding /\ o \in Holding
  BY <1>1, <1>4, <1>5 DEF SameInterface, Holding, Existing, Live
<1>7. \A x \in Holding : x \in Objects
  BY DEF Holding, Existing
<1>8. \A x \in Holding : obj'[x].num = obj[x].num /\ obj'[x].ep = obj[x].ep
  BY <1>4, <1>5, <1>7 DEF SameInterface
<1>9. \A x \in Holding \ {o} : obj'[x].alt = obj[x].alt
  BY <1>5, <1>7
<1>10. Opening' = Opening /\ \A u \in Opening : pc'[u] = pc[u]
  BY <1>1, <1>2 DEF Opening, Idle, IInv, PcInv
<1>11. Claims!SetAlt(obj[o].num, obj'[o].alt)
  BY <1>1, <1>6, <1>8, <1>9, <1>10, AltImplementsClaims
<1>12. obj[o].num \in Interfaces /\ obj'[o].alt \in Alts
  BY <1>1, <1>4, <1>5, <1>6 DEF AbstractState
<1> QED BY <1>11, <1>12 DEF ClaimsStep, Claims!Next

\* Calls of a task that are not at the point where they take effect.
LEMMA OthersAreQuiet ==
  ASSUME AbstractState, AbstractState', IInv, NEW t \in Tasks,
         \/ \E i \in Few : RegisterMac(t, i) \/ ClaimWebusb(t, i)
         \/ SetConfiguration(t) \/ StoreActiveConfig(t) \/ Reset(t)
         \/ RequireOpenExclusive(t, [op |-> "reset"])
         \/ \E c \in Configs : RequireOpenExclusive(t, [op |-> "config", config |-> c])
         \/ \E o \in Objects, a \in Alts : SetAltWebusb(t, o, a)
         \/ FailedWebusb(t)
  PROVE  ClaimsStep
<1>1. UNCHANGED <<platform, obj>> /\ pc[t].op # "opened"
  BY DEF RegisterMac, ClaimWebusb, SetConfiguration, StoreActiveConfig, Reset, RequireOpenExclusive,
         SetAltWebusb, FailedWebusb, Idle, system
<1>2. \E s : s.op # "opened" /\ (pc' = pc \/ pc' = [pc EXCEPT ![t] = s])
  <2>1. CASE SetConfiguration(t)
    <3>1. pc[t] \in Steps /\ pc[t].op = "config"
      BY <2>1 DEF SetConfiguration, IInv, PcInv
    <3>2. [pc[t] EXCEPT !.op = "store"].op = "store"
      BY <3>1, StepsUpdated
    <3>3. pc' = [pc EXCEPT ![t] = [pc[t] EXCEPT !.op = "store"]] \/ pc' = [pc EXCEPT ![t] = Idle]
      BY <2>1 DEF SetConfiguration
    <3> QED BY <3>2, <3>3 DEF Idle
  <2>2. CASE StoreActiveConfig(t) \/ Reset(t) \/ FailedWebusb(t)
    BY <2>2 DEF StoreActiveConfig, Reset, FailedWebusb, Idle
  <2>3. CASE RequireOpenExclusive(t, [op |-> "reset"])
    <3>1. [op |-> "reset"].op # "opened"
      OBVIOUS
    <3>2. pc' = pc \/ pc' = [pc EXCEPT ![t] = [op |-> "reset"]]
      BY <2>3 DEF RequireOpenExclusive
    <3> QED BY <3>1, <3>2
  <2>4. CASE \E c \in Configs : RequireOpenExclusive(t, [op |-> "config", config |-> c])
    <3>1. \A c \in Configs : [op |-> "config", config |-> c].op # "opened"
      OBVIOUS
    <3>2. \E c \in Configs : pc' = pc \/ pc' = [pc EXCEPT ![t] = [op |-> "config", config |-> c]]
      BY <2>4 DEF RequireOpenExclusive
    <3> QED BY <3>1, <3>2
  <2>5. CASE \E i \in Few : RegisterMac(t, i) \/ ClaimWebusb(t, i)
    <3>1. \A i \in Few : [op |-> "registered", num |-> i].op # "opened" /\ [op |-> "claim", num |-> i].op # "opened"
      OBVIOUS
    <3>2. \E i \in Few : \/ pc' = [pc EXCEPT ![t] = [op |-> "registered", num |-> i]]
                         \/ pc' = [pc EXCEPT ![t] = [op |-> "claim", num |-> i]]
      BY <2>5 DEF RegisterMac, ClaimWebusb
    <3> QED BY <3>1, <3>2
  <2>6. CASE \E o \in Objects, a \in Alts : SetAltWebusb(t, o, a)
    <3>1. \A o \in Objects, a \in Alts : [op |-> "alt", obj |-> o, alt |-> a].op # "opened"
      OBVIOUS
    <3>2. \E o \in Objects, a \in Alts : pc' = [pc EXCEPT ![t] = [op |-> "alt", obj |-> o, alt |-> a]]
      BY <2>6 DEF SetAltWebusb
    <3> QED BY <3>1, <3>2
  <2> QED BY <2>1, <2>2, <2>3, <2>4, <2>5, <2>6
<1>3. \A u \in Tasks : pc'[u] = pc[u] \/ (pc[u].op # "opened" /\ pc'[u].op # "opened")
  BY <1>1, <1>2 DEF IInv, PcInv
<1> QED BY <1>1, <1>3, QuietSteps

\* Every step maps to a step of InterfaceClaims or a stutter, or a WebUSB call came too late.
LEMMA NextImplementsClaims ==
  ASSUME IInv, IInv', [Next]_vars, ~overlapped'
  PROVE  ClaimsStep
<1>1. ~overlapped
  BY OverlappedStays
<1>2. AbstractState
  BY <1>1, AbstractStateHolds
<1>3. (IInv /\ ~overlapped => AbstractState)'
  BY AbstractStateHolds, PTL
<1>4. AbstractState'
  BY <1>3
<1>5. ASSUME UNCHANGED <<platform, obj, pc>>
      PROVE  ClaimsStep
  BY <1>2, <1>4, <1>5, QuietSteps
<1>6. CASE WindowsNext
  <2>1. CASE OpenWindows \/ \E i \in Interfaces : ChildAppears(i)
    BY <1>5, <2>1 DEF OpenWindows, ChildAppears, system
  <2> QED BY <1>2, <1>4, <1>6, <2>1, ClaimImplementsClaims, ClosingImplementsClaims, RemovedImplementsClaims,
             UsesImplementClaims DEF WindowsNext
<1>7. CASE MacNext
  <2>1. CASE RegisterDevice \/ OpenMac \/ OpenMacFails
    BY <1>5, <2>1 DEF RegisterDevice, OpenMac, OpenMacFails, system
  <2> QED BY <1>2, <1>4, <1>7, <2>1, ClaimImplementsClaims, ClosingImplementsClaims, RemovedImplementsClaims,
             UsesImplementClaims, InterfaceOpenImplementsClaims, OthersAreQuiet DEF MacNext
<1>8. CASE WebusbNext
  <2>1. CASE OpenWebusb
    BY <1>5, <2>1 DEF OpenWebusb, system
  <2> QED BY <1>2, <1>4, <1>8, <2>1, ClaimImplementsClaims, ClosingImplementsClaims, RemovedImplementsClaims,
             AltSetImplementsClaims, OthersAreQuiet DEF WebusbNext
<1>9. CASE ProgramNext
  <2>1. CASE LetGoOfDevice \/ DropDevice
    BY <1>5, <2>1 DEF LetGoOfDevice, DropDevice, system
  <2> QED BY <1>2, <1>4, <1>9, <2>1, UsesImplementClaims DEF ProgramNext
<1>10. CASE UNCHANGED vars
  BY <1>5, <1>10 DEF vars, system
<1> QED BY <1>6, <1>7, <1>8, <1>9, <1>10 DEF Next

\* Windows, macOS and WebUSB implement InterfaceClaims: an interface is claimed once at a time, its
\* endpoint belongs to a claim, and its setting changes only without an endpoint; in WebUSB as long
\* as no call takes effect after what it had checked has changed.
THEOREM SpecImplementsClaims == Spec => ImplementsClaims
<1>1. IInv /\ IInv' /\ [Next]_vars => [Claims!Next \/ overlapped']_(Claims!claims)
  BY NextImplementsClaims DEF ClaimsStep
<1> QED BY <1>1, InitImplementsClaims, SpecIInv, PTL DEF Spec, ImplementsClaims

-----------------------------------------------------------------------------
(* Kernel drivers on Linux                                                 *)

\* A device that has just been opened.
LEMMA DriversStart == DriversInit => DriversInv
BY SMT DEF DriversInit, DriversInv, DriversTypeOK, DriversReturn, OneClaim, Exist

\* A claim usbfs has granted, when either the driver was sent away for it (reattach)
\* or there was none.
LEMMA GrantedKeeps ==
  ASSUME DriversInv, NEW n \in Names, NEW i \in Numbers, NEW reattach \in BOOLEAN,
         Granted(n, i, reattach),
         ~reattach => bound[i] # "kernel"
  PROVE  DriversInv'
<1> DEFINE new == [name |-> n, num |-> i, reattach |-> reattach, phase |-> "live"]
<1>1. /\ bound' = [bound EXCEPT ![i] = "usbfs"]
      /\ objects' = objects \union {new}
      /\ misused' = IF Exist(i) = {} THEN misused ELSE misused \union {i}
      /\ detached' = detached
  BY DEF Granted
<1>2. new \in InterfaceObjects
  BY DEF InterfaceObjects
<1>3. DriversTypeOK'
  BY <1>1, <1>2 DEF DriversInv, DriversTypeOK
<1>4. \A j \in Numbers : j # i => Exist(j)' = Exist(j)
  BY <1>1 DEF Exist
<1>5. Exist(i)' = Exist(i) \union {new}
  BY <1>1 DEF Exist
<1>6. DriversReturn'
  <2> SUFFICES ASSUME NEW j \in Numbers, j \notin misused'
               PROVE  /\ \A o \in Exist(j)' : o.phase = "live" => bound'[j] = "usbfs"
                      /\ Exist(j)' = {} /\ j \in Driven \ detached' => bound'[j] = "kernel"
    BY DEF DriversReturn
  <2>1. CASE j = i
    BY <2>1, <1>1, <1>5 DEF DriversInv, DriversTypeOK
  <2>2. CASE j # i
    <3>1. j \notin misused
      BY <1>1
    <3> QED
      BY <2>2, <3>1, <1>1, <1>4 DEF DriversInv, DriversTypeOK, DriversReturn
  <2> QED
    BY <2>1, <2>2
<1>7. OneClaim'
  <2> SUFFICES ASSUME NEW j \in Numbers, j \notin misused'
               PROVE  /\ \A o, p \in Exist(j)' : o = p
                      /\ \A o \in Exist(j)' : o.phase = "released" \/ j \in Driven \ detached' => o.reattach
                      /\ \A o \in Exist(j)' : o.phase = "released" => bound'[j] # "usbfs"
    BY DEF OneClaim
  <2>1. j \notin misused
    BY <1>1
  <2>2. CASE j = i
    <3>1. Exist(i) = {}
      BY <2>2, <1>1
    <3>2. Exist(j)' = {new}
      BY <2>2, <3>1, <1>5
    <3>3. ~reattach /\ i \in Driven => i \in detached
      BY <2>1, <2>2, <3>1 DEF DriversInv, DriversReturn
    <3> QED
      BY <2>2, <3>2, <3>3, <1>1
  <2>3. CASE j # i
    BY <2>1, <2>3, <1>1, <1>4 DEF DriversInv, OneClaim
  <2> QED
    BY <2>2, <2>3
<1> QED
  BY <1>3, <1>6, <1>7 DEF DriversInv

\* Detaching and attaching, by the program itself.
LEMMA DetachKeeps ==
  ASSUME DriversInv, NEW i \in Numbers, DetachKernelDriver(i)
  PROVE  DriversInv'
<1>1. /\ misused' = IF bound[i] = "usbfs" THEN misused \union {i} ELSE misused
      /\ bound' = [bound EXCEPT ![i] = "none"]
      /\ detached' = detached \union {i}
      /\ objects' = objects
  BY DEF DetachKernelDriver
<1>2. \A j \in Numbers : Exist(j)' = Exist(j)
  BY <1>1 DEF Exist
<1>3. DriversTypeOK'
  BY <1>1 DEF DriversInv, DriversTypeOK
<1>4. DriversReturn' /\ OneClaim'
  BY <1>1, <1>2 DEF DriversInv, DriversTypeOK, DriversReturn, OneClaim
<1> QED
  BY <1>3, <1>4 DEF DriversInv

LEMMA AttachKeeps ==
  ASSUME DriversInv, NEW i \in Numbers, AttachKernelDriver(i)
  PROVE  DriversInv'
<1>1. /\ bound[i] = "none"
      /\ bound' = [bound EXCEPT ![i] = Connected(i)]
      /\ detached' = detached \ {i}
      /\ objects' = objects /\ misused' = misused
  BY DEF AttachKernelDriver
<1>2. \A j \in Numbers : Exist(j)' = Exist(j)
  BY <1>1 DEF Exist
<1>3. DriversTypeOK'
  BY <1>1 DEF DriversInv, DriversTypeOK, Connected
<1>4. DriversReturn'
  BY <1>1, <1>2 DEF DriversInv, DriversTypeOK, DriversReturn, Connected
<1>5. OneClaim'
  <2> SUFFICES ASSUME NEW j \in Numbers, j \notin misused
               PROVE  /\ \A o, p \in Exist(j) : o = p
                      /\ \A o \in Exist(j) : o.phase = "released" \/ j \in Driven \ detached' => o.reattach
                      /\ \A o \in Exist(j) : o.phase = "released" => bound'[j] # "usbfs"
    BY <1>1, <1>2 DEF OneClaim
  <2>1. CASE j = i
    <3>1. \A o \in Exist(i) : o.phase = "released"
      BY <2>1, <1>1 DEF DriversInv, DriversTypeOK, DriversReturn, Exist, InterfaceObjects
    <3> QED
      BY <2>1, <3>1, <1>1 DEF DriversInv, DriversTypeOK, OneClaim, Connected
  <2>2. CASE j # i
    BY <2>2, <1>1 DEF DriversInv, OneClaim
  <2> QED
    BY <2>1, <2>2
<1> QED
  BY <1>3, <1>4, <1>5 DEF DriversInv

\* Every driver can bind only if no interface is claimed.
LEMMA ConfigurationKeeps ==
  ASSUME DriversInv, SetLinuxConfiguration
  PROVE  DriversInv'
<1>1. /\ \A j \in Numbers : bound[j] = "none"
      /\ bound' = [j \in Numbers |-> Connected(j)]
      /\ detached' = {}
      /\ objects' = objects /\ misused' = misused
  BY DEF SetLinuxConfiguration
<1>2. \A j \in Numbers : Exist(j)' = Exist(j)
  BY <1>1 DEF Exist
<1>3. DriversTypeOK'
  BY <1>1 DEF DriversInv, DriversTypeOK, Connected
<1>4. \A j \in Numbers \ misused : \A o \in Exist(j) : o.phase = "released"
  BY <1>1 DEF DriversInv, DriversTypeOK, DriversReturn, Exist, InterfaceObjects
<1>5. DriversReturn'
  BY <1>1, <1>2, <1>4 DEF DriversReturn, Connected
<1>6. OneClaim'
  BY <1>1, <1>2, <1>4 DEF DriversInv, OneClaim, Connected
<1> QED
  BY <1>3, <1>5, <1>6 DEF DriversInv

\* The two steps of Drop for LinuxInterface.
LEMMA ReleaseKeeps ==
  ASSUME DriversInv, NEW o \in objects, Release(o)
  PROVE  DriversInv'
<1> DEFINE kept == IF Reattaches(o) THEN {[o EXCEPT !.phase = "released"]} ELSE {}
<1>1. /\ o.phase = "live"
      /\ objects' = (objects \ {o}) \union kept
      /\ bound' = [bound EXCEPT ![o.num] = IF @ = "usbfs" THEN "none" ELSE @]
      /\ detached' = detached /\ misused' = misused
  BY DEF Release
<1>2. o \in InterfaceObjects /\ o.num \in Numbers
  BY DEF DriversInv, DriversTypeOK, InterfaceObjects
<1>3. \A p \in kept : p \in InterfaceObjects /\ p.num = o.num /\ p.phase = "released" /\ p.reattach
  BY <1>2 DEF InterfaceObjects, Reattaches
<1>4. DriversTypeOK'
  BY <1>1, <1>2, <1>3 DEF DriversInv, DriversTypeOK
<1>5. /\ Exist(o.num)' = (Exist(o.num) \ {o}) \union kept
      /\ \A j \in Numbers : j # o.num => Exist(j)' = Exist(j)
  BY <1>1, <1>2, <1>3 DEF Exist
<1>6. o.num \notin misused => Exist(o.num)' = kept
  BY <1>2, <1>5 DEF DriversInv, OneClaim, Exist
<1>7. DriversReturn'
  <2> SUFFICES ASSUME NEW j \in Numbers, j \notin misused
               PROVE  /\ \A p \in Exist(j)' : p.phase = "live" => bound'[j] = "usbfs"
                      /\ Exist(j)' = {} /\ j \in Driven \ detached => bound'[j] = "kernel"
    BY <1>1 DEF DriversReturn
  <2>1. CASE j = o.num
    <3>1. bound[j] = "usbfs"
      BY <2>1, <1>1 DEF DriversInv, DriversReturn, Exist
    <3>2. j \in Driven \ detached => o.reattach
      BY <2>1 DEF DriversInv, OneClaim, Exist
    <3> QED
      BY <2>1, <3>1, <3>2, <1>3, <1>6 DEF Reattaches
  <2>2. CASE j # o.num
    BY <2>2, <1>1, <1>2, <1>5 DEF DriversInv, DriversTypeOK, DriversReturn
  <2> QED
    BY <2>1, <2>2
<1>8. OneClaim'
  <2> SUFFICES ASSUME NEW j \in Numbers, j \notin misused
               PROVE  /\ \A p, q \in Exist(j)' : p = q
                      /\ \A p \in Exist(j)' : p.phase = "released" \/ j \in Driven \ detached => p.reattach
                      /\ \A p \in Exist(j)' : p.phase = "released" => bound'[j] # "usbfs"
    BY <1>1 DEF OneClaim
  <2>1. CASE j = o.num
    BY <2>1, <1>1, <1>2, <1>3, <1>6 DEF DriversInv, DriversTypeOK
  <2>2. CASE j # o.num
    BY <2>2, <1>1, <1>2, <1>5 DEF DriversInv, DriversTypeOK, OneClaim
  <2> QED
    BY <2>1, <2>2
<1> QED
  BY <1>4, <1>7, <1>8 DEF DriversInv

LEMMA ReattachKeeps ==
  ASSUME DriversInv, NEW o \in objects, Reattach(o)
  PROVE  DriversInv'
<1>1. /\ o.phase = "released"
      /\ objects' = objects \ {o}
      /\ bound' = [bound EXCEPT ![o.num] = Connected(o.num)]
      /\ detached' = detached /\ misused' = misused
  BY DEF Reattach
<1>2. o \in InterfaceObjects /\ o.num \in Numbers
  BY DEF DriversInv, DriversTypeOK, InterfaceObjects
<1>3. DriversTypeOK'
  BY <1>1, <1>2 DEF DriversInv, DriversTypeOK, Connected
<1>4. \A j \in Numbers : Exist(j)' = Exist(j) \ {o}
  BY <1>1 DEF Exist
<1>5. o.num \notin misused => Exist(o.num)' = {}
  BY <1>2, <1>4 DEF DriversInv, OneClaim, Exist
<1>6. \A j \in Numbers : j # o.num => Exist(j)' = Exist(j)
  BY <1>4 DEF Exist
<1>7. DriversReturn'
  <2>1. o.num \notin misused => bound[o.num] # "usbfs"
    BY <1>1, <1>2 DEF DriversInv, OneClaim, Exist
  <2> QED
    BY <1>1, <1>2, <1>5, <1>6, <2>1 DEF DriversInv, DriversTypeOK, DriversReturn, Connected
<1>8. OneClaim'
  BY <1>1, <1>2, <1>5, <1>6 DEF DriversInv, OneClaim
<1> QED
  BY <1>3, <1>7, <1>8 DEF DriversInv

\* Every step, whoever takes it.
LEMMA DriversStep == DriversInv /\ [DriversNext]_kernelDrivers => DriversInv'
<1> SUFFICES ASSUME DriversInv, [DriversNext]_kernelDrivers PROVE DriversInv'
  OBVIOUS
<1>1. CASE \E i \in Numbers, n \in Names : ClaimInterface(n, i) \/ DetachAndClaim(n, i)
  BY <1>1, GrantedKeeps DEF ClaimInterface, DetachAndClaim
<1>2. CASE \E i \in Numbers : DetachKernelDriver(i) \/ AttachKernelDriver(i)
  BY <1>2, DetachKeeps, AttachKeeps
<1>3. CASE SetLinuxConfiguration
  BY <1>3, ConfigurationKeeps
<1>4. CASE \E o \in objects : Release(o) \/ Reattach(o)
  BY <1>4, ReleaseKeeps, ReattachKeeps
<1>5. CASE UNCHANGED kernelDrivers
  BY <1>5 DEF kernelDrivers, DriversInv, DriversTypeOK, DriversReturn, OneClaim, Exist
<1> QED
  BY <1>1, <1>2, <1>3, <1>4, <1>5 DEF DriversNext

\* The inductive invariant, for any interfaces, drivers and objects.
THEOREM DriversInvariant == DriversSpec => []DriversInv
BY DriversStart, DriversStep, PTL DEF DriversSpec

\* Whatever is claimed, dropped, detached and attached, in any order and on any thread:
\* Drop for LinuxInterface gives an interface that the program has not misused back to
\* the driver that detach_and_claim_interface took it from.
THEOREM DriversComeBack == DriversSpec => []DriversReturn
<1>1. DriversInv => DriversReturn
  BY DEF DriversInv
<1> QED
  BY <1>1, DriversInvariant, PTL
=============================================================================
