# A formal model of nusb

nusb is a USB library: programs enumerate devices, open them, claim interfaces,
open endpoints and move data with queued transfers, from async tasks or from
blocking threads, on Linux, Windows, macOS and in a browser. There is no
process of its own: its state is shared between the program's threads, one
event thread (or the thread pool of Windows, or a run loop) and the kernel,
under raw pointers, reference counts and a few locks. That is what these TLA+
modules model. All source paths below are relative to `src/src/`.

Contents: 1 the system, 2 modules and how they correspond to the code,
3 what is checked, 4 what is proved, 5 what was found, 6 what is not modelled,
7 plan.

## 1. The system

### Components, their state, their operations

| component | state | operations | source | modules |
|---|---|---|---|---|
| transfer hand-over | one heap box per transfer with an atomic state IDLE / PENDING / ABANDONED; a `Notify` (waker or parked thread) shared by the transfers of an owner | `Idle::pre_submit`, `Pending::is_complete`, `into_idle`, `Drop for Pending`, `notify_completion`, `Notify::wait`, `wait_timeout`, `subscribe` | `transfer/internal.rs` | TransferHandshake |
| endpoint | FIFO of `Pending` transfers, one cached idle transfer, the address' bit in the interface | `submit`, `poll_next_complete`, `wait_next_complete`, `cancel_all`, drop, `transfer_blocking` | `device.rs`, `platform/*/device.rs` | EndpointQueue; LinuxEndpoint, BackendEndpoint, TransferBlocking |
| device and interface, Linux | file descriptor, reference counts, the claim, alternate setting and endpoints in use under one mutex; kernel drivers | `claim_interface`, `detach_and_claim_interface`, `set_configuration`, `set_alt_setting`, `endpoint`, control transfers, drop | `platform/linux_usbfs/device.rs` | InterfaceClaims; LinuxInterface, KernelDrivers |
| device and interface, Windows | map of shared WinUSB files with the interfaces claimed of each, children of a composite device | the same | `platform/windows_winusb/device.rs` | InterfaceClaims; BackendDevice |
| device and interface, macOS | exclusive-open flag, count of claimed interfaces, run loop thread with a count of sources | the same, `set_configuration`, `reset` | `platform/macos_iokit/device.rs`, `events.rs` | InterfaceClaims; BackendDevice |
| device and interface, WebUSB | what the page has claimed; a check, a promise, and what follows it | the same as futures of one thread | `platform/webusb/device.rs` | InterfaceClaims; BackendDevice |
| control timeouts | Linux: ordered map of deadlines under a mutex, one timerfd. Windows: a threadpool timer per transfer, a mutex per interface | submit, timer, completion | `platform/linux_usbfs/device.rs`, `platform/windows_winusb/device.rs` | LinuxTimeouts; WindowsControl |
| hotplug watches, Linux event loop | queue of events, one waker, what is armed | `poll_next`, the OS's callbacks, drop | `platform/*/hotplug.rs`, `events.rs` | Hotplug |
| enumeration | a `DeviceInfo`, put together read by read | `list_devices`, `open` | `enumeration.rs`, `platform/*/enumeration.rs`, `hub.rs` | Enumeration |
| buffered reader | buffer being read, position, status, number of transfers | `Read`, `BufRead`, until-short-packet adapter, `cancel_all`, `set_num_transfers` | `io/read.rs` | EndpointRead |
| buffered writer | buffer being written, number of transfers | `Write`, `submit`, `submit_end`, `flush`, `flush_end` | `io/write.rs` | EndpointWrite |
| buffers | pointer, length, requested length, capacity, allocator | construction, filling, the way into a transfer and back | `transfer/buffer.rs`, `platform/*/transfer.rs` | Buffers |
| descriptors | none: iterators over bytes | parse configurations, interfaces, endpoints | `descriptors.rs` | Descriptors |

### How they interact

The program calls `Device`, `Interface` and `Endpoint`, which hold `Arc`s to
the backend's objects: an `EndpointInner` holds its `XInterface`, which
holds its `XDevice`; every transfer holds the `EndpointInner` through the
`Notify` inside it. A submission gives the kernel the raw address of a box.
The event thread reaps it (or a callback of the pool, or of the run loop, has
it), and `notify_completion` on that address either publishes the completion to
the user's `Pending` handle and wakes the waiter of `Notify`, or frees the box
if the handle was dropped. `EndpointRead` and `EndpointWrite` own an `Endpoint`
and use nothing but its public methods. A hotplug watch shares only its queue
and its waker with the thread that fills it.

### What is hard about it

* two sides race for a box without a lock: completion against drop, completion
  against waiting, and an inline completion when a submission fails;
* wake-ups go through one registration shared by several transfers, or one
  waker that has to be stored before the queue is looked at;
* `cancel_all` walks a queue that the event thread completes under it;
* destructors run on whichever thread drops the last reference, the event
  thread included, while the kernel still has transfers;
* timeouts race completions, on a map whose keys are addresses that get reused,
  or in a callback that may run before the request exists;
* several interfaces share one file, one flag or one counter;
* checks and what depends on them are under different lock acquisitions, or on
  either side of an await;
* a device can be replaced between any two reads about it;
* the buffered reader and writer keep their place through timeouts, failures,
  cancellation and changes of depth.

The list with lines is under `hazards` in `PROJECT.json`.

### What makes each component correct

* hand-over: no access to freed memory, exclusive access, no leak, no panic,
  every wait that can end ends;
* endpoint: it is a FIFO that returns every buffer once, in order, and
  cancellation leaves no hole in the data; it counts as free only when nothing
  of it is left; cancelled, unplugged and dropped transfers end;
* timeouts: no transfer is timed out early, late by a lost timer, or after it
  is gone;
* interface and device: an interface is claimed once, endpoints are exclusive and
  quiescent when the alternate setting changes, no transfer outlives its claim
  and its file, what is open has an owner, everything let go of is released, and
  the kernel driver comes back;
* hotplug: a program that lists devices after it created the watch ends up with
  the right list;
* enumeration: the device that is opened is the one that was listed, as far as
  the system's names for it allow;
* reader and writer: the byte stream is preserved and message ends are where
  they belong;
* buffers and descriptors: memory has one owner and is initialised where it is
  read; the bytes of a configuration are parsed as what they describe, up to the case
  of section 5.

## 2. The modules

```
EndpointQueue      what an Endpoint promises                     (abstract)
   ^  ^  ^
   |  |  +--------- EndpointRead, EndpointWrite   over the contract
   |  | implement
   |  +------------ BackendEndpoint   Windows, macOS, WebUSB
LinuxEndpoint      LinuxEndpoint over usbfs and the event thread
   |  ^
   |  +------------ TransferBlocking  Endpoint::transfer_blocking over LinuxEndpoint
   |                TransferBlockingProofs
   | uses each step of
TransferHandshake  Idle, Pending, Notify, notify_completion
TransferHandshakeProofs

InterfaceClaims    what Device and Interface promise             (abstract)
   ^ implements
BackendDevice      devices and interfaces of Windows, macOS, WebUSB
BackendDeviceProofs  proofs about BackendDevice and KernelDrivers
LinuxInterface     device, interface, endpoints on Linux: reference counts, settings
LinuxInterfaceProofs
KernelDrivers      claims of several interfaces on Linux, kernel drivers

LinuxTimeouts, WindowsControl      timeouts of control transfers
Hotplug            watches of the four platforms, the epoll loop, a program
Enumeration        listing and opening on Linux, Windows and macOS
Selection          the elements of a sequence that are in a set, for the histories of the
                   reader and the writer
Buffers            the memory of transfers on the four platforms
Descriptors        the iterators of descriptors.rs

MCBackends         BackendDevice, KernelDrivers, BackendEndpoint, LinuxEndpoint, Enumeration
MCCallbacks        LinuxTimeouts, WindowsControl, Hotplug
MCData             EndpointRead, EndpointWrite, Buffers, Descriptors
MCLinuxInterface, MCEndpointRead   constants and symmetry
LinuxEndpointProofs  proofs about the LinuxEndpoint of MCBackends, reusing those of the hand-over
BackendsProofs     proofs about MCBackends, reusing those, of the devices and of the drivers
CallbacksProofs    proofs about MCCallbacks
DataProofs         proofs about MCData
```

The last group instantiates components for TLC. An initial state of `MCBackends`, `MCCallbacks`
or `MCData` chooses which of them the `program` uses and the others stand still,
so that one run goes through several state spaces one beside the other (it does
not multiply them). A property of such a run is one statement about what its programs share, or
holds vacuously for those it is not about.

Conventions. An operator `X_Y` is a *mutant* of `X`: what a plausible mistake
in that code would be. No specification uses it; it documents what the
properties can tell apart, and is substituted for `X` to see that they do.
`PROJECT.json` ("map") gives the source lines of each definition; those of
systems outside the code (usbfs, IOKit, the browser) are marked external.
Values are abstract where no property looks inside: a transfer, a buffer, a
thread is a name.

### TransferHandshake (`transfer/internal.rs`)

`state`, `handle`, `live` are the box, its atomic state and the user's handle;
`notify` is the shared registration; `upc/ut/mode/expired` is the caller, who
is single because the owner's methods take `&mut self`; `hpc/job/wake` is each
thread inside `notify_completion`. One action is one atomic step: the lock of
`Notify`, one access to `state`, one system call. So `notify_completion` is
`TakeNotifyState`, `SwapIdle`, then `Wake` or `Free`, and a wait is
`Subscribe`, check, park. Wake-ups (`woken`) are kept as the park token and the
scheduled task are: a wake before the park is not lost. `std::thread::park` may
return spuriously (`SpuriousUnpark`) and the task may be woken for other
reasons or never.
Allocation may reuse an address that was freed. The relaxed loads the code
uses are modelled as atomic reads of the one location; what the acquire and
release orderings carry (the contents of the box) is abstracted to the question
who may access it, `ExclusiveAccess`.

### EndpointQueue, LinuxEndpoint, BackendEndpoint (`device.rs`, `platform/*/device.rs`)

`EndpointQueue` states the contract: `queue`, the `result` of each buffer,
which were `asked` to stop, and in what order results may come. A transfer
succeeds only when those before it have ended, only what was asked to stop is
cancelled, and nothing succeeds behind a cancelled transfer unless it was
submitted after the request: so cancellation never punches a hole in the data.

`LinuxEndpoint` has the queue `pending` of handles and the cached idle
transfer, and takes *every step of TransferHandshake* (`H!...`) in its place
in `submit`, `poll_next_complete`, `cancel_all` and drop. `cancel_all` is a loop
of one `Cancel` (discard ioctl) per iteration from the newest transfer, with
completions in between. The environment is usbfs: URBs end in order with the
device (`FinishUrb`), a discard ends a URB that is still active, unplugging
ends all (`Disconnect`), `REAPURB` answers `ENODEV` once nothing is left. The
abstract `open`, `queue` and `result` are read off the detailed state; a result
exists for the program from the moment the state is published.

`BackendEndpoint` has the endpoints of the other three platforms, the one in use
being chosen initially: `CancelIoEx` per transfer from the newest on Windows with
callbacks on the threads of a pool in any order, `AbortPipe` for the pipe on macOS
with callbacks on the run loop, promises on WebUSB, where nothing can be
cancelled and dropping the endpoint drops its futures while the browser carries
on. A completion is handed over in one step here, since
`TransferHandshake` takes that apart. Both implement `EndpointQueue`.

### TransferBlocking (`device.rs:842-862`)

`Endpoint::transfer_blocking` as a program that calls `LinuxEndpoint`'s
operations: submit, wait with a timeout, cancel all, wait without one. The other
program of `BlockingSpec` uses the endpoint freely, for the liveness of
cancelled, unplugged and dropped transfers.

### InterfaceClaims and BackendDevice (`platform/{windows_winusb,macos_iokit,webusb}/device.rs`)

`InterfaceClaims` is the promise: an interface is claimed once at a time, has its
setting changed or is released only without an endpoint in use. `BackendDevice`
has one section for each platform, with several tasks and interface objects
(`obj`, an `Arc` that `Referenced` keeps):

* Windows: `handles` is the map under the mutex, `ClaimWindows` the locked
  part of a claim (find the file of the function, or open it; claim; insert), and a
  drop is two steps, freeing the associated handle and, locked, clearing the
  claim and removing the file with the last one. Functions of a composite device get
  their nodes one by one (`ChildAppears`).
* macOS: opening registers an event source, then opens and reads the descriptors, which
  can fail and undo both; claims are register, open, count, in three steps on any thread;
  `set_configuration` and `reset` are `RequireOpenExclusive` and what follows;
  `EVENT_LOOP` counts event sources and runs its thread while there are any.
* WebUSB: the check, and after the await the effect, with other tasks in between.
  `overlapped` records that what was checked had changed, and
  the refinement is claimed up to that point.

### LinuxInterface and KernelDrivers (`platform/linux_usbfs/device.rs`, `device.rs`)

`LinuxInterface`: reference counts as predicates (`InnerReferenced`,
`InterfaceReferenced`, `DeviceReferenced`): an object drops when its predicate is
false, on whichever thread. `set_alt_setting` and `endpoint` take the mutex and
release it in separate steps, and `FindDescriptor` (which reads the alternate
setting and the descriptor in `Interface::endpoint`) is a step before `Open`. One
step here stands for the whole hand-over of `TransferHandshake`, and an endpoint
has one transfer instead of a queue.

`KernelDrivers` has several interfaces and several `LinuxInterface` objects, what
each interface is `bound` to in the kernel, and the calls that change it.
Drop is `Release` and `Reattach`, with other threads in between. usbfs lets a
file claim again what it has claimed, and detach its own claim; `misused` records
the interfaces with which a program has done that.

### LinuxTimeouts, WindowsControl

`LinuxTimeouts` (`platform/linux_usbfs/device.rs:258-321, 506-531`): the map
(`timeouts`), the mutex (`lock`), the timerfd (`timer`), a submitting thread per
transfer and the event thread, which both reaps and handles timer events. Time is
a counter, moved by `Tick` between any two steps; `now` is read once where the
code reads it once, so a deadline can pass between the reading and the
`timerfd_settime`.

`WindowsControl` (`platform/windows_winusb/device.rs:696-779, 415-480`,
`threadpool.rs`): for each transfer the submitting thread, the I/O callback and
the timer callback, which run at the same time. `timeout_mutex` holds a timer
callback back until the request exists, and `cancel_and_wait` (`CancelTimer`,
then `CallbacksOver`) keeps the box until a running callback is over. A box is used again
once it is free. If no timer can be had, the submitting thread panics with the mutex
(`TimerNewPanics`): the box is freed as the thread unwinds and the mutex is poisoned for all that come
later. What is in flight then is no longer timed out, since a timer callback panics on it
too, and `TimerEndsTransfer` excepts it. WinUSB is taken to accept a request or to refuse it with an error of its own:
should it complete one synchronously, `post_submit` (764-769) goes by the `GetLastError` of an earlier
call. The same goes for the endpoints of Windows in `BackendEndpoint`.

### Hotplug (`hotplug.rs`, `platform/*/hotplug.rs`, `platform/linux_usbfs/events.rs`)

The watch of each platform at the grain of its shared state: `raw` is what the
system holds (netlink messages, callbacks to come, `terminated_iter`), `events`
the queue of the watch, `armed` the one-shot registration with epoll or the
iterators that will notify, `callback` the thread that is about to `Wake`.
`poll_next` is `Poll`, a pop, `Probe` for an arrival, and `Register` and `Arm` on
Linux. The program is the one in the documentation of `watch_devices`: it creates
the watch, lists the devices, and keeps its map (`known`) from the stream.

### Enumeration (`enumeration.rs`, `platform/*/enumeration.rs`, `hub.rs`)

A *connection* is one stay of a device at a port. Each read of `probe_device` and
of opening names the device in its own way (the path of its port in sysfs, its
address, its Windows instance, the port of its hub, its registry entry), and the
model records of which connection the answer is. Plugging and pulling go on
between any two reads.

### EndpointRead, EndpointWrite (`io/read.rs`, `io/write.rs`)

The endpoint is `EndpointQueue` itself: its actions `Q!Submit`, `Q!Return`,
`Q!CancelAll`, `Q!Finish` are conjuncts of theirs, so that what is checked
holds of any backend that implements the contract. Bytes are numbered, `End`
is a short packet. `Selected(s, Nat \ {End})` (`Selection`) is what is left of a sequence
without the ends. `EndpointRead` records what the device `sent` and what the
program `got`, `EndpointWrite` what was `written`, what went `out` and what
was reported `lost`. `fill_buf`, `write` and `flush` are loops in the code, and
here a `call` in progress with one action for each turn of its loop; giving up
(a timeout, or a future dropped while Pending) leaves the loop at its waiting point.

### Buffers, Descriptors (`transfer/buffer.rs`, `platform/*/transfer.rs`, `descriptors.rs`)

`Buffers`: `memory` says what is allocated where, by which allocator, and how far it is
initialised; a `Buffer` in hand and the `TransferData` of the endpoint pass it to
each other as each platform does it. `Descriptors` has the parsers as recursive
functions on sequences of bytes, and beside them a definition of what the device
describes that knows nothing of offsets: an interface descriptor has all that follows up to the next one, and
the endpoints are the endpoint descriptors among these, as `descriptors.rs:540-547` says. The
device puts its configuration together part
by part, malformed parts included. `ParsedAsDescribed` claims that the two agree, except for an alternate setting
with a descriptor of two bytes. There the parser stops early (section 5), and what it
has read must still be a beginning of what was described.

## 3. What is checked

| run | question | bounds | size |
|---|---|---|---|
| `handshake` | hand-over: memory safety, exclusive access, no leak, no panic; waits end | 2 boxes, 1 event thread and the caller, all three ways to wait | 32,119 states |
| `handshake_lost_wakeup` | is a waiter always woken? **no** | 1 box | |
| `blocking_transfer` | does `transfer_blocking` return with nothing left pending; do cancelled, unplugged and dropped transfers end | 2 transfers, 2 buffers, a device that may never answer | 156,244 |
| `callbacks` | control transfer timeouts on Linux and Windows; does a watch converge | 2 transfers, timeouts 1 and 3, time to 6 in steps of 2; 2 devices, 3 plug events, 4 platforms | 88,359 |
| `timeouts_exact` | the same when a deadline equals the clock reading: **no** | timeouts 0 and 2 | |
| `interface` | exclusive endpoints, life of transfers, alternate settings, release on Linux | 2 threads, 2 endpoints, 2 alternate settings, a control transfer | 53,932 |
| `interface_alt_race` | do open endpoints belong to the current setting: **no** | the same | |
| `data` | streams, message ends, slices; buffers; descriptors | reader: 3 buffers, packets of 1, transfers of 2, 4 items sent; writer: packets of 2, transfers of 4, 6 items; 2 allocations of up to 4 bytes; 3 parts of a configuration | 1,533,604 |
| `reader_consume` | `BufRead` through the adapter: **panics** | 2 buffers | |
| `backends` | do the backends implement `InterfaceClaims` and `EndpointQueue`; what is open, who drives an interface, which device is opened | 2 tasks, 2 objects, 3 interfaces; 2 interfaces and 3 objects for kernel drivers; 3 buffers (2 and 2 transfers on Linux); 2 devices, 2 ports, 3 connections | 629,814 |
| `buffer_len` | has a completed buffer the length that was received: **not on WebUSB** | 2 allocations | |
| `hotplug_stall` | does the stream deliver every event: **not on Windows** | 2 devices, 3 plug events | |

"Size" is the number of distinct states. The answers in bold disagree with the
code's own documentation (section 5).

### Why the bounds are enough

* Two boxes are the least with which the shared `Notify` matters: the
  completion of one takes the registration of the waiter for the other. The
  same run with two event threads (a thread pool) has 331,211 states and passes
  as well; it takes minutes with the liveness properties, and the safety
  properties are proved for any number of both (section 4).
* For `LinuxEndpoint` two transfers suffice for order, for cancellation with one
  completing under the loop, and for the cached transfer to be replaced; the
  order properties relate pairs. In `backends` its owner polls and URBs succeed
  unless something ends them; timed waits, lost wake-ups and a device that never
  answers are in `blocking_transfer`, and the untimed `wait` is left to
  `TransferHandshake`, whose run has all three ways to wait. `BackendEndpoint`, which
  has fewer steps, gets three buffers: a cancelled one between two others.
* `BackendDevice` has three interfaces on Windows (two in one function, one in
  another), two objects, so that the last claim of a file meets a new one, and
  two tasks, so that one is between its check and its effect when the other acts.
  macOS and WebUSB claim two interfaces (`Few`), none of which is special.
* `KernelDrivers` has an interface with a driver and one without, and three
  objects: one being dropped and two that claim. It is proved for any number.
* `LinuxTimeouts` needs a nearer and a farther deadline in both orders of insertion
  and removal; even times of the clock and odd timeouts keep a deadline from
  being equal to a reading of the clock, the case of `timeouts_exact`. The clock
  stops at 6, so the model stops: its deadlock check is off.
* `Hotplug` has every initial set of connected devices. Three plug events have a
  device come, go and come again, or one arrive whose probe fails with another's
  event behind it in the queue (`hotplug_stall`). `DropWatch`, the end of plug
  events and an unused program all stop the model, so deadlock is not checked.
* `Enumeration`: with two devices, two ports and three connections a device is replaced by
  another, moves to another port, or comes back to its own.
* `interface` has settings with a common address and one of its own, and the two
  endpoints may be of either. The check for deadlock is off because a program
  that has dropped everything is done; the same goes for `backends`.
* The reader's transfers of two packets have the cases empty, part and full,
  and four items make two full transfers, or a message and a bit of the next.
  Message reads, plain reads and `cancel_all` are mixed freely. `BufRead` and
  `AsyncBufRead` of the adapter are left out of the passing run: their defects
  are known (section 5).
* The writer's transfers of two packets of two bytes have every remainder that
  `submit_end` and the device distinguish; three buffers let two be queued while
  one is filled or a zero-length packet is added.
* `Buffers`: a program with one buffer in hand and one in a transfer already passes
  the same memory round and mixes allocators and capacities; lengths up to 3 with packets of
  2 have a read of no packet, of a part and of a whole one.
* `Descriptors`: three parts of a menu of 12, which has each kind with its least
  length and one below, `bLength` of 0, 1, 2 and beyond the end, and a total length that is right,
  one off either way, or beyond the buffer.
* Histories and clocks (`MaxSent`, `MaxWritten`, `MaxTime`, `MaxPlugs`, `MaxObjects`, `MaxFlying`,
  `MaxLen`, `MaxParts`) are the only cut-offs; each is a guard of the action that produces, never of one that
  consumes.
* Permutation symmetry is used in runs of safety properties and refinements only.

### Fairness, and why the code justifies it

Every run with liveness states it as weak fairness of threads that do not wait
for anything: the event thread runs (`epoll_wait` returns what is ready and the
thread never blocks but for short critical sections), a method called runs to
its end, destructors run, timeouts elapse. No fairness is assumed of the
program (it may never call again), nor of the device (it may never answer; in
`TransferHandshake` the kernel need not end any transfer), except that usbfs ends the URBs of an unplugged device and those it was told
to discard, and ends control transfers with a timeout. Strong fairness is used
for taking the mutex of the timeouts (`LinuxTimeouts`, `WindowsControl`) against a competitor, since a thread
waiting for a `std::sync::Mutex` or a `SRWLOCK` gets it some time, and for reaping each of
several finished transfers (`LinuxInterface`), since usbfs reports them in the order in which
they finished. `Hotplug` has weak fairness of the system's callbacks, of the
thread that wakes, and of the task once woken: an executor polls what was
woken. It has none of plugging, and none of dropping the watch.
In `MCCallbacks` the fairness of each module is restricted to its program, which changes nothing
for the programs, since the others' steps are never enabled.

### Properties worth reading

* `NoOrphan`, `NoDanglingPointer`, `ExclusiveAccess` (TransferHandshake): freed
  exactly once, by whoever is last;
* `TakenWakeIsDelivered`: a registration that was taken wakes its waiter. With
  `CompletionWakes` violated, this says exactly how far the promise goes;
* `ImplementsQueue` (LinuxEndpoint, BackendEndpoint): refinement of the contract, on Linux
  through every step of the hand-over;
* `FreeMeansQuiescent`: the mark that guards re-opening and alternate settings
  is cleared only when no transfer is left anywhere. WebUSB is excepted: it
  drops the mark with the endpoint and the browser carries on;
* `ImplementsClaims`, `HandlesMatchClaims` (BackendDevice): the promise of `InterfaceClaims` on
  every platform, and what is held open is what is claimed, in every interleaving of claims and drops;
* `EventLoopRuns`: the run loop of macOS runs as long as anything is registered with
  it, claims that fail half-way included;
* `DriversReturn` (KernelDrivers): a driver that was sent away comes back;
* `TransfersHaveTheirInterface` (LinuxInterface): whatever is dropped first;
* `NothingStale` (MCCallbacks): what refers to a transfer by address, an entry of the map
  or a timer with its callback, does not outlive it, and is there as long as it is needed;
* `MapConverges` (Hotplug): no wake-up is lost, on any of the four ways in which events reach
  a watch, and what the program sees is in an order it can follow;
* `Identified` (Enumeration): which mixtures of devices are impossible;
* `BytesInOrder`, `MessageBoundaries`, `FlushMeansSent` (EndpointRead, EndpointWrite);
* `BuffersAreSound`, `ParsedAsDescribed`.

## 4. What is proved

`TransferHandshakeProofs` proves, for any set of box addresses and any set of
event threads, from `UserAssumption` (the caller's thread is not an event
thread) and `NoTransferAssumption` (a null is not an address):

| theorem | states |
|---|---|
| `InductiveInvariant` | `Spec => []IInv` |
| `TypeCorrect` | `TypeOK` |
| `MemorySafety` | `NoDanglingPointer`: no handle, kernel or handler pointer outlives its box |
| `NoConcurrentAccess` | `ExclusiveAccess`: user and completing side never both have a transfer, one thread completes it |
| `NothingLost` | `NoOrphan`: what is waited for will be completed by someone, what is abandoned freed by someone |
| `PanicFree` | `NoPanic`: the panics on an unexpected state are unreachable |
| `CompletionIsStable` | `CompleteIsStable`: complete stays complete while the handle lives |

The argument. None of the four safety properties is inductive alone. That a
thread in `notify_completion` may touch its box (`NoDanglingPointer`) depends on
nobody having freed it, and a user frees a box in `Drop for Pending` only when
it reads IDLE: so one needs that IDLE implies nobody else has the box
(`ExclusiveAccess`); that the event thread frees only what nobody will use
needs that an abandoned box has no handle (`NoOrphan`, `HandlerInv`); and that
the swap sees PENDING or ABANDONED (`NoPanic`) needs that each transfer is with
one completing thread. `IInv` is their conjunction with the types, `CallInv`
(what the caller's program counter says of its operand) and `HandlerInv` (the
same for the handlers). It is proved in three lemmas by who takes the step:
`UserStep`, `HandlerStepLemma`, `TypeStep`; the only step that needs an argument
of its own is the drop of a Pending handle, `DropPendingStep`.

`LinuxInterfaceProofs` proves, for any threads, endpoints, addresses and alternate
settings, from `AltAssumption` (0 is a setting, each has a set of addresses) and
`NameAssumption` (the names are distinct):

| theorem | states |
|---|---|
| `InductiveInvariant` | `Spec => []IInv` |
| `TypeCorrect` | `TypeOK` |
| `EndpointsAreExclusive` | `ExclusiveEndpoint`: an address is open once at most, and not again while a transfer is out |
| `NoTransferOutlives` | `TransfersHaveTheirInterface`: whatever is dropped first |
| `AltSettingChangesQuietly` | `AltSettingIsQuiescent`: no endpoint and no transfer is left when the setting changes |

The argument. `LifetimeInv` is the order of life-times: a transfer or a handle keeps
its `EndpointInner`, that its `LinuxInterface`, that the claim and the file; every
destructor runs only when its object's predicate is false, so it breaks no link
of the chain. `LockInv` says that `InterfaceState.endpoints` is exactly the set
of addresses of the `EndpointInner`s that exist, and is empty while a thread is in
`set_alt_setting`. That exactness is what the properties need and cannot state
themselves: freeing one endpoint's address must not free another's, which is
`ExclusiveEndpoint`, which in turn holds because `Open` tests the set.

`BackendDeviceProofs` proves of `KernelDrivers`, for any interfaces, any of them with a driver, and
any number of `LinuxInterface` objects, without an assumption:

| theorem | states |
|---|---|
| `DriversInvariant` | `DriversSpec => []DriversInv` |
| `DriversComeBack` | `DriversReturn`: an interface that was not misused goes back to its driver |

The argument. That releasing an object gives the interface back depends on the
object being the only one of its interface, and on its `reattach` flag: it must
be set whenever there was a driver. Both are `OneClaim`, which speaks of the object that is
between its release and its reattachment too: a claim at that point would be a misuse,
so the interface is not claimed. The flag stays right because a
driver can come back under a claim in no way: attaching and a change of
configuration need every interface unbound, and a live object keeps its own bound.
There is one lemma for each action.

`CallbacksProofs` proves of `WindowsControl`, for any set of control transfers, without an assumption:

| theorem | states |
|---|---|
| `ControlInvariant` | `W!ControlSpec => []W!ControlInv` |
| `TimersBelongToPending` | `TimerReferencesPending` and `NoStrayTimer`, the Windows half of `NothingStale`: no timer and no timer callback refers to a box that is free or owned again |

The argument. A box is completed by its I/O callback if a request exists, and otherwise by
the thread that submits it, never by both (`CompleterInv`). Either has unset
the timer before it waits for the callbacks to be over, and nobody sets it in
between (`TimerInv`), so that at the moment of completion there is neither. The mutex is not
needed for this: it is there for the timer callback to find a request, which is the liveness
property `TimerEndsTransfer`.

`BackendDeviceProofs` proves of `BackendDevice`, for any interfaces, functions, alternate settings and
configurations, any finite set of tasks and any number of interface objects, from the
assumptions named in `BackendDevice` (interfaces are numbers with 0 among them, a function
starts at its first interface, 0 is a setting):

| theorem | states |
|---|---|
| `SpecIInv` | `Spec => []IInv`, types included |
| `SpecEventLoopRuns` | `EventLoopRuns`: the run loop of macOS runs exactly while something is registered |
| `SpecHandlesMatchClaims` | `HandlesMatchClaims`: what is open is what is claimed |
| `SpecImplementsClaims` | `ImplementsClaims`: the refinement of `InterfaceClaims` |

The argument. Nobody counts the objects: Windows has a table of sets, macOS two counters and a
flag. So `IInv` says for each platform how its tables follow from the objects that
exist and the claims under way: `WindowsInv` that a file is in the map exactly while an object
or a drop that has not yet reached the mutex claims one of its interfaces, `MacInv` that the counters are
the cardinalities of the live objects and of the claims that have registered a source.
Without the intermediate states (a claim that has registered but not opened, an object that
has freed its associated handle but not its claim) neither is inductive, because the
last user is the one who closes. `LifetimeInv` is the order of life-times: an endpoint or a handle keeps
its object, an object or a call its device. Given these, every step is a step of `InterfaceClaims` at the point
where it takes effect, and a stutter everywhere else; the check before a step on WebUSB is not
enough for it, which is what `overlapped` is for.

`CallbacksProofs` proves about `MCCallbacks`, for any transfers, timeouts, clocks and devices,
from the assumptions of `LinuxTimeouts` (times are numbers, the thread names differ) and
`WatchAssumption` (the platforms are the four):

| theorem | states |
|---|---|
| `SpecCallbacksInv` | `MCSpec => []CallbacksInv` |
| `SpecCallbacksTypeOK` | `CallbacksTypeOK` |
| `SpecNeverEarly` | `NeverEarly`, an action property: no URB is discarded for a timeout before its deadline |
| `SpecNoneOutlives` | `NoStaleEntry`, `CompleteOnlyIfRefused`, and the two properties of Windows |
| `SpecNothingStale` | `NothingStale`, if no deadline is equal to a clock reading |

The argument, on Linux. An entry of the map is keyed by the URB's address, so it must be gone before the
address is used again. Only the event thread completes a transfer that was submitted, and it
locks the map first to remove the entry; but that would not help if the submitting thread
inserted the entry afterwards. It does not, because it holds the mutex from before the ioctl to after the
insertion (`LockInv`, `UrbInv`): by the time the event thread has reaped a URB and has the
lock, the entry is there or has expired (`ReapedInv`, `EntryInv`). `ClockInv` relates the time that a thread has
read to the clock, for `NeverEarly`. `CoverInv`, that the timer is armed while there are entries, needs the
hypothesis `NeverExact` of `SpecNothingStale`: without it the code disarms the
timer (`timeouts_exact`, section 5), and it is false. The hypothesis is met by clocks with a fine resolution as in
the configuration of `callbacks`.

`BackendsProofs`, with `LinuxEndpointProofs`, proves about `MCBackends`, for any ports and devices, buffers, transfers and
lengths of the histories, from the assumptions above and `PlugsAssumption`, `OrphanAssumption` and
`LinuxAssumption` (names are distinct; the two ways to wait of an endpoint are `poll` and `timed`):

| theorem | states |
|---|---|
| `SpecBackendsInv` | `MCSpec => []BackendsInv`, the invariants of the five components |
| `SpecBackendsTypeOK` | `BackendsTypeOK` |
| `SpecFreeMeansQuiescent` | `FreeMeansQuiescent`: an address that is free has nothing left, on all platforms that promise it |
| `SpecIdentified` | `Identified`: the `DeviceInfo` and the `Device` are of the device that was there |
| `SpecEndpointImplementsQueue` | `BackendEndpoint` implements `EndpointQueue` |
| `SpecImplementsQueue` | `ImplementsQueue`: `LinuxEndpoint` implements it too |

The argument. *Enumeration*: a connection that is over does not come back (`PlugsInv`), so while a connection
lasts, what was read by the path of its port was read of it (`PortInv`), and each field of the
`DeviceInfo` and the `Device` is either empty or its own (`InfoInv`, `DevInv`). *The endpoints
of Windows, macOS and WebUSB*: a buffer is in the pipe, with a callback or done, and
only in one of them (`PlaceInv`); the pipe is in the order of the queue
(`OrderInv`); a transfer that goes on behind a cancelled one was submitted after the
request (`CancelInv`). The last is what makes each completion a `Finish` of `EndpointQueue`. It is inductive because
`CancelIoEx` visits the newest first, and because `AbortPipe` takes all of the pipe at once,
and it would not be if `cancel_all` went forward. *The endpoint of Linux*: every
step of `LinuxEndpoint` is a step of the hand-over or none of it, so `IInvStep` of
`TransferHandshakeProofs` carries over through an instance (`HP`), the kernel's side being what
is not yet reaped; `HandleInv` and `BufferInv` add that the transfers of the queue
have one handle and one buffer each, and `FreeMeansQuiescent` follows from `NoOrphan`.

On Linux the refinement of `EndpointQueue` is harder than elsewhere, because a transfer ends
three times: the hardware or `DISCARDURB` moves its URB to the done list of usbfs, the event thread reaps it
and stores its status, and the hand-over's swap to IDLE shows it to the program. Only the last is the `Finish`
of `EndpointQueue`, which asks about all transfers queued before it, and
what decides the answer happened at the first. `ResultInv` carries it over. `EndedAs(t, s)` says that
`t` has ended with `s`, reaped or not; `ScheduleInv` that the schedule of usbfs has the
order of the queue, so that what succeeds has nothing before it on the schedule
(`SuccessInv`), and is reaped after what was before it, since the done list is first in, first out; `CancelledInv` that
what goes on behind a cancelled transfer was submitted after `cancel_all`, which holds at each step of the
loop because it goes from the newest to the oldest (`WalkInv`): what it has
visited is off the schedule. `InlineInv` is for a `SUBMITURB` that fails, whose
transfer is completed by the caller before it is in the queue. `ResultInv` is inductive beside
`LinuxInv`; TLC found it to hold with the constants of `backends` before it was proved.

`TransferBlockingProofs` proves about `TransferBlocking`, for any transfers, buffers, modes of waiting and outcomes, from
`BlockingAssumption` (the event thread is not the caller's, no transfer is the null):

| theorem | states |
|---|---|
| `BlockingInvariant` | `BlockingSpec => []BlockingInv` |
| `BlockingLeavesNothing` | `NothingLeftPending`: `transfer_blocking` returns with nothing in the queue or the kernel |

The argument. Every step the program takes is one of the hand-over or none of it, so what
`TransferHandshake` says of boxes holds here: what the kernel has is allocated, and its handle is not
idle. `OneTransfer` adds that the program abandons no box, so that handle is pending, and that only the transfer it
waits for has such a handle; `PopFront` takes that one away. That `cancel_all` may come
too late, or find the URB reaped and not yet published, makes no difference: the call goes on waiting
until the front is complete, and complete means that nobody else has it. `BlockingInv` was found to hold by TLC with
the constants of `blocking_transfer` first; it says nothing of the program with free calls, for which see
`LinuxEndpointProofs`.

`DataProofs` proves about `MCData`, for any buffers, sizes of packets and transfers,
numbers of transfers, allocations and lengths, from `SizeAssumption` and `WriteSizeAssumption` (a transfer is a whole
number of packets: `EndpointRead::new` and `EndpointWrite::new` round it up), `WayAssumption`, and
`BoundAssumption`, `LenAssumption`, `PartsAssumption`, `BufferAssumption` (bounds are numbers, no buffer is the null):

| theorem | states |
|---|---|
| `DataInvariant` | `MCSpec => []DataInv`, the invariants of the four components |
| `DataTyped` | `DataTypeOK` |
| `BytesDelivered` | `BytesInOrder`: nothing is lost, repeated or reordered, in either direction |
| `MessagesKept` | `MessageBoundaries`, if the program does not use `AsyncBufRead` through the adapter |
| `ReaderNeverPanics` | `NeverPanics`, if it does not use `BufRead` through the adapter |
| `FlushSendsAll` | `FlushMeansSent`, an action property |
| `BuffersOwned` | `BuffersAreSound`: one owner of each allocation, initialised as far as its length |

The two hypotheses are on the constant `Ways` and met by the configuration of `data`; without them the
statements are false of the code (section 5).

The argument. *The reader*: `Conserved(S)` says that what the program has been given, what is ahead in the buffer being read
and what is in the queue are together what the device has sent, as far as S goes: for the bytes
`BytesInOrder` follows, and for the bytes and the ends of messages `MessageBoundaries`, with one proof for both. A step takes a piece
from the end of one sequence to the beginning of the next, or adds the same piece to the history and the
queue. The latter is right only because what a pending transfer and those behind it have received is
nothing (`PendingInv`), and the former because a position beyond the data is the end that the program has been told of
(`ReadingInv`), which is also why no slice is out of bounds. *The writer*: bytes are numbered as they are written (`NumberedInv`); what
has been carried, is pending or buffered (`Underway`) is what was written without what was returned as lost
(`AccountedInv`), and has its ends of messages as long as nothing is lost (`DelimitedInv`). When a transfer fails, its bytes are in the middle of what is
underway: `MiddleLeftOut` says that leaving out the numbers of the middle leaves the rest, since no number is there twice.
The writing buffer has room, so a buffer that is full is submitted at once; and it is empty while `flush` waits
(`WritingInv`), without which `flush` could return with bytes left. *The buffers*: the owner of each address is
the buffer in hand or the transfer, each with the allocator and the capacity of the allocation (`OwnersInv`); lengths are within what is
initialised (`LengthsInv`), for the transfer by its direction and platform.

`Selected` and `FlattenSeq` are recursive functions. The first part of `DataProofs` proves that they
exist and their values for longer sequences, by induction over sets of numbers and of sequences
(`Numbers`, `Sequential`): a set that has 0 and every successor has all numbers because `<` is well-founded, and that
theorem of the library has no operator for a parameter.

Only model-checked:

* liveness, which is out of the prover's reach together with ENABLED: everything that
  says "eventually" above, `MapConverges` and the ends of transfers and of waits among them;
* `ParsedAsDescribed` of `Descriptors`: the parsers are recursive functions of an offset that skips
  by what it reads, over bytes put together from parts. Their types are proved, their values are checked
  for every configuration of up to three parts.

No module with a theorem uses a RECURSIVE operator.

## 5. Where the code and its documentation disagree

* **Lost wake-up** (`handshake_lost_wakeup`). `notify_completion` takes the
  registration (`transfer/internal.rs:265`) before it publishes the state (266). A waiter
  that subscribes between these two steps finds the transfer PENDING and sleeps;
  the swap then happens and nobody wakes it. `wait_timeout` recovers at its
  timeout (`TimedWaitReturns` holds), `poll` and `wait` need another completion
  on the same owner. Publishing first and keeping `Notify` alive until the wake
  is what the order was meant to avoid: after the swap the box may be gone.
* **A timeout that is exactly now** (`timeouts_exact`). A duration of zero
  disarms the timerfd (`platform/linux_usbfs/device.rs:296-307`); the code
  guards against a deadline that has passed, not one that is equal. It takes a
  timeout of zero and a clock that reads the same twice, or an exact hit.
* **Alternate setting and endpoint** (`interface_alt_race`). The descriptor is
  read under one acquisition of the lock and the address marked under another.
* **BufRead of the adapter** (`reader_consume`). `consume` asserts that nothing is
  consumed exactly when something may be.
* **Length of a failed transfer on WebUSB** (`buffer_len`). `complete_transfer` sets the
  buffer's length only when there are data; otherwise it is that of an earlier transfer.
* **A stalled watch on Windows** (`hotplug_stall`). `poll_next` takes one event, and if that is an
  arrival whose device is gone again it returns `Pending`, with the next event
  queued and its wake-up spent. `MapConverges` excepts this (`stalled`).

Seen while modelling, and not given a run of their own:

* usbfs grants a file an interface it has already, so on Linux `claim_interface`
  gives a second `Interface` where `device.rs:79` says that claiming is "for exclusive use"; the first
  to be dropped releases it under the other, and the kernel driver may not come back.
  `detach_kernel_driver` likewise detaches the program's own claim. `DriversReturn` is stated of the
  interfaces with which neither was done (`misused`).
* On WebUSB two tasks can both claim an interface, and an endpoint can be opened
  while a change of setting is awaited; `ImplementsClaims` excepts what follows (`overlapped`).
* On macOS a device that came and went between two drains of `matched_iter` is reported as
  disconnected before it is as connected, and a terminated service without a
  registry ID ends the draining of `terminated_iter`, which is then not armed again.
  `MapConverges` excepts both (`missed`).
* On Linux `probe_device` and opening read sysfs by the path of the port: a device
  that is replaced meanwhile gives a `DeviceInfo` of two devices. `Identified` is stated of devices
  that stay connected.
* `split_by_type` ends a group at a descriptor of two bytes (`descriptors.rs:131` asks for more
  than two), although `DescriptorIter` reads such a descriptor as valid: it and the endpoints
  after it are in no alternate setting, while `descriptors.rs:540` promises "all trailing endpoint and other
  descriptors up to the next interface descriptor", and 546 "the endpoints of this interface". Without its exception (`HasTwoBytes`) `ParsedAsDescribed` is violated, in three steps: an interface
  descriptor, then one of two bytes.
* On macOS `set_configuration` and `reset` look at the number of claimed interfaces and
  then act, while a claim on another thread is counted only after it has opened its interface: the device can be
  reconfigured under a claim. `BackendDevice` has this interleaving, and no property is about it.
* On Windows hubs are listed, but a watch has no events of hubs.
* `AsyncBufRead` of the adapter (`io/read.rs:515`) calls `poll_fill_buf` of the
  reader and passes over message ends; way `messageAsyncBuf` of `EndpointRead`.
* `is_end` (`io/read.rs:434`) is true of a transfer that `cancel_all` cut off;
  `MessagesPreserved` sets these apart as `Cut`.
* `transfer_blocking` returns a transfer that completes between its timeout and
  `cancel_all` with its own status, while `device.rs:842` says `Cancelled`.
* A control transfer whose future is dropped with the last handle of its device is
  never reaped, and its box leaks (`platform/linux_usbfs/device.rs:382`);
  `AbandonedEndpointTransfersAreFreed` is therefore stated of endpoints.
* `EndpointWrite::new` accepts an `Endpoint` with transfers pending, against the
  assertion of `io/write.rs:116`.

## 6. What is not modelled

* `reset` on Linux, after which the `Device` is of no more use; `reset` and `set_configuration` on
  Windows, which are not supported; `clear_halt`, a single call without state in the library.
* The cached active configuration of Linux: a fallback for a sysfs read that failed.
* WebUSB's enumeration, in which the browser hands out devices, and its control
  transfers, `set_configuration` and `reset`, each of which is one promise.
* macOS control transfers: their timeouts are IOKit's, and their hand-over is that of
  `TransferHandshake`.
* `list_buses`, what the properties of devices look like, and string descriptors: reads
  at fixed offsets or by fixed names.
* `maybe_future.rs`: a blocking operation on another thread is a call from another
  thread.
* The start of the Linux event thread, and slab ids: an id is used again only after its
  device is unregistered.
* Overflow of the netlink socket of the Linux watch (`ENOBUFS`): events are lost, and the
  code gives the program no sign of it. USB addresses that are used again after 127 others.
* What a waker does: the event loop and the callbacks call it with a lock held, so one that
  polls or drops the watch inline would lock again.
* The bindings to ioctls and foreign functions, which are declarations; memory ordering below
  sequential consistency; the content of control requests; the isochronous API, which the
  library does not have.

## 7. Plan

What is left to be proved is, with the induction of `DataProofs` (`Numbers`, `Sequential`),
`ParsedAsDescribed` level by level, beginning with `Iterate`.

Of the model, `EndpointWrite` could be given an endpoint with foreign buffers, and
`LinuxInterface` and `KernelDrivers` could be joined by the objects they have in common.
The whole set of runs is kept to a dozen, so that it stays quick enough to be
repeated with every change: a new component joins the MC module of those it resembles.
