------------------------------- MODULE Hotplug -------------------------------
(***************************************************************************)
(* Hotplug watches (src/src/hotplug.rs and platform/*/hotplug.rs) and what *)
(* wakes their tasks: the epoll loop of linux_usbfs/events.rs, the CM      *)
(* callback of Windows, the run loop of macOS, the listeners of WebUSB.    *)
(* The program is the one in the documentation of watch_devices: it        *)
(* creates a watch, lists the devices, and from then on keeps its map of   *)
(* devices up to date with the events of the stream.  A build has one      *)
(* platform, chosen in the initial state.  X_Y is a mutant of X.           *)
(***************************************************************************)
EXTENDS Naturals, Sequences, SequencesExt

CONSTANTS
  Devices,   \* DeviceIds
  Platforms, \* subset of {"linux", "windows", "macos", "webusb"}
  MaxPlugs   \* bound: how often devices are plugged in or out

VARIABLES
  platform,
  connected, \* the devices that are plugged in
  plugs,     \* how many plug events there were
  fresh,     \* macOS: registry ids not used yet
  raw,       \* what the OS holds for the watch: netlink messages, the callback's
             \* or listener's invocations to come, or terminated_iter on macOS
  matched,   \* macOS: matched_iter
  events,    \* Windows, WebUSB: the queue of the watch
  waker,     \* a waker is stored
  armed,     \* Linux: ONESHOT | IN is set; macOS: the iterators that will notify
  callback,  \* the thread of the event loop, or of the callback, is about to wake
  woken,     \* the task's waker has been called
  pc,        \* the task: "list", "idle", a point of poll_next, or "none"
  event,     \* the event poll_next works on
  known,     \* the program's map
  stalled,   \* history: the last poll returned Pending after a failed probe
  missed     \* history: a service had no registry id, or a device was reported as
             \* disconnected before it was as connected

os == <<connected, plugs, fresh>>
watch == <<events, waker, armed>>
task == <<pc, event, known, stalled, missed>>
vars == <<platform, os, raw, matched, watch, callback, woken, task>>

Arrival(d) == [kind |-> "add", dev |-> d]
Removal(d) == [kind |-> "remove", dev |-> d]
Other == [kind |-> "other"]
Events == {Arrival(d) : d \in Devices} \union {Removal(d) : d \in Devices} \union {Other}

TypeOK ==
  /\ platform \in Platforms
  /\ connected \subseteq Devices /\ fresh \subseteq Devices /\ known \subseteq Devices
  /\ plugs \in 0..MaxPlugs
  /\ raw \in Seq(Events) /\ matched \in Seq(Events) /\ events \in Seq(Events)
  /\ waker \in BOOLEAN /\ callback \in BOOLEAN /\ woken \in BOOLEAN
  /\ stalled \in BOOLEAN /\ missed \in BOOLEAN
  /\ armed \subseteq {"socket", "matched", "terminated"}
  /\ pc \in {"list", "idle", "poll", "pop", "probe", "terminated", "register", "arm", "none"}
  /\ event \in Events

\* All of poll_next is one step on WebUSB.
PollInv == pc \in {"pop", "probe", "terminated", "register", "arm"} => platform # "webusb"

\* The watch is new: macOS has drained both iterators, which arms them.
Init ==
  /\ platform \in Platforms
  /\ connected \in SUBSET Devices
  /\ plugs = 0 /\ fresh = Devices \ connected
  /\ raw = <<>> /\ matched = <<>> /\ events = <<>>
  /\ waker = FALSE /\ callback = FALSE /\ woken = FALSE
  /\ armed = IF platform = "macos" THEN {"matched", "terminated"} ELSE {}
  /\ pc = "list" /\ event = Other
  /\ known = {} /\ stalled = FALSE /\ missed = FALSE

-----------------------------------------------------------------------------
(* The system                                                              *)

\* The OS has an event for the watch, unless it has been dropped.  On macOS it
\* goes to one of two iterators, which notifies if it was armed.
Iterator(e) == IF e.kind = "add" THEN "matched" ELSE "terminated"

Happens(e) ==
  IF pc = "none" THEN UNCHANGED <<raw, matched, armed, callback>>
  ELSE /\ IF platform = "macos" /\ e.kind = "add"
          THEN matched' = Append(matched, e) /\ UNCHANGED raw
          ELSE raw' = Append(raw, e) /\ UNCHANGED matched
       /\ IF platform = "macos"
          THEN /\ callback' = (callback \/ Iterator(e) \in armed)
               /\ armed' = armed \ {Iterator(e)}
          ELSE UNCHANGED <<callback, armed>>

Plug(d) ==
  /\ plugs < MaxPlugs /\ plugs' = plugs + 1
  /\ d \notin connected
  /\ IF platform = "macos" THEN d \in fresh /\ fresh' = fresh \ {d} ELSE UNCHANGED fresh
  /\ connected' = connected \union {d}
  /\ Happens(Arrival(d))
  /\ UNCHANGED <<platform, events, waker, woken, task>>

Unplug(d) ==
  /\ plugs < MaxPlugs /\ plugs' = plugs + 1
  /\ d \in connected
  /\ connected' = connected \ {d}
  /\ Happens(Removal(d))
  /\ UNCHANGED <<platform, fresh, events, waker, woken, task>>

\* A uevent of another kind, such as one of an interface of a device.
OtherUevent ==
  /\ platform = "linux" /\ plugs < MaxPlugs /\ plugs' = plugs + 1
  /\ Happens(Other)
  /\ UNCHANGED <<platform, connected, fresh, events, waker, woken, task>>

\* Linux: epoll returns the event of the socket, once for each time it is armed.
EpollReady ==
  /\ platform = "linux" /\ "socket" \in armed /\ raw # <<>>
  /\ armed' = {} /\ callback' = TRUE
  /\ UNCHANGED <<platform, os, raw, matched, events, waker, woken, task>>

\* Windows: hotplug_callback queues the event, or nothing if the instance id of
\* an interface that is gone again cannot be read.
CallbackQueues ==
  /\ platform = "windows" /\ raw # <<>> /\ ~callback
  /\ raw' = Tail(raw)
  /\ \/ events' = Append(events, Head(raw)) /\ callback' = TRUE
     \/ /\ Head(raw).kind = "add" /\ Head(raw).dev \notin connected
        /\ UNCHANGED <<events, callback>>
  /\ UNCHANGED <<platform, os, matched, waker, armed, woken, task>>

\* WebUSB: push; the page has one thread, on which the task runs too.
ListenerQueues ==
  /\ platform = "webusb" /\ raw # <<>>
  /\ raw' = Tail(raw)
  /\ events' = Append(events, Head(raw))
  /\ waker' = FALSE /\ woken' = (woken \/ waker)
  /\ UNCHANGED <<platform, os, matched, armed, callback, task>>

\* Take the waker, if there is one, and wake.
Wake ==
  /\ callback
  /\ callback' = FALSE
  /\ waker' = FALSE /\ woken' = (woken \/ waker)
  /\ UNCHANGED <<platform, os, raw, matched, events, armed, task>>

-----------------------------------------------------------------------------
(* The program and poll_next                                               *)

\* list_devices, called after the watch was created; then poll the stream.
List ==
  /\ pc = "list"
  /\ known' = connected
  /\ pc' = "poll"
  /\ UNCHANGED <<platform, os, raw, matched, watch, callback, woken, event, stalled, missed>>

TaskWoken ==
  /\ pc = "idle" /\ woken
  /\ woken' = FALSE /\ pc' = "poll"
  /\ UNCHANGED <<platform, os, raw, matched, watch, callback, event, known, stalled, missed>>

\* poll_next returns Ready; the program updates its map and polls again.
Deliver(e) ==
  /\ known' = IF e.kind = "add" THEN known \union {e.dev} ELSE known \ {e.dev}
  /\ missed' = (missed \/ (e.kind = "remove" /\ Contains(matched, Arrival(e.dev))))
  /\ pc' = "poll" /\ event' = Other
  /\ UNCHANGED stalled

\* It returns Pending.
Pend(failed) ==
  /\ pc' = "idle" /\ event' = Other /\ stalled' = failed
  /\ UNCHANGED known

Sleep == Pend(FALSE) /\ UNCHANGED missed

GoOn(p, e) == pc' = p /\ event' = e /\ UNCHANGED <<known, stalled, missed>>

\* What poll_next does before it looks for an event.
StoreFirst_Never == FALSE
StoreFirst == platform \in {"windows", "macos"}

Poll ==
  /\ pc = "poll" /\ platform # "webusb"
  /\ waker' = (waker \/ StoreFirst)
  /\ GoOn("pop", Other)
  /\ UNCHANGED <<platform, os, raw, matched, events, armed, callback, woken>>

\* WebUSB: all of poll_next holds the lock.
PollWebusb ==
  /\ pc = "poll" /\ platform = "webusb"
  /\ IF events = <<>>
     THEN waker' = TRUE /\ Sleep /\ UNCHANGED events
     ELSE events' = Tail(events) /\ Deliver(Head(events)) /\ UNCHANGED waker
  /\ UNCHANGED <<platform, os, raw, matched, armed, callback, woken>>

\* Linux: try_receive_event.  What is not an event of a device, or nothing at
\* all, leads to the registration.
Receive ==
  /\ pc = "pop" /\ platform = "linux"
  /\ IF raw = <<>>
     THEN GoOn("register", Other) /\ UNCHANGED raw
     ELSE /\ raw' = Tail(raw)
          /\ CASE Head(raw).kind = "add" -> GoOn("probe", Head(raw))
               [] Head(raw).kind = "remove" -> Deliver(Head(raw))
               [] OTHER -> GoOn("register", Other)
  /\ UNCHANGED <<platform, os, matched, watch, callback, woken>>

\* Linux: Async::register stores the waker, then sets ONESHOT | IN.
Register ==
  /\ pc = "register"
  /\ waker' = TRUE /\ GoOn("arm", Other)
  /\ UNCHANGED <<platform, os, raw, matched, events, armed, callback, woken>>

Arm ==
  /\ pc = "arm"
  /\ armed' = {"socket"} /\ Sleep
  /\ UNCHANGED <<platform, os, raw, matched, events, waker, callback, woken>>

\* Windows: pop an event.
PopEvent ==
  /\ pc = "pop" /\ platform = "windows"
  /\ IF events = <<>>
     THEN Sleep /\ UNCHANGED events
     ELSE /\ events' = Tail(events)
          /\ IF Head(events).kind = "add" THEN GoOn("probe", Head(events)) ELSE Deliver(Head(events))
  /\ UNCHANGED <<platform, os, raw, matched, waker, armed, callback, woken>>

\* macOS: IOIteratorNext on matched_iter; the end of it arms the notification.
NextMatched ==
  /\ pc = "pop" /\ platform = "macos"
  /\ IF matched = <<>>
     THEN armed' = armed \union {"matched"} /\ GoOn("terminated", Other) /\ UNCHANGED matched
     ELSE matched' = Tail(matched) /\ GoOn("probe", Head(matched)) /\ UNCHANGED armed
  /\ UNCHANGED <<platform, os, raw, events, waker, callback, woken>>

\* macOS: one step of terminated_iter, whose service may have no registry id.
NextTerminated ==
  /\ pc = "terminated"
  /\ IF raw = <<>>
     THEN armed' = armed \union {"terminated"} /\ Sleep /\ UNCHANGED raw
     ELSE /\ raw' = Tail(raw) /\ UNCHANGED armed
          /\ Deliver(Head(raw)) \/ (missed' = TRUE /\ Pend(FALSE))
  /\ UNCHANGED <<platform, os, matched, events, waker, callback, woken>>

\* probe_device.  Nothing can be read of a device that is gone, but for a macOS
\* service, whose properties may outlive it.  Then Linux registers, macOS goes
\* on to the next service, and Windows returns Pending.
Probe ==
  /\ pc = "probe"
  /\ \/ /\ event.dev \in connected \/ platform = "macos"
        /\ Deliver(event)
     \/ /\ event.dev \notin connected
        /\ CASE platform = "linux" -> GoOn("register", Other)
             [] platform = "macos" -> GoOn("pop", Other)
             [] platform = "windows" -> Pend(TRUE) /\ UNCHANGED missed
  /\ UNCHANGED <<platform, os, raw, matched, watch, callback, woken>>

\* Drop for the watch, between polls.  CM_Unregister_Notification waits for a
\* callback that is running.
DropWatch ==
  /\ pc \in {"poll", "idle"}
  /\ platform = "windows" => ~callback
  /\ pc' = "none"
  /\ raw' = <<>> /\ matched' = <<>> /\ events' = <<>>
  /\ waker' = FALSE /\ armed' = {}
  /\ UNCHANGED <<platform, os, callback, woken, event, known, stalled, missed>>

-----------------------------------------------------------------------------
TaskStep ==
  \/ List \/ TaskWoken \/ Poll \/ PollWebusb \/ Receive \/ Register \/ Arm
  \/ PopEvent \/ NextMatched \/ NextTerminated \/ Probe

Next ==
  \/ \E d \in Devices : Plug(d) \/ Unplug(d)
  \/ OtherUevent \/ EpollReady \/ CallbackQueues \/ ListenerQueues \/ Wake
  \/ TaskStep \/ DropWatch

\* The OS calls back, the event thread and the task run.
Fairness ==
  /\ WF_vars(EpollReady) /\ WF_vars(CallbackQueues) /\ WF_vars(ListenerQueues)
  /\ WF_vars(Wake) /\ WF_vars(TaskStep)

Spec == Init /\ [][Next]_vars
FairSpec == Spec /\ Fairness

-----------------------------------------------------------------------------
(* Properties                                                              *)

\* "To maintain a list of connected devices, call list_devices after creating the
\* watch": once devices stay as they are the program's map becomes right and
\* stays so.  Two failures of the OS are excepted, see StreamIsComplete.
MapConverges == <>[](pc = "none" \/ known = connected \/ stalled \/ missed)

\* The same without exceptions.  It does not hold of Windows, where an event
\* whose device is gone ends the poll although more are queued, nor of macOS, where
\* a device can be reported as disconnected before it is as connected.
StreamIsComplete == <>[](pc = "none" \/ known = connected)
=============================================================================
