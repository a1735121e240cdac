---------------------------- MODULE LinuxEndpoint ----------------------------
(***************************************************************************)
(* An endpoint on Linux: LinuxEndpoint and the parts of LinuxInterface and *)
(* LinuxDevice it works with (src/src/platform/linux_usbfs/device.rs).     *)
(*                                                                         *)
(* The hand-over of each transfer is that of TransferHandshake, whose      *)
(* actions are conjoined here with what the endpoint, usbfs and the event  *)
(* thread do around them.  A transfer is with the kernel while its URB is  *)
(* on the endpoint's schedule (active) or finished and not reaped (done).  *)
(* X_Y is a mutant of X.                                                   *)
(***************************************************************************)
EXTENDS Naturals, Sequences, SequencesExt

CONSTANTS
  Transfers,   \* addresses of TransferInner boxes, each with its URB
  Buffers,     \* buffers the program circulates
  EventThread, \* the nusb-events thread
  User,        \* the thread or task that holds the Endpoint
  NoTransfer,  \* Option::None
  NoBuffer,    \* the empty buffer of a transfer that is not in use
  Modes,       \* how the program waits: "poll" and "timed"
  Outcomes     \* how a connected device ends transfers: "ok" and "error"

ASSUME ModesAssumption == Modes \subseteq {"poll", "timed"}
ASSUME OutcomesAssumption == Outcomes \subseteq {"ok", "error"}

VARIABLES
  live, state, handle, notify, upc, ut, mode, expired, woken, hpc, job, wake, \* see TransferHandshake
  phase,         \* "open", "cancel" and "dropCancel" in cancel_all, "drop", "closed"
  cursor,        \* how many transfers cancel_all has still to visit
  pending,       \* LinuxEndpoint.pending
  idle_transfer, \* LinuxEndpoint.idle_transfer
  displaced,     \* the Idle that a completion has just pushed out of idle_transfer
  buffer,        \* the buffer in each transfer
  status,        \* urb.status of each transfer
  active,        \* usbfs: URBs the host controller works on, in order
  done,          \* usbfs: finished URBs with their status, to be reaped in order
  connected,     \* the device is plugged in
  registered,    \* the device's fd is watched by epoll
  endpoints,     \* InterfaceState.endpoints contains this endpoint
  asked, after   \* history: see EndpointQueue

DoneUrbs == {done[i].urb : i \in DOMAIN done}
ActiveUrbs == {active[i] : i \in DOMAIN active}
kernel == DoneUrbs \union ActiveUrbs

H == INSTANCE TransferHandshake WITH EventThreads <- {EventThread}

handshake == <<live, state, handle, notify, upc, ut, mode, expired, woken, hpc, job, wake>>
owner == <<phase, cursor, pending, idle_transfer, displaced, buffer>>
usbfs == <<active, done, connected, status>>
shared == <<registered, endpoints>>
ghosts == <<asked, after>>
vars == <<handshake, owner, usbfs, shared, ghosts>>

Statuses == {"ok", "error", "cancelled", "invalid"}

\* The buffers of the pending transfers, oldest first.
Queue == [i \in DOMAIN pending |-> buffer[pending[i]]]
Queued == {Queue[i] : i \in DOMAIN pending}

TypeOK ==
  /\ H!TypeOK
  /\ phase \in {"open", "cancel", "dropCancel", "drop", "closed"}
  /\ cursor \in 0..Len(pending)
  /\ pending \in Seq(Transfers)
  /\ idle_transfer \in Transfers \union {NoTransfer} /\ displaced \in Transfers \union {NoTransfer}
  /\ buffer \in [Transfers -> Buffers \union {NoBuffer}]
  /\ status \in [Transfers -> Statuses]
  /\ active \in Seq(Transfers)
  /\ done \in Seq([urb : Transfers, status : Statuses])
  /\ connected \in BOOLEAN /\ registered \in BOOLEAN /\ endpoints \in BOOLEAN
  /\ asked \subseteq Buffers
  /\ after \in [Buffers -> SUBSET Buffers]

Init ==
  /\ active = <<>> /\ done = <<>>
  /\ H!Init
  /\ phase = "open"
  /\ cursor = 0
  /\ pending = <<>>
  /\ idle_transfer = NoTransfer /\ displaced = NoTransfer
  /\ buffer = [t \in Transfers |-> NoBuffer]
  /\ status = [t \in Transfers |-> "ok"]
  /\ connected = TRUE
  /\ registered = TRUE
  /\ endpoints = TRUE
  /\ asked = {}
  /\ after = [b \in Buffers |-> {}]

-----------------------------------------------------------------------------
(* LinuxEndpoint: submission                                               *)

\* The owner may call a method of the endpoint.
Ready == phase = "open" /\ displaced = NoTransfer

\* get_transfer: reuse the cached transfer or allocate a new one.
GetTransfer(t) ==
  /\ IF idle_transfer = NoTransfer THEN t \notin live ELSE t = idle_transfer
  /\ idle_transfer' = NoTransfer

\* submit, up to the ioctl: the buffer goes into the transfer.
Submit(t, b) ==
  /\ Ready /\ b \notin Queued
  /\ UNCHANGED usbfs
  /\ GetTransfer(t)
  /\ buffer' = [buffer EXCEPT ![t] = b]
  /\ H!PreSubmit(t)
  /\ UNCHANGED <<phase, cursor, pending, displaced, shared, ghosts>>

\* The transfer enters the queue when the call that submits it is over.
PushBack(t) ==
  /\ pending' = Append(pending, t)
  /\ after' = [after EXCEPT ![buffer[t]] = asked]
  /\ UNCHANGED <<phase, cursor, idle_transfer, displaced, buffer, shared, asked>>

\* USBDEVFS_SUBMITURB succeeds.
SubmitUrb ==
  /\ connected
  /\ active' = Append(active, ut)
  /\ UNCHANGED <<done, connected, status>>
  /\ H!SubmitOk
  /\ PushBack(ut)

\* It fails: the error goes into the URB, which is completed on the spot.
SubmitUrbFails ==
  /\ upc = "submit"
  /\ status' = [status EXCEPT ![ut] = "error"]
  /\ UNCHANGED <<active, done, connected>>
  /\ H!SubmitErr
  /\ UNCHANGED <<owner, shared, ghosts>>

SubmitReturns ==
  /\ UNCHANGED usbfs
  /\ H!SubmitReturn
  /\ PushBack(ut)

\* submit_err, for a buffer whose length an IN endpoint cannot take.
SubmitErr(t, b) ==
  /\ Ready /\ b \notin Queued
  /\ status' = [status EXCEPT ![t] = "invalid"]
  /\ UNCHANGED <<active, done, connected>>
  /\ GetTransfer(t)
  /\ buffer' = [buffer EXCEPT ![t] = b]
  /\ H!SimulateComplete(t)
  /\ pending' = Append(pending, t)
  /\ after' = [after EXCEPT ![b] = asked]
  /\ UNCHANGED <<phase, cursor, displaced, shared, asked>>

-----------------------------------------------------------------------------
(* LinuxEndpoint: completion                                               *)

\* poll_next_complete or wait_next_complete, which wait for the front only.
NextComplete(m) ==
  /\ Ready /\ pending # <<>>
  /\ UNCHANGED usbfs
  /\ H!StartWait(Head(pending), m)
  /\ UNCHANGED <<owner, shared, ghosts>>

\* A step of the wait that does not find the front complete.
WaitStep ==
  /\ UNCHANGED usbfs
  /\ H!Subscribe \/ H!CheckPending \/ H!Unpark \/ H!SpuriousUnpark \/ H!TaskWoken
  /\ UNCHANGED <<owner, shared, ghosts>>

\* The caller gives up: the timeout of wait_next_complete elapses, or the future
\* of next_complete is dropped.
GiveUp ==
  /\ UNCHANGED usbfs
  /\ H!Expire \/ H!TaskMovesOn
  /\ UNCHANGED <<owner, shared, ghosts>>

\* The front is complete: it is popped, its completion taken, and the transfer
\* kept for the next submission in place of the one kept so far.  What is left in
\* its URB is not read again, and is reset here.
PopFront ==
  /\ upc = "check"
  /\ UNCHANGED <<active, done, connected>>
  /\ status' = [status EXCEPT ![ut] = "ok"]
  /\ H!CheckComplete
  /\ pending' = Tail(pending)
  /\ idle_transfer' = ut
  /\ displaced' = idle_transfer
  /\ buffer' = [buffer EXCEPT ![ut] = NoBuffer]
  /\ asked' = asked \ {buffer[ut]}
  /\ after' = [b \in Buffers |-> after[b] \ {buffer[ut]}]
  /\ UNCHANGED <<phase, cursor, shared>>

DropDisplaced ==
  /\ displaced # NoTransfer
  /\ UNCHANGED usbfs
  /\ H!DropIdle(displaced)
  /\ displaced' = NoTransfer
  /\ UNCHANGED <<phase, cursor, pending, idle_transfer, buffer, shared, ghosts>>

-----------------------------------------------------------------------------
(* LinuxEndpoint: cancel_all and drop                                      *)

\* cancel_all begins with the last transfer of the queue ...
FirstToCancel_PastEnd == Len(pending) + 1
FirstToCancel == Len(pending)

StartCancel(p) ==
  /\ Ready /\ upc = "run"
  /\ phase' = p
  /\ cursor' = FirstToCancel
  /\ asked' = Queued
  /\ UNCHANGED <<handshake, pending, idle_transfer, displaced, buffer, usbfs, shared, after>>

\* ... and goes to the front.
MoreToCancel_OffByOne == cursor > 1
MoreToCancel == cursor > 0

Visited_Forward == pending[Len(pending) - cursor + 1]
Visited == pending[cursor]

\* LinuxDevice::cancel: USBDEVFS_DISCARDURB takes the URB off the schedule if it
\* is still there, and returns when it is finished.
Cancel ==
  /\ phase \in {"cancel", "dropCancel"} /\ MoreToCancel
  /\ \/ \E i \in DOMAIN active :
          /\ active[i] = Visited
          /\ active' = RemoveAt(active, i)
          /\ done' = Append(done, [urb |-> Visited, status |-> "cancelled"])
     \/ Visited \notin ActiveUrbs /\ UNCHANGED <<active, done>>
  /\ cursor' = cursor - 1
  /\ UNCHANGED <<handshake, phase, pending, idle_transfer, displaced, buffer, connected, status,
                 shared, ghosts>>

EndCancel ==
  /\ phase \in {"cancel", "dropCancel"} /\ ~MoreToCancel
  /\ phase' = IF phase = "cancel" THEN "open" ELSE "drop"
  /\ cursor' = 0
  /\ UNCHANGED <<handshake, pending, idle_transfer, displaced, buffer, usbfs, shared, ghosts>>

\* Drop for LinuxEndpoint: cancel_all if something is pending.
MustCancel_Never == FALSE
MustCancel == pending # <<>>

Drop ==
  IF MustCancel
  THEN StartCancel("dropCancel")
  ELSE /\ Ready /\ upc = "run"
       /\ phase' = "drop"
       /\ UNCHANGED <<handshake, cursor, pending, idle_transfer, displaced, buffer, usbfs, shared, ghosts>>

\* Its fields are dropped: the Pending handles from the front, ...
DropFront ==
  /\ phase = "drop" /\ pending # <<>>
  /\ UNCHANGED usbfs
  /\ H!DropPending(Head(pending))
  /\ pending' = Tail(pending)
  /\ asked' = asked \ {Head(Queue)}
  /\ after' = [b \in Buffers |-> after[b] \ {Head(Queue)}]
  /\ UNCHANGED <<phase, cursor, idle_transfer, displaced, buffer, shared>>

\* ... then idle_transfer.
DropIdleTransfer ==
  /\ phase = "drop" /\ pending = <<>>
  /\ UNCHANGED usbfs
  /\ IF idle_transfer = NoTransfer THEN UNCHANGED handshake ELSE H!DropIdle(idle_transfer)
  /\ idle_transfer' = NoTransfer
  /\ phase' = "closed"
  /\ UNCHANGED <<cursor, pending, displaced, buffer, shared, ghosts>>

-----------------------------------------------------------------------------
(* LinuxInterface                                                          *)

\* EndpointInner is referenced by the endpoint and by every transfer, pending,
\* idle or abandoned.
InnerReferenced_ByEndpoint == phase # "closed"
InnerReferenced == phase # "closed" \/ live # {}

\* Drop for EndpointInner, on whichever thread dropped the last reference.
DropInner ==
  /\ ~InnerReferenced /\ endpoints
  /\ endpoints' = FALSE
  /\ UNCHANGED <<handshake, owner, usbfs, registered, ghosts>>

\* LinuxInterface::endpoint, unless the endpoint is busy.
OpenEndpoint ==
  /\ phase = "closed" /\ ~endpoints
  /\ endpoints' = TRUE
  /\ phase' = "open"
  /\ notify' = "None" /\ woken' = {}
  /\ UNCHANGED <<live, state, handle, upc, ut, mode, expired, hpc, job, wake, cursor, pending,
                 idle_transfer, displaced, buffer, usbfs, registered, ghosts>>

-----------------------------------------------------------------------------
(* usbfs and the event thread                                              *)

\* The oldest URB on the schedule ends; nothing succeeds once unplugged.
FinishUrb(s) ==
  /\ active # <<>>
  /\ s \in IF connected THEN Outcomes ELSE {"error"}
  /\ active' = Tail(active)
  /\ done' = Append(done, [urb |-> Head(active), status |-> s])
  /\ UNCHANGED <<handshake, owner, connected, status, shared, ghosts>>

Disconnect ==
  /\ connected
  /\ connected' = FALSE
  /\ UNCHANGED <<handshake, owner, active, done, status, shared, ghosts>>

\* handle_events: USBDEVFS_REAPURBNDELAY returns the first finished URB, ...
ReapUrb ==
  /\ registered /\ done # <<>>
  /\ done' = Tail(done)
  /\ status' = [status EXCEPT ![Head(done).urb] = Head(done).status]
  /\ UNCHANGED <<active, connected>>
  /\ H!Reap(EventThread, Head(done).urb)
  /\ UNCHANGED <<owner, shared, ghosts>>

\* ... or ENODEV once unplugged with nothing left: stop watching the fd.
NoDevice_Eager == ~connected
NoDevice == ~connected /\ kernel = {}

ReapNoDevice ==
  /\ registered /\ hpc[EventThread] = "idle" /\ NoDevice
  /\ registered' = FALSE
  /\ UNCHANGED <<handshake, owner, usbfs, endpoints, ghosts>>

\* notify_completion, on the event thread or inline in submit.
NotifyCompletion(h) ==
  /\ UNCHANGED usbfs
  /\ H!HandlerStep(h)
  /\ UNCHANGED <<owner, shared, ghosts>>

-----------------------------------------------------------------------------
\* Steps the owner's code takes by itself once a method is called.
OwnerStep ==
  \/ SubmitUrb \/ SubmitUrbFails \/ SubmitReturns
  \/ WaitStep \/ PopFront \/ DropDisplaced
  \/ Cancel \/ EndCancel \/ DropFront \/ DropIdleTransfer

EventStep == ReapUrb \/ ReapNoDevice \/ NotifyCompletion(EventThread)

Next ==
  \/ \E t \in Transfers, b \in Buffers : Submit(t, b) \/ SubmitErr(t, b)
  \/ \E m \in Modes : NextComplete(m)
  \/ OwnerStep \/ GiveUp \/ StartCancel("cancel") \/ Drop
  \/ DropInner \/ OpenEndpoint
  \/ \E s \in {"ok", "error"} : FinishUrb(s)
  \/ Disconnect \/ EventStep \/ NotifyCompletion(User)

Spec == Init /\ [][Next]_vars

\* Threads run, and an unplugged device's URBs are ended; a connected device may
\* leave a transfer unanswered for ever.
Fairness ==
  /\ WF_vars(OwnerStep)
  /\ WF_vars(EventStep)
  /\ WF_vars(NotifyCompletion(User))
  /\ WF_vars(DropInner)
  /\ WF_vars(mode = "timed" /\ GiveUp)
  /\ WF_vars(~connected /\ FinishUrb("error"))

FairSpec == Spec /\ Fairness

-----------------------------------------------------------------------------
(* Properties                                                              *)

\* The endpoint keeps the promises of EndpointQueue.  A transfer has ended for
\* the program when notify_completion has published it.
ResultOf(b) ==
  IF \E i \in DOMAIN pending : buffer[pending[i]] = b /\ state[pending[i]] = "Idle"
  THEN status[CHOOSE t \in Transfers : t \in {pending[i] : i \in DOMAIN pending} /\ buffer[t] = b]
  ELSE "pending"

Abstract == INSTANCE EndpointQueue WITH
  open <- phase \in {"open", "cancel", "dropCancel"},
  queue <- Queue,
  result <- [b \in Buffers |-> ResultOf(b)]

ImplementsQueue == Abstract!Spec

\* The interface considers the endpoint free (to be opened again, or to let the
\* alternate setting change) only when no transfer of it is left anywhere.
FreeMeansQuiescent == ~endpoints => kernel = {} /\ live = {} /\ phase = "closed"

\* Every transfer that cancel_all was asked to stop ends, even if the device
\* never answers; the caller may then collect it or drop it.
CancelledTransfersEnd ==
  \A t \in Transfers :
    (handle[t] = "pending" /\ buffer[t] \in asked)
    ~> (handle[t] # "pending" \/ state[t] = "Idle")

\* The event thread stops watching an unplugged device, and even so everything
\* that was pending is returned to its owner.
UnpluggedTransfersEnd ==
  \A t \in Transfers :
    (~connected /\ handle[t] = "pending")
    ~> (handle[t] # "pending" \/ state[t] = "Idle")

\* A dropped endpoint is released: its abandoned transfers are freed by the event
\* thread and the interface's claim on it is cleared, so that it can be reopened.
DroppedEndpointIsReleased == (phase = "closed") ~> ~endpoints \/ phase = "open"

-----------------------------------------------------------------------------
(* The inductive invariant                                                 *)

\* The caller waits for the front of an open endpoint, and what it submits is not in the
\* queue yet; cancel_all and drop run between the calls.
CallerInv ==
  /\ upc # "run" => phase = "open"
  /\ upc \in {"subscribe", "check", "parked", "blocked"} => pending # <<>> /\ ut = Head(pending)
  /\ upc \in {"submit", "inline"} =>
       ut \in Transfers /\ handle[ut] = "pending" /\ \A i \in DOMAIN pending : pending[i] # ut
  /\ phase \notin {"cancel", "dropCancel"} => cursor = 0
  /\ phase = "closed" => pending = <<>>

\* What is in the queue has a handle, once.
HandleInv ==
  /\ \A i \in DOMAIN pending : handle[pending[i]] = "pending"
  /\ \A i, j \in DOMAIN pending : pending[i] = pending[j] => i = j

\* ... and a buffer, of its own.
BufferInv ==
  /\ \A i \in DOMAIN pending : buffer[pending[i]] \in Buffers
  /\ \A i, j \in DOMAIN pending : buffer[pending[i]] = buffer[pending[j]] => i = j
  /\ upc \in {"submit", "inline"} => buffer[ut] \in Buffers \ Queued

LinuxInv ==
  /\ TypeOK /\ H!IInv /\ CallerInv /\ HandleInv /\ BufferInv /\ FreeMeansQuiescent

\* ... and what the order of results rests on.  usbfs has a URB in one place.
UrbInv ==
  /\ \A i, j \in DOMAIN active : active[i] = active[j] => i = j
  /\ \A i, j \in DOMAIN done : done[i].urb = done[j].urb => i = j
  /\ \A i \in DOMAIN active, j \in DOMAIN done : active[i] # done[j].urb

\* Its schedule has the order of the queue.
ScheduleInv ==
  \A i, j \in DOMAIN active, m, n \in DOMAIN pending :
    i < j /\ active[i] = pending[m] /\ active[j] = pending[n] => m < n

\* What cancel_all has visited is not on the schedule, and all it visits was asked to stop.
WalkInv ==
  phase \in {"cancel", "dropCancel"} =>
    \A n \in DOMAIN pending :
      /\ n > cursor => pending[n] \notin ActiveUrbs
      /\ buffer[pending[n]] \in asked

\* submit completes what usbfs has refused before it returns.
InlineInv ==
  upc = "inline" =>
    /\ status[ut] = "error"
    /\ \/ hpc[User] \in {"take", "swap"} /\ job[User] = ut
       \/ hpc[User] \in {"wake", "idle"} /\ state[ut] = "Idle"

\* The URB of t has ended with s, whether it is reaped or not.
EndedAs(t, s) ==
  \/ \E i \in DOMAIN done : done[i].urb = t /\ done[i].status = s
  \/ t \notin kernel /\ status[t] = s

\* Only what was asked to stop is cancelled, and what goes on or succeeds behind it was
\* submitted after that.
CancelledInv ==
  /\ \A n \in DOMAIN pending : EndedAs(pending[n], "cancelled") => buffer[pending[n]] \in asked
  /\ \A m, n \in DOMAIN pending :
       m < n /\ EndedAs(pending[m], "cancelled")
         /\ (pending[n] \in ActiveUrbs \/ EndedAs(pending[n], "ok"))
       => buffer[pending[m]] \in after[buffer[pending[n]]]

\* What succeeds has nothing before it on the schedule, and is reaped after it.
SuccessInv ==
  \A m, n \in DOMAIN pending :
    m < n =>
      /\ EndedAs(pending[n], "ok") => pending[m] \notin ActiveUrbs
      /\ \A i, j \in DOMAIN done :
           done[i].urb = pending[m] /\ done[j].urb = pending[n] /\ done[j].status = "ok" => i < j
      /\ pending[n] \notin kernel /\ status[pending[n]] = "ok" => pending[m] \notin kernel

\* What has been through usbfs was not refused by submit_err.
ReapedInv ==
  /\ \A i \in DOMAIN done : done[i].status # "invalid"
  /\ hpc[EventThread] \in {"take", "swap"} => status[job[EventThread]] # "invalid"

\* From these, each end of a transfer is one that EndpointQueue allows.
ResultInv ==
  /\ UrbInv /\ ScheduleInv /\ WalkInv /\ InlineInv /\ ReapedInv /\ CancelledInv /\ SuccessInv
=============================================================================
