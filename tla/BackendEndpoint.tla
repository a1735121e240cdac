--------------------------- MODULE BackendEndpoint ---------------------------
(***************************************************************************)
(* The endpoints of Windows (WinUSB), macOS (IOKit) and WebUSB:            *)
(* platform/*/device.rs.  A completion is handed over in one step here;    *)
(* TransferHandshake takes it apart.  The pipe carries transfers out one   *)
(* after the other, oldest first.  X_Y is a mutant of X.                   *)
(***************************************************************************)
EXTENDS Naturals, Sequences, SequencesExt

CONSTANTS
  Buffers,
  Orphan,       \* WebUSB: a transfer whose endpoint was dropped
  EndpointPlatforms, \* subset of {"windows", "macos", "webusb"}
  MaxFlying     \* bound: transfers the OS has at a time

VARIABLES
  backend,
  phase,    \* of the endpoint: "open", in cancel_all, in drop, or "gone"
  marked,   \* the address is in use, EndpointInner is alive
  pending,  \* the queue of the endpoint
  flying,   \* what the pipe has, in order
  ended,    \* transfers that ended and whose callback is yet to come
  done,     \* those the callback has completed, or the submission has
  outcome,  \* of each buffer's transfer, when it has ended
  walk,     \* Windows: how many transfers cancel_all has still to visit
  asked, after \* history: see EndpointQueue

vars == <<backend, phase, marked, pending, flying, ended, done, outcome, walk, asked, after>>

Native == backend # "webusb"
InQueue == ToSet(pending)

EndpointTypeOK ==
  /\ backend \in EndpointPlatforms
  /\ phase \in {"open", "cancel", "drop", "dropping", "gone"}
  /\ marked \in BOOLEAN
  /\ pending \in Seq(Buffers) /\ ended \in Seq(Buffers)
  /\ flying \in Seq(Buffers \union {Orphan})
  /\ done \subseteq Buffers /\ asked \subseteq Buffers
  /\ outcome \in [Buffers -> {"pending", "ok", "error", "cancelled", "invalid"}]
  /\ walk \in 0..Len(pending)
  /\ after \in [Buffers -> SUBSET Buffers]

Init ==
  /\ backend \in EndpointPlatforms
  /\ phase = "open" /\ marked = TRUE
  /\ pending = <<>> /\ flying = <<>> /\ ended = <<>> /\ done = {}
  /\ outcome = [b \in Buffers |-> "pending"]
  /\ walk = 0
  /\ asked = {} /\ after = [b \in Buffers |-> {}]

-----------------------------------------------------------------------------
(* submit                                                                  *)

\* make_transfer, with the buffer, and push_back.
Enqueue(b) ==
  /\ phase = "open" /\ b \notin InQueue
  /\ pending' = Append(pending, b)
  /\ after' = [after EXCEPT ![b] = asked]
  /\ UNCHANGED <<backend, phase, marked, ended, walk, asked>>

Fly(b) ==
  /\ Len(flying) < MaxFlying
  /\ Enqueue(b)
  /\ flying' = Append(flying, b)
  /\ outcome' = [outcome EXCEPT ![b] = "pending"]
  /\ UNCHANGED done

\* The submission failed: the caller's thread completes the transfer.
Inline(b, r) ==
  /\ Enqueue(b)
  /\ done' = done \union {b}
  /\ outcome' = [outcome EXCEPT ![b] = r]
  /\ UNCHANGED flying

\* WinUsb_ReadPipe, WinUsb_WritePipe; a status other than ERROR_IO_PENDING is the
\* business of post_submit.
SubmitWindows(b) == backend = "windows" /\ Fly(b)
PostSubmitFails(b) == backend = "windows" /\ Inline(b, "error")
SubmitMac(b) == backend = "macos" /\ (Fly(b) \/ Inline(b, "error"))
SubmitWebusb(b) == backend = "webusb" /\ (Fly(b) \/ Inline(b, "error"))

SubmitErr(b) == Inline(b, "invalid")

-----------------------------------------------------------------------------
(* The pipe                                                                *)

End(i, r) ==
  /\ flying' = RemoveAt(flying, i)
  /\ IF flying[i] = Orphan
     THEN UNCHANGED <<ended, outcome>>
     ELSE /\ ended' = Append(ended, flying[i])
          /\ outcome' = [outcome EXCEPT ![flying[i]] = r]

\* AbortPipe has begun: nothing succeeds before it is over.
Aborting == backend = "macos" /\ phase \in {"cancel", "drop"} /\ walk = 0

PipeEnds ==
  /\ flying # <<>> /\ ~Aborting
  /\ \E r \in {"ok", "error"} : End(1, r)
  /\ UNCHANGED <<backend, phase, marked, pending, done, walk, asked, after>>

-----------------------------------------------------------------------------
(* Callbacks.  The box of an abandoned transfer is freed by its callback,  *)
(* and EndpointInner with the last of them.                                *)

Unreferenced(p, k, f) == p = "gone" /\ k = <<>> /\ f = <<>>

Complete(i) ==
  LET b == ended[i] IN
  /\ ended' = RemoveAt(ended, i)
  /\ done' = IF b \in InQueue THEN done \union {b} ELSE done
  /\ marked' = (marked /\ ~Unreferenced(phase, ended', flying))
  /\ UNCHANGED <<backend, phase, pending, flying, outcome, walk, asked, after>>

\* io_callback runs on the threads of a pool; transfer_callback on the run loop;
\* promises resolve in order.
IoCallback == backend = "windows" /\ \E i \in DOMAIN ended : Complete(i)
TransferCallback == backend = "macos" /\ ended # <<>> /\ Complete(1)
PromiseResolves == backend = "webusb" /\ ended # <<>> /\ Complete(1)

-----------------------------------------------------------------------------
(* poll_next_complete, wait_next_complete                                  *)

TakeFront_Any == {i \in DOMAIN pending : pending[i] \in done}
TakeFront == {i \in DOMAIN pending : i = 1 /\ pending[i] \in done}

TakeCompletion(i) ==
  LET b == pending[i] IN
  /\ pending' = RemoveAt(pending, i)
  /\ done' = done \ {b} /\ outcome' = [outcome EXCEPT ![b] = "pending"]
  /\ asked' = asked \ {b} /\ after' = [c \in Buffers |-> after[c] \ {b}]
  /\ UNCHANGED <<backend, phase, marked, flying, ended, walk>>

NextCompleteWindows == backend = "windows" /\ phase = "open" /\ \E i \in TakeFront : TakeCompletion(i)
NextCompleteMac == backend = "macos" /\ phase = "open" /\ \E i \in TakeFront : TakeCompletion(i)

\* A Failed transfer, or one whose promise has resolved: complete_transfer.
NextCompleteWebusb == backend = "webusb" /\ phase = "open" /\ \E i \in TakeFront : TakeCompletion(i)

-----------------------------------------------------------------------------
(* cancel_all                                                              *)

StartCancel(p) ==
  /\ Native /\ phase = "open"
  /\ phase' = p /\ walk' = Len(pending)
  /\ asked' = InQueue
  /\ UNCHANGED <<backend, marked, pending, flying, ended, done, outcome, after>>

\* CancelIoEx for one transfer after the other, the newest first; for the one at
\* work it may come too late.
Visited_Forward == pending[Len(pending) + 1 - walk]
Visited == pending[walk]
CancelOne ==
  /\ backend = "windows" /\ phase \in {"cancel", "drop"} /\ walk > 0
  /\ walk' = walk - 1
  /\ \/ \E i \in DOMAIN flying : flying[i] = Visited /\ End(i, "cancelled")
     \/ /\ \A i \in 2..Len(flying) : flying[i] # Visited
        /\ UNCHANGED <<flying, ended, outcome>>
  /\ UNCHANGED <<backend, phase, marked, pending, done, asked, after>>

\* AbortPipe ends all that the pipe has.
AbortPipe ==
  /\ backend = "macos" /\ phase \in {"cancel", "drop"}
  /\ flying # <<>> /\ End(1, "cancelled")
  /\ walk' = 0
  /\ UNCHANGED <<backend, phase, marked, pending, done, asked, after>>

EndCancel ==
  /\ phase \in {"cancel", "drop"}
  /\ IF backend = "windows" THEN walk = 0 ELSE flying = <<>>
  /\ walk' = 0
  /\ phase' = IF phase = "cancel" THEN "open" ELSE "dropping"
  /\ UNCHANGED <<backend, marked, pending, flying, ended, done, outcome, asked, after>>

-----------------------------------------------------------------------------
(* drop                                                                    *)

CancelAll == StartCancel("cancel")

DropBusy == pending # <<>> /\ StartCancel("drop")
DropIdle ==
  /\ phase = "open" /\ Native /\ pending = <<>>
  /\ phase' = "dropping"
  /\ UNCHANGED <<backend, marked, pending, flying, ended, done, outcome, walk, asked, after>>

\* The handles go, oldest first: a transfer that is not complete is abandoned.
DropHandle ==
  /\ phase = "dropping" /\ pending # <<>>
  /\ pending' = Tail(pending)
  /\ done' = done \ {Head(pending)}
  /\ outcome' = [outcome EXCEPT ![Head(pending)] = "pending"]
  /\ asked' = asked \ {Head(pending)} /\ after' = [c \in Buffers |-> after[c] \ {Head(pending)}]
  /\ UNCHANGED <<backend, phase, marked, flying, ended, walk>>

StillMarked_No == FALSE
StillMarked == ~Unreferenced("gone", ended, flying)
DropEndpoint ==
  /\ phase = "dropping" /\ pending = <<>>
  /\ phase' = "gone"
  /\ marked' = StillMarked
  /\ UNCHANGED <<backend, pending, flying, ended, done, outcome, walk, asked, after>>

\* WebUSB has no way to cancel: the futures are dropped, EndpointInner with them,
\* and the transfers fly on.
DropWebusb ==
  /\ backend = "webusb" /\ phase = "open"
  /\ phase' = "dropping" /\ marked' = FALSE
  /\ flying' = [i \in DOMAIN flying |-> Orphan]
  /\ ended' = <<>>
  /\ UNCHANGED <<backend, pending, done, outcome, walk, asked, after>>

GoneWebusb ==
  /\ backend = "webusb" /\ phase = "dropping" /\ pending = <<>>
  /\ phase' = "gone"
  /\ UNCHANGED <<backend, marked, pending, flying, ended, done, outcome, walk, asked, after>>

\* interface.endpoint() again.
Reopen ==
  /\ phase = "gone" /\ ~marked
  /\ phase' = "open" /\ marked' = TRUE
  /\ outcome' = [b \in Buffers |-> "pending"]
  /\ UNCHANGED <<backend, pending, flying, ended, done, walk, asked, after>>

-----------------------------------------------------------------------------
Next ==
  \/ \E b \in Buffers : SubmitWindows(b) \/ PostSubmitFails(b) \/ SubmitMac(b) \/ SubmitWebusb(b) \/ SubmitErr(b)
  \/ PipeEnds \/ IoCallback \/ TransferCallback \/ PromiseResolves
  \/ NextCompleteWindows \/ NextCompleteMac \/ NextCompleteWebusb
  \/ CancelAll \/ CancelOne \/ AbortPipe \/ EndCancel
  \/ DropBusy \/ DropIdle \/ DropHandle \/ DropWebusb \/ GoneWebusb
  \/ (Native /\ DropEndpoint)
  \/ Reopen

Spec == Init /\ [][Next]_vars

-----------------------------------------------------------------------------
(* Properties                                                              *)

\* The three endpoints are what EndpointQueue promises.
Abstract == INSTANCE EndpointQueue WITH
  open <- phase \in {"open", "cancel", "drop"},
  queue <- pending,
  result <- [b \in Buffers |-> IF b \in InQueue THEN outcome[b] ELSE "pending"]

ImplementsQueue == Abstract!Spec

\* An address that is free has no transfer left in the system; WebUSB cannot say so.
FreeMeansQuiescent == Native /\ ~marked => flying = <<>> /\ ended = <<>> /\ phase = "gone"

-----------------------------------------------------------------------------
(* The inductive invariant                                                 *)

\* A buffer is in the queue once.
QueueInv == \A i, j \in DOMAIN pending : pending[i] = pending[j] => i = j

\* Only cancel_all walks, through a queue that stays as it was when it began.
PhaseInv ==
  /\ phase \notin {"cancel", "drop"} => walk = 0
  /\ phase \in {"cancel", "drop"} => Native /\ InQueue \subseteq asked
  /\ phase = "gone" => pending = <<>>

\* A transfer is in one place: with the pipe, with a callback to come, or complete.
PlaceInv ==
  /\ \A i, j \in DOMAIN flying : flying[i] = flying[j] => i = j \/ flying[i] = Orphan
  /\ \A i, j \in DOMAIN ended : ended[i] = ended[j] => i = j
  /\ \A i \in DOMAIN flying : flying[i] \notin done /\ \A j \in DOMAIN ended : flying[i] # ended[j]
  /\ \A i \in DOMAIN ended : ended[i] \notin done

\* The outcome of a transfer is set as it ends, and only then.
OutcomeInv ==
  /\ \A i \in DOMAIN flying : flying[i] # Orphan => outcome[flying[i]] = "pending"
  /\ \A i \in DOMAIN ended : ended[i] \in InQueue => outcome[ended[i]] # "pending"
  /\ \A b \in done : b \in InQueue /\ outcome[b] # "pending"
  /\ Native \/ phase = "open" =>
       \A b \in InQueue : outcome[b] = "pending" => \E i \in DOMAIN flying : flying[i] = b

\* What the system has is the queue's, before the endpoint is dropped; orphans are WebUSB's.
OwnerInv ==
  /\ phase \in {"open", "cancel", "drop"} =>
       /\ \A i \in DOMAIN flying : flying[i] \in InQueue \union {Orphan}
       /\ \A i \in DOMAIN ended : ended[i] \in InQueue
  /\ Native => \A i \in DOMAIN flying : flying[i] # Orphan
  /\ ~Native /\ phase # "open" => ended = <<>> /\ \A i \in DOMAIN flying : flying[i] = Orphan

\* The pipe has the transfers in the order of the queue.
OrderInv ==
  \A i, j \in DOMAIN flying, m, n \in DOMAIN pending :
    i < j /\ flying[i] = pending[m] /\ flying[j] = pending[n] => m < n

\* What is behind a cancelled transfer and has not ended was submitted after the request, or
\* AbortPipe is about to end it.
CancelInv ==
  /\ \A b \in InQueue : outcome[b] = "cancelled" => b \in asked
  /\ ~Aborting =>
       \A m, n \in DOMAIN pending :
         m < n /\ outcome[pending[m]] = "cancelled" /\ outcome[pending[n]] = "pending"
           => pending[m] \in after[pending[n]]

\* What CancelIoEx was called for and has not ended is at work.
WalkInv ==
  backend = "windows" /\ phase \in {"cancel", "drop"} =>
    \A n \in DOMAIN pending, i \in DOMAIN flying : n > walk /\ flying[i] = pending[n] => i = 1

EndpointInv ==
  /\ EndpointTypeOK /\ QueueInv /\ PhaseInv /\ PlaceInv /\ OutcomeInv /\ OwnerInv
  /\ OrderInv /\ CancelInv /\ WalkInv /\ FreeMeansQuiescent
=============================================================================
