--------------------------- MODULE WindowsControl ---------------------------
(***************************************************************************)
(* Control transfers on Windows and their timeouts:                        *)
(* platform/windows_winusb/device.rs (submit_control, post_submit,         *)
(* io_callback, timer_callback) and threadpool.rs.  The thread that        *)
(* submits, the I/O callback and the timer callback of a transfer run at   *)
(* the same time; the interface's timeout_mutex orders the first and the   *)
(* last.  A transfer is identified with its box, which is used again once  *)
(* it is free.  X_Y is a mutant of X.                                      *)
(***************************************************************************)
EXTENDS Naturals

CONSTANTS
  Transfers,
  Unlocked,  \* nobody holds timeout_mutex
  Callback,  \* a timer callback holds it
  Poisoned   \* a thread that held it has panicked

VARIABLES
  mutex, \* WindowsInterface.timeout_mutex
  pc,    \* the submitting thread
  box,   \* the transfer: "free", "owned" by the caller, "pending", "abandoned"
  timer, \* its threadpool timer: "unset", "set", or "fired" and not yet running
  cb,    \* its timer callback: "none", "started", or "locked" the mutex
  io     \* the request: "none", "active", "cancelled", "ended"; or its callback: "waiting"

control == <<mutex, pc, box, timer, cb, io>>

ControlTypeOK ==
  /\ mutex \in Transfers \union {Unlocked, Callback, Poisoned}
  /\ pc \in [Transfers -> {"idle", "lock", "arm", "submit", "unlock", "unlockFailed", "failed", "wait", "have"}]
  /\ box \in [Transfers -> {"free", "owned", "pending", "abandoned"}]
  /\ timer \in [Transfers -> {"unset", "set", "fired"}]
  /\ cb \in [Transfers -> {"none", "started", "locked"}]
  /\ io \in [Transfers -> {"none", "active", "cancelled", "ended", "waiting"}]

ControlInit ==
  /\ mutex = Unlocked
  /\ pc = [t \in Transfers |-> "idle"] /\ box = [t \in Transfers |-> "free"]
  /\ timer = [t \in Transfers |-> "unset"] /\ cb = [t \in Transfers |-> "none"]
  /\ io = [t \in Transfers |-> "none"]

-----------------------------------------------------------------------------
(* The submitting thread                                                   *)

At(t, from, to) == pc[t] = from /\ pc' = [pc EXCEPT ![t] = to]

\* control_in, control_out: a new transfer.
NewTransfer(t) ==
  /\ At(t, "idle", "lock")
  /\ box[t] = "free" /\ box' = [box EXCEPT ![t] = "owned"]
  /\ timer' = [timer EXCEPT ![t] = "unset"]
  /\ UNCHANGED <<mutex, cb, io>>

\* Recipient::Interface with another interface's number: complete at once.
RefuseIndex(t) ==
  /\ At(t, "lock", "have")
  /\ UNCHANGED <<mutex, box, timer, cb, io>>

\* The lock is taken, the timer created, and pre_submit.
LockMutex(t) ==
  /\ At(t, "lock", "arm")
  /\ mutex = Unlocked /\ mutex' = t
  /\ box' = [box EXCEPT ![t] = "pending"]
  /\ UNCHANGED <<timer, cb, io>>

\* The timer cannot be created and the thread panics with the lock, or another did
\* before and it panics as it takes the lock.  Unwinding frees the transfer and leaves
\* the mutex poisoned.
TimerNewPanics(t) ==
  /\ At(t, "lock", "idle")
  /\ mutex \in {Unlocked, Poisoned} /\ mutex' = Poisoned
  /\ box' = [box EXCEPT ![t] = "free"]
  /\ UNCHANGED <<timer, cb, io>>

\* Timer::set
Set(t) ==
  /\ At(t, "arm", "submit")
  /\ timer' = [timer EXCEPT ![t] = "set"]
  /\ UNCHANGED <<mutex, box, cb, io>>

\* WinUsb_ControlTransfer, which is taken to return FALSE with ERROR_IO_PENDING or
\* another error, as it does with an OVERLAPPED.  Were it to return TRUE, post_submit
\* would log that and go by what GetLastError has left from an earlier call.
ControlTransfer(t) ==
  /\ \/ At(t, "submit", "unlock") /\ io' = [io EXCEPT ![t] = "active"]
     \/ At(t, "submit", "unlockFailed") /\ UNCHANGED io
  /\ UNCHANGED <<mutex, box, timer, cb>>

Unlock(t) ==
  /\ At(t, "unlock", "have") \/ At(t, "unlockFailed", "failed")
  /\ mutex' = Unlocked
  /\ UNCHANGED <<box, timer, cb, io>>

\* Timer::cancel_and_wait unsets the timer, takes back a callback that has not
\* begun, and then waits for one that has.
CancelTimer(t) == timer' = [timer EXCEPT ![t] = "unset"]
CallbacksOver_Unawaited(t) == TRUE
CallbacksOver(t) == cb[t] = "none"

\* post_submit, when the request was refused.
PostSubmit(t) ==
  /\ At(t, "failed", "wait")
  /\ CancelTimer(t)
  /\ UNCHANGED <<mutex, box, cb, io>>

\* ... and notify_completion in place of the callback.
PostSubmitCompletes(t) ==
  /\ At(t, "wait", "have") /\ CallbacksOver(t)
  /\ box' = [box EXCEPT ![t] = "owned"]
  /\ UNCHANGED <<mutex, timer, cb, io>>

SubmitStep(t) ==
  \/ RefuseIndex(t) \/ LockMutex(t) \/ TimerNewPanics(t) \/ Set(t) \/ ControlTransfer(t)
  \/ Unlock(t) \/ PostSubmit(t) \/ PostSubmitCompletes(t)

\* The future is ready and the box goes with its completion, or it is dropped.
FutureOver(t) ==
  /\ At(t, "have", "idle")
  /\ box' = [box EXCEPT ![t] = IF box[t] = "owned" THEN "free" ELSE "abandoned"]
  /\ UNCHANGED <<mutex, timer, cb, io>>

-----------------------------------------------------------------------------
(* The timer callback                                                      *)

Elapse(t) ==
  /\ timer[t] = "set" /\ timer' = [timer EXCEPT ![t] = "fired"]
  /\ UNCHANGED <<mutex, pc, box, cb, io>>

TimerStarts(t) ==
  /\ timer[t] = "fired" /\ timer' = [timer EXCEPT ![t] = "unset"]
  /\ cb' = [cb EXCEPT ![t] = "started"]
  /\ UNCHANGED <<mutex, pc, box, io>>

\* It waits until the transfer has been submitted.  If the mutex is poisoned it panics,
\* which ends the process, as it is called by the system: it never gets on.
Submitted_NotAwaited == mutex = mutex
Submitted == mutex = Unlocked
TimerLocks(t) ==
  /\ cb[t] = "started" /\ cb' = [cb EXCEPT ![t] = "locked"]
  /\ Submitted
  /\ mutex' = IF mutex = Unlocked THEN Callback ELSE mutex
  /\ UNCHANGED <<pc, box, timer, io>>

\* CancelIoEx, which finds a request or does not.
TimerCancels(t) ==
  /\ cb[t] = "locked" /\ cb' = [cb EXCEPT ![t] = "none"]
  /\ io' = IF io[t] = "active" THEN [io EXCEPT ![t] = "cancelled"] ELSE io
  /\ mutex' = IF mutex = Callback THEN Unlocked ELSE mutex
  /\ UNCHANGED <<pc, box, timer>>

TimerStep(t) == TimerStarts(t) \/ TimerLocks(t) \/ TimerCancels(t)

-----------------------------------------------------------------------------
(* The request, and its I/O callback                                       *)

\* The device answers.
RequestEnds(t) ==
  /\ io[t] = "active" /\ io' = [io EXCEPT ![t] = "ended"]
  /\ UNCHANGED <<mutex, pc, box, timer, cb>>

IoCallback(t) ==
  /\ io[t] \in {"ended", "cancelled"} /\ io' = [io EXCEPT ![t] = "waiting"]
  /\ CancelTimer(t)
  /\ UNCHANGED <<mutex, pc, box, cb>>

IoNotifies(t) ==
  /\ io[t] = "waiting" /\ io' = [io EXCEPT ![t] = "none"]
  /\ CallbacksOver(t)
  /\ box' = [box EXCEPT ![t] = IF box[t] = "pending" THEN "owned" ELSE "free"]
  /\ UNCHANGED <<mutex, pc, timer, cb>>

IoStep(t) == IoCallback(t) \/ IoNotifies(t)

-----------------------------------------------------------------------------
ControlNext ==
  \E t \in Transfers :
    NewTransfer(t) \/ SubmitStep(t) \/ FutureOver(t) \/ Elapse(t) \/ TimerStep(t) \/ RequestEnds(t) \/ IoStep(t)

\* Threads of the program and of the pool run, those that want the mutex get it in
\* the end, and time passes; the device need not answer.
Progress(t) == SubmitStep(t) \/ TimerStep(t) \/ IoStep(t) \/ Elapse(t)
ControlFairness == \A t \in Transfers : SF_control(Progress(t))

ControlSpec == ControlInit /\ [][ControlNext]_control /\ ControlFairness

-----------------------------------------------------------------------------
(* Properties                                                              *)

\* "The timer callback takes a shared reference to the transfer": it never has one
\* to a box that is free or that a thread owns again.
TimerReferencesPending ==
  \A t \in Transfers : cb[t] # "none" => box[t] \in {"pending", "abandoned"}

\* A timer that is set belongs to a transfer that is pending, with nobody to miss it.
NoStrayTimer ==
  \A t \in Transfers : timer[t] # "unset" => box[t] \in {"pending", "abandoned"}

\* A control transfer ends although the device never answers: the timer finds it,
\* unless creating a timer has failed and the next callback ends the process.
TimerEndsTransfer ==
  \A t \in Transfers :
    box[t] \in {"pending", "abandoned"} ~> box[t] \in {"free", "owned"} \/ mutex = Poisoned

-----------------------------------------------------------------------------
(* The inductive invariant                                                 *)

\* Who may complete a transfer: its request, if there is one, or else the thread that
\* submits it.
CompleterInv ==
  \A t \in Transfers :
    /\ io[t] # "none" => box[t] \in {"pending", "abandoned"}
    /\ pc[t] # "idle" => box[t] \in {"owned", "pending"}
    /\ pc[t] = "lock" => box[t] = "owned"
    /\ pc[t] \in {"arm", "submit", "unlockFailed", "failed", "wait"} => box[t] = "pending" /\ io[t] = "none"

\* Who waits for the callbacks has unset the timer, which nobody sets again.
TimerInv ==
  \A t \in Transfers : pc[t] = "wait" \/ io[t] = "waiting" => timer[t] = "unset"

ControlInv ==
  ControlTypeOK /\ CompleterInv /\ TimerInv /\ TimerReferencesPending /\ NoStrayTimer
=============================================================================
