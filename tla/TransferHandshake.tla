-------------------------- MODULE TransferHandshake --------------------------
(***************************************************************************)
(* The hand-over of a transfer between the code that waits for it and the  *)
(* thread that completes it: src/src/transfer/internal.rs.                 *)
(*                                                                         *)
(* Every transfer is a heap box with an atomic state, reached by raw       *)
(* pointer from two sides.  The user side holds it as an Idle or a Pending *)
(* handle; the other side is the kernel, and then whichever thread runs    *)
(* notify_completion for it.  All transfers of one owner (an endpoint or a *)
(* TransferFuture) share one Notify, and the owner is driven by one caller *)
(* at a time, because its methods take &mut self.  The caller may poll from*)
(* a task or block a thread, and may change its mind between calls.        *)
(*                                                                         *)
(* One action is one atomic step of the code: a lock-protected access to   *)
(* Notify, one access to the atomic state, one system call, or code that   *)
(* touches only what its thread owns.  An operator X_Y is a mutant of X, a *)
(* plausible mistake that a property must catch; no specification uses it. *)
(***************************************************************************)
CONSTANTS
  Transfers,    \* addresses a TransferInner box may have
  EventThreads, \* threads that reap completions (one on Linux and macOS, a pool on Windows)
  User,         \* the caller's own thread: it completes a transfer whose submission fails
  NoTransfer    \* "no transfer at hand"

ASSUME UserAssumption == User \notin EventThreads
ASSUME NoTransferAssumption == NoTransfer \notin Transfers

Threads == EventThreads \union {User}

VARIABLES
  live,      \* boxes that are allocated
  state,     \* TransferInner.state of each box
  handle,    \* the user's handle to each box: "none", "idle" or "pending"
  kernel,    \* transfers submitted and not yet reaped
  notify,    \* Notify.state, shared by the transfers
  upc,       \* where the caller is; between calls ut, mode and expired are reset
  ut,        \* the transfer the caller is submitting or waiting for
  mode,      \* how the caller waits: "poll", "wait" or "timed"
  expired,   \* the timeout of wait_timeout has elapsed
  woken,     \* wake-ups delivered and not yet consumed: the task's and the thread's park token
  hpc,       \* where each thread is in notify_completion
  job,       \* the transfer each thread is completing
  wake       \* the NotifyState each thread has taken

user == <<upc, ut, mode, expired>>
handlers == <<hpc, job, wake>>
vars == <<live, state, handle, kernel, notify, user, woken, handlers>>

States == {"Idle", "Pending", "Abandoned"}
Registrations == {"Waker", "Thread"}
NotifyStates == {"None"} \union Registrations

TypeOK ==
  /\ live \subseteq Transfers
  /\ state \in [Transfers -> States]
  /\ handle \in [Transfers -> {"none", "idle", "pending"}]
  /\ kernel \subseteq Transfers
  /\ notify \in NotifyStates
  /\ upc \in {"run", "submit", "inline", "subscribe", "check", "parked", "blocked"}
  /\ ut \in Transfers \union {NoTransfer}
  /\ mode \in {"poll", "wait", "timed"}
  /\ expired \in BOOLEAN
  /\ woken \subseteq Registrations
  /\ hpc \in [Threads -> {"idle", "take", "swap", "wake", "free"}]
  /\ job \in [Threads -> Transfers \union {NoTransfer}]
  /\ wake \in [Threads -> NotifyStates]

Init ==
  /\ live = {}
  /\ state = [t \in Transfers |-> "Idle"]
  /\ handle = [t \in Transfers |-> "none"]
  /\ kernel = {}
  /\ notify = "None"
  /\ upc = "run"
  /\ ut = NoTransfer
  /\ mode = "poll"
  /\ expired = FALSE
  /\ woken = {}
  /\ hpc = [h \in Threads |-> "idle"]
  /\ job = [h \in Threads |-> NoTransfer]
  /\ wake = [h \in Threads |-> "None"]

-----------------------------------------------------------------------------
(* Handles: Idle and Pending.  These run while no other call is active.    *)

\* The caller has an idle transfer at t: one it kept, or one that Idle::new
\* allocates for the call at hand.
HaveIdle(t) == t \notin live \/ handle[t] = "idle"

\* Idle::pre_submit; the submitting system call follows in another step.
PreSubmit(t) ==
  /\ upc = "run" /\ HaveIdle(t)
  /\ live' = live \union {t}
  /\ state' = [state EXCEPT ![t] = "Pending"]
  /\ handle' = [handle EXCEPT ![t] = "pending"]
  /\ upc' = "submit"
  /\ ut' = t
  /\ UNCHANGED <<kernel, notify, mode, expired, woken, handlers>>

\* The kernel accepts the transfer.
SubmitOk ==
  /\ upc = "submit"
  /\ kernel' = kernel \union {ut}
  /\ upc' = "run"
  /\ ut' = NoTransfer
  /\ UNCHANGED <<live, state, handle, notify, mode, expired, woken, handlers>>

\* The kernel refuses it: the caller runs notify_completion in its place.
SubmitErr ==
  /\ upc = "submit"
  /\ upc' = "inline"
  /\ hpc' = [hpc EXCEPT ![User] = "take"]
  /\ job' = [job EXCEPT ![User] = ut]
  /\ UNCHANGED <<live, state, handle, kernel, notify, ut, mode, expired, woken, wake>>

\* A mutant: the swap to PENDING comes after the system call.
SubmitReturn_MarksPending ==
  /\ upc = "inline" /\ hpc[User] = "idle"
  /\ state' = [state EXCEPT ![ut] = "Pending"]
  /\ upc' = "run"
  /\ ut' = NoTransfer
  /\ UNCHANGED <<live, handle, kernel, notify, mode, expired, woken, handlers>>

\* submit returns once the inline completion is done.
SubmitReturn ==
  /\ upc = "inline" /\ hpc[User] = "idle"
  /\ upc' = "run"
  /\ ut' = NoTransfer
  /\ UNCHANGED <<live, state, handle, kernel, notify, mode, expired, woken, handlers>>

\* Idle::simulate_complete: a Pending handle that is complete from the start.
SimulateComplete(t) ==
  /\ upc = "run" /\ HaveIdle(t)
  /\ live' = live \union {t}
  /\ state' = [state EXCEPT ![t] = "Idle"]
  /\ handle' = [handle EXCEPT ![t] = "pending"]
  /\ UNCHANGED <<kernel, notify, user, woken, handlers>>

\* Drop for Idle: free the box.
DropIdle(t) ==
  /\ upc = "run" /\ handle[t] = "idle"
  /\ handle' = [handle EXCEPT ![t] = "none"]
  /\ live' = live \ {t}
  /\ UNCHANGED <<state, kernel, notify, user, woken, handlers>>

\* What the dropping thread itself frees.
FreedByDrop_Always(t) == {t}
FreedByDrop_Never(t) == {}
FreedByDrop(t) == IF state[t] = "Idle" THEN {t} ELSE {}

\* Drop for Pending: one swap decides who frees the box.
DropPending(t) ==
  /\ upc = "run" /\ handle[t] = "pending"
  /\ handle' = [handle EXCEPT ![t] = "none"]
  /\ state' = [state EXCEPT ![t] = "Abandoned"]
  /\ live' = live \ FreedByDrop(t)
  /\ UNCHANGED <<kernel, notify, user, woken, handlers>>

-----------------------------------------------------------------------------
(* Waiting: Notify::subscribe, wait and wait_timeout with the check         *)
(* take_completed_from_queue or take_completed_from_option.                *)

\* What a waiter stores in Notify.
Registration(m) == IF m = "poll" THEN "Waker" ELSE "Thread"

\* Pending::is_complete, which panics in any state but these two.
IsComplete_Always(t) == TRUE
IsComplete(t) == state[t] = "Idle"

\* wait_timeout has no time left.
TimeIsUp_Never == FALSE
TimeIsUp == mode = "timed" /\ expired

\* poll, wait or wait_timeout is called for t.
StartWait(t, m) ==
  /\ upc = "run" /\ handle[t] = "pending"
  /\ upc' = "subscribe"
  /\ ut' = t
  /\ mode' = m
  /\ expired' = FALSE
  /\ UNCHANGED <<live, state, handle, kernel, notify, woken, handlers>>

\* Store the task's waker or the current thread in Notify.
Subscribe ==
  /\ upc = "subscribe"
  /\ notify' = Registration(mode)
  /\ upc' = "check"
  /\ UNCHANGED <<live, state, handle, kernel, ut, mode, expired, woken, handlers>>

\* The call ends.
Return ==
  /\ upc' = "run"
  /\ ut' = NoTransfer
  /\ mode' = "poll"
  /\ expired' = FALSE

\* The check finds the transfer complete and turns its handle into Idle.
CheckComplete ==
  /\ upc = "check" /\ IsComplete(ut)
  /\ handle' = [handle EXCEPT ![ut] = "idle"]
  /\ Return
  /\ UNCHANGED <<live, state, kernel, notify, woken, handlers>>

\* The check finds it pending: poll returns Pending and the task sleeps, wait
\* parks the thread, wait_timeout returns None once its time is up.
CheckPending ==
  /\ upc = "check" /\ state[ut] = "Pending" /\ ~IsComplete(ut)
  /\ IF TimeIsUp
     THEN Return
     ELSE /\ upc' = IF mode = "poll" THEN "blocked" ELSE "parked"
          /\ UNCHANGED <<ut, mode, expired>>
  /\ UNCHANGED <<live, state, handle, kernel, notify, woken, handlers>>

\* The time given to wait_timeout runs out.
Expire ==
  /\ upc \in {"subscribe", "check", "parked"} /\ mode = "timed" /\ ~expired
  /\ expired' = TRUE
  /\ UNCHANGED <<live, state, handle, kernel, notify, upc, ut, mode, woken, handlers>>

\* park or park_timeout returns: its token was given, or the time is up.
Unpark ==
  /\ upc = "parked"
  /\ "Thread" \in woken \/ (mode = "timed" /\ expired)
  /\ woken' = woken \ {"Thread"}
  /\ upc' = "subscribe"
  /\ UNCHANGED <<live, state, handle, kernel, notify, ut, mode, expired, handlers>>

\* park is allowed to return for no reason.
SpuriousUnpark ==
  /\ upc = "parked"
  /\ upc' = "subscribe"
  /\ UNCHANGED <<live, state, handle, kernel, notify, ut, mode, expired, woken, handlers>>

\* The executor runs the woken task again; it may poll again or do anything else.
TaskWoken ==
  /\ upc = "blocked" /\ "Waker" \in woken
  /\ woken' = woken \ {"Waker"}
  /\ Return
  /\ UNCHANGED <<live, state, handle, kernel, notify, handlers>>

\* The task goes on for a reason of its own (another branch of a select).
TaskMovesOn ==
  /\ upc = "blocked"
  /\ Return
  /\ UNCHANGED <<live, state, handle, kernel, notify, woken, handlers>>

-----------------------------------------------------------------------------
(* notify_completion, on an event thread or inline on the caller's thread. *)

\* An event thread gets a finished transfer from the kernel.
Reap(h, t) ==
  /\ hpc[h] = "idle" /\ t \in kernel
  /\ kernel' = kernel \ {t}
  /\ hpc' = [hpc EXCEPT ![h] = "take"]
  /\ job' = [job EXCEPT ![h] = t]
  /\ UNCHANGED <<live, state, handle, notify, user, woken, wake>>

\* First step: take the NotifyState, while the box still keeps Notify alive.
TakeNotifyState(h) ==
  /\ hpc[h] = "take"
  /\ wake' = [wake EXCEPT ![h] = notify]
  /\ notify' = "None"
  /\ hpc' = [hpc EXCEPT ![h] = "swap"]
  /\ UNCHANGED <<live, state, handle, kernel, user, woken, job>>

\* What remains to be done, by the state the swap found.
AfterSwap_Wakes(s) == "wake"
AfterSwap(s) == IF s = "Abandoned" THEN "free" ELSE "wake"

\* Second step: one swap decides whether to wake the waiter or free the box.
SwapIdle(h) ==
  /\ hpc[h] = "swap" /\ state[job[h]] # "Idle"
  /\ state' = [state EXCEPT ![job[h]] = "Idle"]
  /\ hpc' = [hpc EXCEPT ![h] = AfterSwap(state[job[h]])]
  /\ UNCHANGED <<live, handle, kernel, notify, user, woken, job, wake>>

\* The wake-ups that NotifyState::notify gives.
Given_Unmatched(w) == {w}
Given_ThreadOnly(w) == {w} \ {"None", "Waker"}
Given(w) == {w} \ {"None"}

\* Third step, transfer still wanted: NotifyState::notify on what was taken.
Wake(h) ==
  /\ hpc[h] = "wake"
  /\ woken' = woken \union Given(wake[h])
  /\ hpc' = [hpc EXCEPT ![h] = "idle"]
  /\ job' = [job EXCEPT ![h] = NoTransfer]
  /\ wake' = [wake EXCEPT ![h] = "None"]
  /\ UNCHANGED <<live, state, handle, kernel, notify, user>>

\* Third step, transfer abandoned: free the box; what was taken is dropped.
Free(h) ==
  /\ hpc[h] = "free"
  /\ live' = live \ {job[h]}
  /\ hpc' = [hpc EXCEPT ![h] = "idle"]
  /\ job' = [job EXCEPT ![h] = NoTransfer]
  /\ wake' = [wake EXCEPT ![h] = "None"]
  /\ UNCHANGED <<state, handle, kernel, notify, user, woken>>

-----------------------------------------------------------------------------
HandlerStep(h) == TakeNotifyState(h) \/ SwapIdle(h) \/ Wake(h) \/ Free(h)

Handles(t) == PreSubmit(t) \/ SimulateComplete(t) \/ DropIdle(t) \/ DropPending(t)

\* What the caller's code does by itself once a call has begun.
CallStep == SubmitOk \/ SubmitErr \/ SubmitReturn \/ Subscribe \/ CheckComplete \/ CheckPending

Next ==
  \/ \E t \in Transfers : Handles(t)
  \/ \E t \in Transfers, m \in {"poll", "wait", "timed"} : StartWait(t, m)
  \/ CallStep
  \/ Expire \/ Unpark \/ SpuriousUnpark \/ TaskWoken \/ TaskMovesOn
  \/ \E h \in EventThreads, t \in Transfers : Reap(h, t)
  \/ \E h \in Threads : HandlerStep(h)

Spec == Init /\ [][Next]_vars

\* Threads that are running go on, timeouts elapse and a delivered wake-up is
\* acted on.  The kernel need not ever finish a transfer.
Fairness ==
  /\ WF_vars(CallStep)
  /\ WF_vars(Expire)
  /\ WF_vars(Unpark)
  /\ WF_vars(TaskWoken)
  /\ \A h \in Threads : WF_vars(HandlerStep(h))

FairSpec == Spec /\ Fairness

-----------------------------------------------------------------------------
(* Safety                                                                  *)

\* h still holds the raw pointer to t and will dereference it.
Engaged(h, t) == hpc[h] \in {"take", "swap", "free"} /\ job[h] = t

\* The caller is between pre_submit and the return of the system call.
Submitting(t) == upc = "submit" /\ ut = t

\* The user may read and write the box: it is idle, or known to be complete.
UserOwns(t) == handle[t] = "idle" \/ (handle[t] = "pending" /\ state[t] = "Idle")

\* Someone other than the user has the box and will give it back or free it.
Out(t) == t \in kernel \/ Submitting(t) \/ \E h \in Threads : Engaged(h, t)

\* No thread holds a pointer to a freed box: neither a handle, nor the kernel,
\* nor a thread in notify_completion, which reads transfer.notify and swaps
\* transfer.state after the user may have dropped its handle.
NoDanglingPointer ==
  \A t \in Transfers : (handle[t] # "none" \/ Out(t)) => t \in live

\* Every box is owned: the user side and the completing side never both
\* have access to the data of a transfer (the SAFETY comments of Idle and
\* notify_completion), and at most one thread completes it.
ExclusiveAccess ==
  \A t \in Transfers :
    /\ UserOwns(t) => ~Out(t)
    /\ t \in kernel => ~Submitting(t)
    /\ t \in kernel \/ Submitting(t) => \A h \in Threads : ~Engaged(h, t)
    /\ \A g, h \in Threads : Engaged(g, t) /\ Engaged(h, t) => g = h

\* A transfer still waited for is with someone who will complete it, and a box
\* that no handle refers to is with someone who will free it: the abandoned
\* transfer is neither leaked nor freed twice.
NoOrphan ==
  /\ \A t \in Transfers : handle[t] = "pending" /\ state[t] = "Pending" => Out(t)
  /\ \A t \in live :
       handle[t] = "none" =>
         /\ Out(t)
         /\ state[t] = "Abandoned" \/ \E h \in Threads : hpc[h] = "free" /\ job[h] = t

\* The four panics on an unexpected state (pre_submit's assertion, is_complete,
\* Drop for Pending and notify_completion) are out of reach.
NoPanic ==
  /\ \A t \in Transfers : handle[t] = "idle" => state[t] = "Idle"
  /\ \A t \in Transfers : handle[t] = "pending" => state[t] # "Abandoned"
  /\ \A h \in Threads : hpc[h] = "swap" => state[job[h]] # "Idle"

\* A handle that is_complete has seen complete stays complete for as long as the
\* user keeps it: into_idle's contract relies on two calls agreeing.
CompleteIsStable ==
  [][\A t \in Transfers :
       handle[t] = "pending" /\ state[t] = "Idle" /\ handle'[t] = "pending"
         => state'[t] = "Idle"]_vars

-----------------------------------------------------------------------------
(* The inductive invariant                                                 *)

\* The caller keeps its handle while it waits, and completes inline only in submit.
CallInv ==
  /\ upc \in {"submit", "subscribe", "check", "parked", "blocked"} =>
       ut \in Transfers /\ handle[ut] = "pending"
  /\ upc # "inline" => hpc[User] = "idle"

\* A thread frees only what it found abandoned.
HandlerInv ==
  \A h \in Threads :
    /\ hpc[h] # "idle" => job[h] \in Transfers
    /\ hpc[h] = "free" => handle[job[h]] = "none"

IInv ==
  /\ TypeOK
  /\ NoDanglingPointer
  /\ ExclusiveAccess
  /\ NoOrphan
  /\ NoPanic
  /\ CallInv
  /\ HandlerInv

-----------------------------------------------------------------------------
(* Liveness                                                                *)

\* wait_timeout returns, even if the transfer never completes or its wake-up is lost.
TimedWaitReturns ==
  (upc \in {"subscribe", "check", "parked"} /\ mode = "timed") ~> (upc = "run")

\* A transfer dropped while pending is freed once the kernel lets go of it.
AbandonedIsFreed ==
  \A t \in Transfers :
    (t \in live \ kernel /\ state[t] = "Abandoned") ~> (t \notin live)

\* If the completing thread took the waiter's own registration, the waiter goes
\* on: the wake-up is kept until the waiter parks, however the steps interleave.
TakenWakeIsDelivered ==
  \A h \in Threads :
    (hpc[h] = "swap" /\ job[h] = ut /\ upc \in {"check", "parked", "blocked"}
       /\ wake[h] = Registration(mode))
    ~> (upc = "run")

\* What poll and wait promise: once the transfer waited for is complete, the
\* waiter is woken and the call ends.
CompletionWakes ==
  (upc \in {"parked", "blocked"} /\ state[ut] = "Idle") ~> (upc = "run")
=============================================================================
