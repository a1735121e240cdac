-------------------------- MODULE TransferBlocking --------------------------
(***************************************************************************)
(* Endpoint::transfer_blocking (src/src/device.rs) on a Linux endpoint: a  *)
(* program that submits one transfer, waits for it with a timeout, cancels *)
(* it when the timeout elapses and then waits until it comes back.  The    *)
(* endpoint, the kernel and the event thread are those of LinuxEndpoint;   *)
(* here only the program's own calls are fixed.  A program that is free to *)
(* make other calls is kept beside it, for what LinuxEndpoint says of it.  *)
(* X_Y is a mutant of X.                                                   *)
(***************************************************************************)
EXTENDS LinuxEndpoint

ASSUME BlockingAssumption == User # EventThread /\ NoTransfer \notin Transfers

VARIABLE call \* "out", "first" wait, "cancel", or waiting "again" after it; or "free"

blockingVars == <<vars, call>>

BlockingInit == Init /\ call \in {"free", "out"}

\* The assertion that nothing is pending, then submit.
Start(t, b) ==
  /\ call = "out" /\ pending = <<>>
  /\ Submit(t, b) \/ SubmitErr(t, b)
  /\ call' = "first"

\* wait_next_complete with the caller's timeout, then with one second each time.
Wait ==
  /\ call \in {"first", "again"}
  /\ NextComplete("timed")
  /\ UNCHANGED call

TimedOut_GivesUp == "out"
\* What follows when the first wait returns None: cancel_all.
TimedOut == "cancel"

\* The wait goes on, or returns None; after that it is repeated until it does not.
Waiting ==
  /\ WaitStep
  /\ call' = IF upc' = "run" /\ call = "first" THEN TimedOut ELSE call

CancelIt_Skipped ==
  /\ call = "cancel"
  /\ call' = "again"
  /\ UNCHANGED vars
CancelIt ==
  /\ call = "cancel"
  /\ StartCancel("cancel")
  /\ call' = "again"

\* The wait returns the completion, and transfer_blocking returns it.
Finished ==
  /\ call # "free" /\ PopFront
  /\ call' = "out"

\* Steps inside submit and cancel_all.
Inside ==
  /\ SubmitUrb \/ SubmitUrbFails \/ SubmitReturns \/ DropDisplaced \/ Cancel \/ EndCancel
  /\ UNCHANGED call

Surroundings ==
  /\ \/ GiveUp \/ Disconnect \/ EventStep \/ NotifyCompletion(User)
     \/ \E s \in {"ok", "error"} : FinishUrb(s)
  /\ UNCHANGED call

Program == Wait \/ Waiting \/ CancelIt \/ Finished \/ Inside

FreeCalls == call = "free" /\ Next /\ UNCHANGED call
FreeStep == call = "free" /\ OwnerStep /\ UNCHANGED call

BlockingNext == Program \/ Surroundings \/ FreeCalls \/ \E t \in Transfers, b \in Buffers : Start(t, b)

\* The caller's thread and the event thread run and timeouts elapse; the device
\* need not ever answer.  With free calls the fairness is that of LinuxEndpoint.
BlockingSpec ==
  /\ BlockingInit /\ [][BlockingNext]_blockingVars
  /\ WF_blockingVars(Program \/ FreeStep)
  /\ WF_blockingVars(UNCHANGED call /\ mode = "timed" /\ GiveUp)
  /\ WF_blockingVars(UNCHANGED call /\ EventStep)
  /\ WF_blockingVars(UNCHANGED call /\ NotifyCompletion(User))
  /\ WF_blockingVars(UNCHANGED call /\ call = "free" /\ DropInner)
  /\ WF_blockingVars(UNCHANGED call /\ call = "free" /\ ~connected /\ FinishUrb("error"))

-----------------------------------------------------------------------------
\* "Always consumes the transfer it submits such that it never leaves a transfer
\* pending": nothing is pending, in the kernel or in the queue, between calls.
NothingLeftPending == call = "out" => pending = <<>> /\ kernel = {}

\* It returns, although the device may never answer and the wake-up may be lost.
AlwaysReturns == call \notin {"free", "out"} ~> call = "out"

-----------------------------------------------------------------------------
(* The inductive invariant                                                 *)

\* The queue and the kernel have transfers.
SequencesInv ==
  /\ pending \in Seq(Transfers) /\ active \in Seq(Transfers)
  /\ done \in Seq([urb : Transfers, status : Statuses])
  /\ idle_transfer \in Transfers \union {NoTransfer} /\ displaced \in Transfers \union {NoTransfer}

\* Nothing is abandoned, and the one transfer that is pending is the one the program
\* submits or waits for; between two calls there is none.
OneTransfer ==
  /\ \A t \in live : handle[t] # "none"
  /\ \A t \in Transfers :
       handle[t] = "pending" => pending = <<t>> \/ (upc \in {"submit", "inline"} /\ ut = t)
  /\ upc \in {"submit", "inline"} => pending = <<>> /\ ut \in Transfers
  /\ upc \in {"subscribe", "check", "parked", "blocked"} => pending # <<>> /\ ut = Head(pending)
  /\ call = "out" => pending = <<>> /\ upc = "run"

BlockingInv == call # "free" => H!IInv /\ SequencesInv /\ OneTransfer
=============================================================================
