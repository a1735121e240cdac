---------------------------- MODULE EndpointQueue ----------------------------
(***************************************************************************)
(* What an Endpoint promises the program that uses it (the documentation   *)
(* and signatures of Endpoint in src/src/device.rs): submitted buffers are *)
(* queued, each comes back exactly once, in order and with its outcome;    *)
(* cancel_all stops what is pending at that moment and leaves no hole in   *)
(* the data; dropping the endpoint ends everything.                        *)
(***************************************************************************)
EXTENDS Naturals, Sequences

CONSTANT Buffers

VARIABLES
  open,    \* the Endpoint has not been dropped
  queue,   \* buffers submitted and not yet returned, oldest first
  result,  \* what became of each buffer's transfer
  asked,   \* buffers whose transfer cancel_all was asked to stop
  after    \* of each buffer: those asked to stop before it was submitted

vars == <<open, queue, result, asked, after>>

\* "ok" and "error" are outcomes on the bus, "invalid" is a refused submission.
Results == {"pending", "ok", "error", "cancelled", "invalid"}

Queued(b) == \E i \in DOMAIN queue : queue[i] = b

\* c comes before b in the queue.
Before(c, b) == \E i, j \in DOMAIN queue : i < j /\ queue[i] = c /\ queue[j] = b

Init ==
  /\ open = TRUE
  /\ queue = <<>>
  /\ result = [b \in Buffers |-> "pending"]
  /\ asked = {}
  /\ after = [b \in Buffers |-> {}]

\* submit: errors are deferred until the buffer comes back.
Submit(b) ==
  /\ open /\ ~Queued(b)
  /\ queue' = Append(queue, b)
  /\ \E r \in {"pending", "error", "invalid"} : result' = [result EXCEPT ![b] = r]
  /\ after' = [after EXCEPT ![b] = asked]
  /\ open' = open /\ UNCHANGED <<asked>>

\* A transfer ends.  Transfers succeed in order, only what was asked to stop is
\* cancelled, and no transfer succeeds behind a cancelled one unless it was submitted
\* after the request.
Finish(b, r) ==
  /\ Queued(b) /\ result[b] = "pending"
  /\ r = "cancelled" => b \in asked
  /\ r = "ok" =>
       \A c \in Buffers : Before(c, b) =>
         /\ result[c] # "pending"
         /\ result[c] = "cancelled" => c \in after[b]
  /\ result' = [result EXCEPT ![b] = r]
  /\ open' = open /\ UNCHANGED <<queue, asked, after>>

\* The oldest buffer leaves the queue.
Pop ==
  /\ queue # <<>>
  /\ queue' = Tail(queue)
  /\ asked' = asked \ {Head(queue)}
  /\ after' = [b \in Buffers |-> after[b] \ {Head(queue)}]
  /\ result' = [result EXCEPT ![Head(queue)] = "pending"]
  /\ open' = open

\* poll_next_complete or wait_next_complete returns it, complete.
Return == open /\ Pop /\ result[Head(queue)] # "pending"

\* cancel_all, by the program or on behalf of drop.
CancelAll ==
  /\ open
  /\ asked' = {b \in Buffers : Queued(b)}
  /\ open' = open /\ UNCHANGED <<queue, result, after>>

\* The endpoint is dropped; its handles go one by one.
Close ==
  /\ open' = FALSE
  /\ UNCHANGED <<queue, result, asked, after>>

Discard == ~open /\ Pop

\* interface.endpoint() hands the endpoint out again, empty.
Reopen ==
  /\ ~open /\ queue = <<>>
  /\ open' = TRUE
  /\ UNCHANGED <<queue, result, asked, after>>

Next ==
  \/ \E b \in Buffers : Submit(b)
  \/ \E b \in Buffers, r \in Results \ {"pending", "invalid"} : Finish(b, r)
  \/ Return \/ CancelAll \/ Close \/ Discard \/ Reopen

Spec == Init /\ [][Next]_vars
=============================================================================
