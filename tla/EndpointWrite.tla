---------------------------- MODULE EndpointWrite ----------------------------
(***************************************************************************)
(* The buffered writer of an OUT endpoint: EndpointWrite                   *)
(* (src/src/io/write.rs), on top of an endpoint that keeps the promises of *)
(* EndpointQueue.                                                          *)
(*                                                                         *)
(* The program writes numbered bytes; End stands for the end of a message, *)
(* which the device sees as a short packet and which the program asks for  *)
(* with submit_end and flush_end, or by submitting a part of a packet.     *)
(* The async methods are the blocking ones with Pending for the timeout.   *)
(* X_Y is a mutant of X.                                                   *)
(***************************************************************************)
EXTENDS Integers, FiniteSets, Sequences, SequencesExt, Selection

CONSTANTS
  Buffers,      \* buffers there are
  NoBuffer,
  PacketSize,   \* max packet size
  TransferSize, \* EndpointWrite.transfer_size, a multiple of it
  MaxTransfers, \* bound on num_transfers
  MaxWritten    \* bound on what the program writes

VARIABLES
  queue, result, asked, after, \* the endpoint, see EndpointQueue
  content,       \* the bytes in each buffer
  capacity,      \* its size, 0 for a zero-length packet's
  writing,       \* EndpointWrite.writing
  num_transfers, \* EndpointWrite.num_transfers
  call,          \* the call the program is in
  src,           \* how many bytes write is given
  answer,        \* how the last call returned
  written,       \* history: what the program has written
  out,           \* history: what transfers that succeeded have carried
  lost           \* history: items of transfers whose failure was returned

endpoint == <<queue, result, asked, after>>
vars == <<endpoint, content, capacity, writing, num_transfers, call, src, answer, written, out, lost>>

Q == INSTANCE EndpointQueue WITH open <- TRUE

End == 0
Bytes(s) == Selected(s, Nat \ {End})

\* What the device sees of a transfer.
OnWire(c) == IF c = <<>> \/ Len(c) % PacketSize # 0 THEN Append(c, End) ELSE c

Buffered == IF writing = NoBuffer THEN <<>> ELSE content[writing]

TypeOK ==
  /\ queue \in Seq(Buffers) /\ result \in [Buffers -> Q!Results]
  /\ \A b \in Buffers : content[b] \in Seq(Nat) /\ Len(content[b]) <= capacity[b]
  /\ capacity \in [Buffers -> Nat]
  /\ writing \in Buffers \union {NoBuffer}
  /\ writing # NoBuffer => ~Q!Queued(writing) /\ Len(Buffered) < capacity[writing]
  /\ num_transfers \in 1..MaxTransfers
  /\ call \in {"none", "write", "flush", "zlp", "zlp and flush"}
  /\ src \in 0..TransferSize
  /\ answer \in {"ok", "error", "timeout"}

Init ==
  /\ Q!Init
  /\ content = [b \in Buffers |-> <<>>]
  /\ capacity = [b \in Buffers |-> TransferSize]
  /\ writing = NoBuffer
  /\ num_transfers = 1
  /\ call = "none" /\ src = 0 /\ answer = "ok"
  /\ written = <<>> /\ out = <<>> /\ lost = {}

-----------------------------------------------------------------------------
(* The endpoint, as the writer uses it                                     *)

Free(b) == ~Q!Queued(b) /\ b # writing

\* An OUT transfer is never refused as invalid.
SubmitBuffer(b) == Q!Submit(b) /\ result'[b] # "invalid"

\* The writing buffer is submitted.
SubmitWriting ==
  /\ SubmitBuffer(writing)
  /\ writing' = NoBuffer

Return(a) == call' = "none" /\ answer' = a

-----------------------------------------------------------------------------
(* Waiting for a completion                                                *)

Waiting_ForRoom ==
  \/ call = "write" /\ Len(queue) >= num_transfers
  \/ call = "flush" /\ queue # <<>>
Waiting ==
  \/ call = "write" /\ writing = NoBuffer /\ Len(queue) >= num_transfers
  \/ call = "flush" /\ queue # <<>>

\* handle_completion keeps the buffer for the next write, unless it is that of a
\* zero-length packet or others are to be waited for.
Kept_Always(b) == TRUE
Kept(b) == capacity[b] > 0 /\ Len(queue) - 1 < num_transfers

\* The status of the completion becomes the result of the call.
Failed_Ignored(b) == FALSE
Failed(b) == result[b] # "ok"

WaitOne ==
  /\ Waiting
  /\ Q!Return
  /\ LET b == Head(queue) IN
       /\ writing' = IF Kept(b) THEN b ELSE writing
       /\ content' = [content EXCEPT ![b] = <<>>]
       /\ out' = IF result[b] = "ok" THEN out \o OnWire(content[b]) ELSE out
       /\ IF Failed(b)
          THEN Return("error") /\ lost' = lost \union Range(OnWire(content[b]))
          ELSE UNCHANGED <<call, answer, lost>>
  /\ UNCHANGED <<capacity, num_transfers, src, written>>

\* wait_one times out, or poll_one returns Pending and the future is dropped.
GiveUp ==
  /\ Waiting /\ result[Head(queue)] = "pending"
  /\ Return("timeout")
  /\ UNCHANGED <<endpoint, content, capacity, writing, num_transfers, src, written, out, lost>>

-----------------------------------------------------------------------------
(* write                                                                   *)

Write(n) ==
  /\ call = "none"
  /\ call' = "write" /\ src' = n
  /\ UNCHANGED <<endpoint, content, capacity, writing, num_transfers, answer, written, out, lost>>

\* A buffer is allocated if the endpoint may take one more transfer.
Allocate(b) ==
  /\ call = "write" /\ writing = NoBuffer /\ Len(queue) < num_transfers
  /\ Free(b)
  /\ writing' = b
  /\ content' = [content EXCEPT ![b] = <<>>]
  /\ capacity' = [capacity EXCEPT ![b] = TransferSize]
  /\ UNCHANGED <<endpoint, num_transfers, call, src, answer, written, out, lost>>

NextBytes(n) == [i \in 1..n |-> Len(Bytes(written)) + i]

Full(n) == Len(Buffered) + n = capacity[writing]

\* As much as fits is copied, and the buffer submitted when it is full.
Copy(n) ==
  /\ call = "write" /\ writing # NoBuffer
  /\ n <= src /\ (n = src \/ Len(Buffered) + n = capacity[writing])
  /\ Len(Buffered) + n <= capacity[writing]
  /\ content' = [content EXCEPT ![writing] = @ \o NextBytes(n)]
  /\ written' = written \o NextBytes(n)
  /\ IF Full(n) THEN SubmitWriting ELSE UNCHANGED <<endpoint, writing>>
  /\ Return("ok")
  /\ src' = 0
  /\ UNCHANGED <<capacity, num_transfers, out, lost>>

-----------------------------------------------------------------------------
(* submit, flush, submit_end and flush_end                                 *)

\* What submit does when flush or the program calls it.
SubmitStep(next) ==
  /\ call = "none"
  /\ written' = IF Len(Buffered) % PacketSize = 0 THEN written ELSE Append(written, End)
  /\ IF Buffered # <<>> THEN SubmitWriting ELSE UNCHANGED <<endpoint, writing>>
  /\ call' = next
  /\ UNCHANGED <<content, capacity, num_transfers, src, answer, out, lost>>

\* Whether submit_end adds a zero-length packet.
NeedsZlp_IfFull == writing = NoBuffer \/ Len(Buffered) = TransferSize
NeedsZlp ==
  writing = NoBuffer \/ (Buffered # <<>> /\ Len(Buffered) % PacketSize = 0)

\* submit_end submits the buffer, even an empty one, ...
SubmitEnd(next) ==
  /\ call = "none"
  /\ written' = Append(written, End)
  /\ IF writing # NoBuffer THEN SubmitWriting ELSE UNCHANGED <<endpoint, writing>>
  /\ call' = CASE ~NeedsZlp -> next
               [] NeedsZlp /\ next = "none" -> "zlp"
               [] NeedsZlp /\ next = "flush" -> "zlp and flush"
  /\ UNCHANGED <<content, capacity, num_transfers, src, answer, out, lost>>

\* ... and a zero-length packet.
SubmitZlp(b) ==
  /\ call \in {"zlp", "zlp and flush"}
  /\ Free(b)
  /\ SubmitBuffer(b)
  /\ content' = [content EXCEPT ![b] = <<>>]
  /\ capacity' = [capacity EXCEPT ![b] = 0]
  /\ call' = IF call = "zlp" THEN "none" ELSE "flush"
  /\ UNCHANGED <<writing, num_transfers, src, answer, written, out, lost>>

\* flush or flush_end is over when nothing is pending.
Flushed ==
  /\ call = "flush" /\ queue = <<>>
  /\ Return("ok")
  /\ UNCHANGED <<endpoint, content, capacity, writing, num_transfers, src, written, out, lost>>

SetNumTransfers(n) ==
  /\ call = "none" /\ n # num_transfers
  /\ num_transfers' = n
  /\ UNCHANGED <<endpoint, content, capacity, writing, call, src, answer, written, out, lost>>

-----------------------------------------------------------------------------
\* The endpoint ends a transfer.
Finish(b) ==
  /\ \E r \in {"ok", "error"} : Q!Finish(b, r)
  /\ UNCHANGED <<content, capacity, writing, num_transfers, call, src, answer, written, out, lost>>

Room(n) == Len(written) + n <= MaxWritten

\* submit_end may need another buffer, and never waits for one.
SpareBuffer == Len(queue) + 2 <= Cardinality(Buffers)

Next ==
  \/ \E n \in 1..TransferSize : Room(n) /\ Write(n)
  \/ \E n \in 0..TransferSize : Copy(n)
  \/ \E b \in Buffers : Allocate(b) \/ SubmitZlp(b) \/ Finish(b)
  \/ WaitOne \/ GiveUp \/ Flushed
  \/ \E next \in {"none", "flush"} :
       Room(1) /\ (SubmitStep(next) \/ (SpareBuffer /\ SubmitEnd(next)))
  \/ \E n \in 1..MaxTransfers : SetNumTransfers(n)

Spec == Init /\ [][Next]_vars

-----------------------------------------------------------------------------
(* Properties                                                              *)

\* What the pending transfers carry.
Pending == FlattenSeq([i \in DOMAIN queue |-> OnWire(content[queue[i]])])

\* Whatever the program does with timeouts, failures and the number of transfers,
\* its bytes go out in order, without gaps or repetitions: what has been carried,
\* what is pending and what is buffered make up all it wrote, but for the
\* transfers whose failure it has been told.
NothingLostOrRepeated ==
  Bytes(out \o Pending \o Buffered) = Selected(Bytes(written), Nat \ lost)

\* While nothing fails, the device sees the ends of messages exactly where the
\* program asked for them, whatever their length and however writes are split.
DelimitersAsRequested ==
  call \notin {"zlp", "zlp and flush"} /\ lost = {}
  => out \o Pending \o Buffered = written

\* flush returns Ok only if every byte has been carried or its failure was returned
\* by an earlier call.
FlushMeansSent ==
  [][call = "flush" /\ call' = "none" /\ answer' = "ok"
     => \A i \in 1..Len(Bytes(written)) : i \in lost' \/ \E j \in DOMAIN out' : out'[j] = i]_vars
=============================================================================
