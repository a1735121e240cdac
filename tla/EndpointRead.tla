---------------------------- MODULE EndpointRead ----------------------------
(***************************************************************************)
(* The buffered reader of an IN endpoint: EndpointRead and its adapter     *)
(* EndpointReadUntilShortPacket (src/src/io/read.rs), on top of an         *)
(* endpoint that keeps the promises of EndpointQueue.                      *)
(*                                                                         *)
(* What the device sends is a sequence of numbered bytes, in which End     *)
(* stands for the end of a short packet.  The program reads through Read   *)
(* or BufRead, with or without the adapter, and Way says which; the async  *)
(* traits are these calls with Pending for the timeout, except for the     *)
(* AsyncBufRead of the adapter.  In what the program gets, End stands for  *)
(* the end of a message it was told of, or that a plain read passed over,  *)
(* and Cut for one it was told of because a transfer had been cancelled.   *)
(* X_Y is a mutant of X.                                                   *)
(***************************************************************************)
EXTENDS Integers, Sequences, SequencesExt, Selection

CONSTANTS
  Buffers,      \* buffers there are
  NoBuffer,
  PacketSize,   \* max packet size
  TransferSize, \* EndpointRead.transfer_size, a multiple of it
  MaxTransfers, \* bound on num_transfers
  MaxSent,      \* bound on the histories of what the device sends and the program gets
  Ways          \* the calls the program makes, see Way

Way == {"plain", "message",  \* Read, of the reader or through the adapter
        "messageAsyncBuf",   \* AsyncBufRead through the adapter
        "messageBuf"}        \* BufRead through the adapter

ASSUME SizeAssumption ==
  /\ PacketSize \in Nat \ {0} /\ TransferSize \in Nat \ {0}
  /\ TransferSize % PacketSize = 0
ASSUME WayAssumption == Ways \subseteq Way \union {"cancel"}
ASSUME BoundAssumption == MaxTransfers \in Nat \ {0} /\ MaxSent \in Nat
ASSUME BufferAssumption == NoBuffer \notin Buffers

VARIABLES
  queue, result, asked, after, \* the endpoint, see EndpointQueue
  content,       \* the bytes received into each buffer
  reading,       \* EndpointRead.reading: buf, pos and status
  num_transfers, \* EndpointRead.num_transfers
  call,          \* the call the program is in, or "none"
  panicked,      \* an assertion has failed
  sent,          \* history: what the device has sent
  got            \* history: what the program has been given

endpoint == <<queue, result, asked, after>>
vars == <<endpoint, content, reading, num_transfers, call, panicked, sent, got>>

Q == INSTANCE EndpointQueue WITH open <- TRUE

End == 0
Cut == -1
NoReading == [buf |-> NoBuffer, pos |-> 0, status |-> "ok"]
\* usize::MAX
FarEnd == MaxSent + TransferSize + 1

Items == Cut..MaxSent
Bytes(s) == Selected(s, Nat \ {End})

TypeOK ==
  /\ queue \in Seq(Buffers) /\ Len(queue) <= MaxTransfers
  /\ result \in [Buffers -> Q!Results]
  /\ \A b \in Buffers : content[b] \in Seq(Items) /\ Len(content[b]) <= TransferSize
  /\ reading.buf \in Buffers \union {NoBuffer}
  /\ reading.buf # NoBuffer => ~Q!Queued(reading.buf)
  /\ reading.pos \in 0..TransferSize \union {FarEnd}
  /\ num_transfers \in 0..MaxTransfers
  /\ call \in Way \union {"none"}
  /\ sent \in Seq(Items) /\ got \in Seq(Items)

Init ==
  /\ Q!Init
  /\ content = [b \in Buffers |-> <<>>]
  /\ reading = NoReading
  /\ num_transfers = 1
  /\ call = "none"
  /\ panicked = FALSE
  /\ sent = <<>> /\ got = <<>>

-----------------------------------------------------------------------------
(* ReadBuffer                                                              *)

Data == IF reading.buf = NoBuffer THEN <<>> ELSE content[reading.buf]

\* A cancelled transfer is not an error.
HasError == reading.status \notin {"ok", "cancelled"}

HasRemaining_OffByOne == reading.buf # NoBuffer /\ (reading.pos + 1 < Len(Data) \/ HasError)
HasRemaining == reading.buf # NoBuffer /\ (reading.pos < Len(Data) \/ HasError)

HasRemainingOrShortEnd_FromData ==
  reading.buf # NoBuffer /\ (reading.pos <= Len(Data) \/ HasError)
HasRemainingOrShortEnd ==
  reading.buf # NoBuffer /\ (reading.pos < TransferSize \/ HasError)

Remaining == SubSeq(Data, reading.pos + 1, Len(Data))

\* What ends the loop of fill_buf.
Filled(way) ==
  IF way \in {"message", "messageBuf"} THEN HasRemainingOrShortEnd ELSE HasRemaining

-----------------------------------------------------------------------------
(* Reading                                                                 *)

\* fill_buf begins.
FillBuf(way) ==
  /\ call = "none" /\ ~panicked
  /\ call' = way
  /\ UNCHANGED <<endpoint, content, reading, num_transfers, panicked, sent, got>>

Waiting == call # "none" /\ ~Filled(call)

Enough_OneMore == Len(queue) > num_transfers
Enough == Len(queue) >= num_transfers

\* Read and BufRead of the reader itself pass over the end of a short packet.
PassedOver ==
  IF call = "plain" /\ reading.buf # NoBuffer /\ reading.pos < TransferSize /\ reading.status = "ok"
  THEN <<End>> ELSE <<>>

\* start_read: the buffer read last is submitted again, then new ones.
StartRead(b) ==
  /\ Waiting /\ ~Enough
  /\ b = reading.buf \/ (reading.buf = NoBuffer /\ ~Q!Queued(b))
  /\ Q!Submit(b)
  /\ content' = [content EXCEPT ![b] = <<>>]
  /\ reading' = NoReading
  /\ got' = got \o PassedOver
  /\ UNCHANGED <<num_transfers, call, panicked, sent>>

\* wait or poll: the oldest transfer completes and replaces what was read.
Complete ==
  /\ Waiting /\ Enough
  /\ Q!Return
  /\ reading' = [buf |-> Head(queue), pos |-> 0, status |-> result[Head(queue)]]
  /\ content' = [b \in Buffers |-> IF b = reading.buf THEN <<>> ELSE content[b]]
  /\ got' = got \o PassedOver
  /\ UNCHANGED <<num_transfers, call, panicked, sent>>

\* wait times out, or poll returns Pending and the future is dropped.
GiveUp ==
  /\ Waiting /\ Enough /\ queue # <<>>
  /\ result[Head(queue)] = "pending"
  /\ call' = "none"
  /\ UNCHANGED <<endpoint, content, reading, num_transfers, panicked, sent, got>>

\* Nothing is pending: EOF, or an error through the adapter.
NoTransfers ==
  /\ Waiting /\ Enough /\ queue = <<>>
  /\ call' = "none"
  /\ UNCHANGED <<endpoint, content, reading, num_transfers, panicked, sent, got>>

\* The slice of ReadBuffer::remaining must begin inside the buffer.
SliceInBounds == reading.pos <= Len(Data)

\* The assertion of BufRead::consume through the adapter.
ConsumeAllowed(k) == call = "messageBuf" /\ HasRemainingOrShortEnd => k = 0

\* fill_buf returns, and the program takes k bytes, or the copy in read does; it
\* takes none at a short end, or of an error.
Take(k) ==
  /\ call # "none" /\ Filled(call)
  /\ k <= Len(Remaining) /\ (k = 0 => Remaining = <<>>)
  /\ IF SliceInBounds /\ ConsumeAllowed(k)
     THEN /\ reading' = [reading EXCEPT !.pos = @ + k]
          /\ got' = got \o SubSeq(Remaining, 1, k)
          /\ UNCHANGED panicked
     ELSE panicked' = TRUE /\ UNCHANGED <<reading, got>>
  /\ call' = "none"
  /\ UNCHANGED <<endpoint, content, num_transfers, sent>>

IsEnd_Early == HasRemainingOrShortEnd
IsEnd == ~HasRemaining /\ HasRemainingOrShortEnd

\* consume_end: the reader goes on to the next message.  MaxSent bounds got as well.
ConsumeEnd ==
  /\ call = "none" /\ IsEnd /\ Len(got) <= MaxSent
  /\ reading' = [reading EXCEPT !.pos = FarEnd]
  /\ got' = Append(got, IF reading.status = "cancelled" THEN Cut ELSE End)
  /\ UNCHANGED <<endpoint, content, num_transfers, call, panicked, sent>>

-----------------------------------------------------------------------------
(* Configuration                                                           *)

\* set_num_transfers, which submits all but the last of them ...
SetNumTransfers(n) ==
  /\ call = "none" /\ n # num_transfers
  /\ num_transfers' = n
  /\ UNCHANGED <<endpoint, content, reading, call, panicked, sent, got>>

\* ... before it returns.
Submitting == call = "none" /\ Len(queue) < num_transfers - 1

SubmitAhead(b) ==
  /\ Submitting
  /\ ~Q!Queued(b) /\ b # reading.buf
  /\ Q!Submit(b)
  /\ content' = [content EXCEPT ![b] = <<>>]
  /\ UNCHANGED <<reading, num_transfers, call, panicked, sent, got>>

CancelAll ==
  /\ call = "none"
  /\ num_transfers' = 0
  /\ Q!CancelAll
  /\ UNCHANGED <<content, reading, call, panicked, sent, got>>

-----------------------------------------------------------------------------
(* The device                                                              *)

\* The next n bytes.
NextBytes(n) == [i \in 1..n |-> Len(Bytes(sent)) + i]

\* The transfer receives n bytes: all it asked for, or a short packet ends it.
Receive(b, n) ==
  /\ Q!Finish(b, "ok")
  /\ content' = [content EXCEPT ![b] = NextBytes(n)]
  /\ sent' = sent \o NextBytes(n) \o (IF n < TransferSize THEN <<End>> ELSE <<>>)
  /\ UNCHANGED <<reading, num_transfers, call, panicked, got>>

\* It ends early, having received whole packets only if its turn had come.
Stop(b, r, n) ==
  /\ Q!Finish(b, r)
  /\ n % PacketSize = 0 /\ n < TransferSize
  /\ n > 0 => \A c \in Buffers : Q!Before(c, b) => result[c] # "pending"
  /\ content' = [content EXCEPT ![b] = NextBytes(n)]
  /\ sent' = sent \o NextBytes(n)
  /\ UNCHANGED <<reading, num_transfers, call, panicked, got>>

Calls ==
  \/ \E way \in Ways \intersect Way : ~Submitting /\ FillBuf(way)
  \/ \E b \in Buffers : StartRead(b) \/ SubmitAhead(b)
  \/ Complete \/ GiveUp \/ NoTransfers
  \/ \E k \in 0..TransferSize : Take(k)
  \/ ~Submitting /\ Ways # {"plain"} /\ ConsumeEnd
  \/ \E n \in 0..MaxTransfers : ~Submitting /\ SetNumTransfers(n)
  \/ ~Submitting /\ "cancel" \in Ways /\ CancelAll

Device ==
  \E b \in Buffers, n \in 0..TransferSize :
    /\ Len(sent) + n < MaxSent
    /\ Receive(b, n) \/ Stop(b, "error", n) \/ Stop(b, "cancelled", n)

Next == Calls \/ Device

Spec == Init /\ [][Next]_vars

-----------------------------------------------------------------------------
(* Properties                                                              *)

\* What the pending transfers have received.
Received == FlattenSeq([i \in DOMAIN queue |-> content[queue[i]]])

\* Whatever the program does with timeouts, cancellation and the number of
\* transfers, it is given the bytes the device sent, in order, without gaps or
\* repetitions: what it has, then what the reader holds, then the queue.
NothingLostOrRepeated == Bytes(got) \o Remaining \o Received = Bytes(sent)

\* The reader's slices and assertions never fail.
NeverPanics == ~panicked

\* What the program is given has its message ends exactly where the device sent a
\* short packet, the cuts of cancelled transfers apart.
MessagesPreserved ==
  \E n \in 0..Len(sent) : Selected(got, Nat) = SubSeq(sent, 1, n)
=============================================================================
