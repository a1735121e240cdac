------------------------------- MODULE Buffers -------------------------------
(***************************************************************************)
(* The memory of transfers: Buffer (src/src/transfer/buffer.rs), how the   *)
(* TransferData of each platform takes a buffer and gives it back, and     *)
(* Endpoint::allocate and submit.  A program has at most one buffer in     *)
(* hand and one in a transfer of its endpoint.                             *)
(*                                                                         *)
(* memory is what is allocated at each address, and how many of its bytes  *)
(* are initialised; address 0 is the dangling pointer of an empty Vec.     *)
(* X_Y is a mutant of X.                                                   *)
(***************************************************************************)
EXTENDS Integers, Sequences, FiniteSets, FiniteSetsExt

CONSTANTS
  Platforms,  \* of "linux", "windows", "macos" and "webusb"
  MaxLen,     \* bound on requested lengths
  MaxPacket   \* max packet size of the endpoint

Lengths == 0..MaxLen
Addresses == 1..2
Directions == {"in", "out"}

VARIABLES
  platform, direction, \* of the endpoint
  memory,
  buffer,   \* the Buffer in hand, or NoBuf
  transfer, \* the TransferData
  stage,    \* "idle", "flying", "complete"
  received  \* actual_len of the completion the buffer came with, until it is changed

vars == <<platform, direction, memory, buffer, transfer, stage, received>>

Free == [allocator |-> "none", capacity |-> 0, init |-> 0]
NoBuf == [ptr |-> -1, len |-> 0, requested_len |-> 0, capacity |-> 0, allocator |-> "default"]
InHand == buffer # NoBuf

\* TransferData::new.  kept is the Buffer that the WebUSB backend keeps whole.
Empty == [ptr |-> 0, capacity |-> 0, allocator |-> "default",
          length |-> 0, actual |-> 0, data |-> FALSE, kept |-> NoBuf]

Init ==
  /\ platform \in Platforms /\ direction \in Directions
  /\ memory = [a \in Addresses |-> Free]
  /\ buffer = NoBuf /\ transfer = Empty /\ stage = "idle" /\ received = -1

-----------------------------------------------------------------------------
(* Making and freeing buffers                                              *)

\* Memory for capacity bytes, the first init of them initialised; none for none.
Make(len, requested, capacity, allocator, init) ==
  LET a == IF capacity = 0 THEN 0 ELSE Min({b \in Addresses : memory[b] = Free}) IN
  /\ ~InHand
  /\ buffer' = [ptr |-> a, len |-> len, requested_len |-> requested, capacity |-> capacity,
                allocator |-> allocator]
  /\ memory' = [b \in Addresses |->
       IF b = a THEN [allocator |-> allocator, capacity |-> capacity, init |-> init] ELSE memory[b]]
  /\ received' = -1
  /\ UNCHANGED <<platform, direction, transfer, stage>>

\* Buffer::new; Vec::with_capacity may allocate more than it is asked for.
New(requested) ==
  \E more \in IF requested = 0 THEN {0} ELSE {0, 1} : Make(0, requested, requested + more, "default", 0)

\* From<Vec<u8>>, and From<Vec<MaybeUninit<u8>>>.
FromVec(len, capacity) == len <= capacity /\ Make(len, len, capacity, "default", len)
FromUninit(len, capacity) == len <= capacity /\ Make(0, len, capacity, "default", 0)

\* Buffer::mmap gives zeroed memory, and fails for no bytes.
Mmap(len) == len > 0 /\ Make(0, len, len, "mmap", len)

\* Endpoint::allocate falls back on Buffer::new.
Allocate(len) == (platform = "linux" /\ Mmap(len)) \/ New(len)

\* Memory after ptr is freed.
Freed(ptr) == [b \in Addresses |-> IF b = ptr THEN Free ELSE memory[b]]

\* Drop, and into_vec: a Vec is given the memory, or a copy of its content.
DropBuffer ==
  /\ InHand /\ buffer' = NoBuf /\ memory' = Freed(buffer.ptr) /\ received' = -1
  /\ UNCHANGED <<platform, direction, transfer, stage>>

-----------------------------------------------------------------------------
(* Filling buffers                                                         *)

Change(b) ==
  /\ InHand /\ buffer' = b /\ received' = -1
  /\ UNCHANGED <<platform, direction, transfer, stage>>

set_requested_len(len) ==
  len <= buffer.capacity /\ Change([buffer EXCEPT !.requested_len = len]) /\ UNCHANGED memory

clear == Change([buffer EXCEPT !.len = 0]) /\ UNCHANGED memory

RemainingCapacity_All(b) == b.capacity
RemainingCapacity(b) == b.capacity - b.len

Initialised(ptr, n) == [b \in Addresses |->
  IF b = ptr THEN [memory[b] EXCEPT !.init = Max({@, n})] ELSE memory[b]]

\* extend_fill and extend_from_slice, which assert that there is room.
Extend(len) ==
  /\ len <= RemainingCapacity(buffer)
  /\ Change([buffer EXCEPT !.len = @ + len])
  /\ memory' = Initialised(buffer.ptr, buffer.len + len)

-----------------------------------------------------------------------------
(* Transfers                                                               *)

\* set_buffer, put_buffer: a read may fill requested_len bytes, a write sends len.
SetBuffer(b) ==
  [Empty EXCEPT
     !.ptr = b.ptr, !.capacity = b.capacity,
     !.allocator = IF platform = "linux" THEN b.allocator ELSE "default",
     !.length = IF direction = "out" THEN b.len ELSE b.requested_len,
     !.kept = IF platform = "webusb" THEN b ELSE NoBuf]

\* Endpoint::submit refuses a read that does not ask for whole packets.
Refused(b) == direction = "in" /\ (b.requested_len = 0 \/ b.requested_len % MaxPacket # 0)

submit ==
  /\ InHand /\ stage = "idle"
  /\ transfer' = SetBuffer(buffer)
  /\ stage' = IF Refused(buffer) THEN "complete" ELSE "flying"
  /\ buffer' = NoBuf /\ received' = -1
  /\ UNCHANGED <<platform, direction, memory>>

\* The host is done: with an error, of the submission too, data may be missing.  A
\* browser has memory of its own.
Complete(n, data) ==
  /\ stage = "flying" /\ n \in 0..transfer.length
  /\ data \/ n = 0
  /\ stage' = "complete"
  /\ transfer' = [transfer EXCEPT !.actual = n, !.data = data]
  /\ memory' = IF direction = "in" /\ platform # "webusb" THEN Initialised(transfer.ptr, n) ELSE memory
  /\ UNCHANGED <<platform, direction, buffer, received>>

\* take_completion sets the len of a buffer; WebUSB's complete_transfer leaves it alone
\* unless there are data.
LenOf_Requested(t) == t.length
LenOf(t) ==
  CASE platform = "webusb" /\ direction = "in" /\ t.data -> t.actual
    [] platform = "webusb" /\ ~(direction = "in" /\ t.data) -> t.kept.len
    [] platform # "webusb" /\ direction = "in" -> t.actual
    [] OTHER -> t.length

\* The TransferData that is left has no buffer.
Left_KeepsIt(t) == t
Left(t) == Empty

TakeCompletion ==
  /\ stage = "complete" /\ ~InHand
  /\ buffer' = [ptr |-> transfer.ptr, len |-> LenOf(transfer), capacity |-> transfer.capacity,
                requested_len |-> IF platform = "webusb" THEN transfer.kept.requested_len ELSE transfer.length,
                allocator |-> transfer.allocator]
  /\ received' = transfer.actual
  /\ memory' = IF direction = "in" /\ platform = "webusb"
               THEN Initialised(transfer.ptr, transfer.actual) ELSE memory
  /\ transfer' = Left(transfer) /\ stage' = "idle"
  /\ UNCHANGED <<platform, direction>>

\* A TransferData is dropped with the buffer it has: while it flies only if the browser
\* does not use the buffer.
DropTransfer ==
  /\ stage = "flying" => platform = "webusb"
  /\ memory' = IF transfer.capacity = 0 THEN memory ELSE Freed(transfer.ptr)
  /\ transfer' = Empty /\ stage' = "idle"
  /\ UNCHANGED <<platform, direction, buffer, received>>

Next ==
  \/ \E n \in Lengths : New(n) \/ Allocate(n) \/ set_requested_len(n) \/ Extend(n)
  \/ \E len \in Lengths, capacity \in Lengths : FromVec(len, capacity) \/ FromUninit(len, capacity)
  \/ clear \/ DropBuffer \/ submit \/ TakeCompletion \/ DropTransfer
  \/ \E n \in Lengths, data \in BOOLEAN : Complete(n, data)

Spec == Init /\ [][Next]_vars

-----------------------------------------------------------------------------
(* Properties                                                              *)

BuffersTypeOK ==
  /\ platform \in Platforms /\ direction \in Directions
  /\ stage \in {"idle", "flying", "complete"} /\ received \in -1..MaxLen
  /\ {buffer.allocator, transfer.allocator} \subseteq {"default", "mmap"}

\* The buffer has the memory at its address, allocated with its allocator and of its
\* capacity, as Vec::from_raw_parts and munmap need it.
Owns(o) ==
  IF o.capacity = 0 THEN TRUE
  ELSE /\ o.ptr \in Addresses
       /\ memory[o.ptr].allocator = o.allocator /\ memory[o.ptr].capacity = o.capacity

\* Every allocation has one owner, which will free it as it was made, whoever drops
\* what when.
OwnedOnce ==
  /\ InHand => Owns(buffer)
  /\ Owns(transfer)
  /\ Cardinality({a \in Addresses : memory[a] # Free})
       = Cardinality({o \in {"hand", "transfer"} :
                        IF o = "hand" THEN InHand /\ buffer.capacity > 0 ELSE transfer.capacity > 0})

\* The bytes a program may read, and those a write sends, are initialised, and a read
\* has room for all it asks for.
NothingUninitialised ==
  LET init(ptr) == IF ptr \in Addresses THEN memory[ptr].init ELSE 0 IN
  /\ InHand => /\ buffer.len <= init(buffer.ptr) /\ buffer.len <= buffer.capacity
               /\ buffer.requested_len <= buffer.capacity
  /\ stage = "flying" => transfer.length <= IF direction = "out" THEN init(transfer.ptr) ELSE transfer.capacity

\* "When the transfer is completed, the len is set to the number of bytes actually
\* received." (transfer/buffer.rs:26)
LenIsReceived == direction = "in" /\ received >= 0 => buffer.len = received

\* Buffers are never freed twice, leaked or read where nothing was written, and come
\* back with what was received (on WebUSB they need not: see LenIsReceived).
BuffersAreSound ==
  OwnedOnce /\ NothingUninitialised /\ (platform # "webusb" => LenIsReceived)
==============================================================================
