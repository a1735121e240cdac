------------------------------- MODULE MCData -------------------------------
(***************************************************************************)
(* Instances of EndpointRead, EndpointWrite, Buffers and Descriptors for   *)
(* TLC: a program reads from an IN endpoint through the adapters, writes   *)
(* to an OUT endpoint, transfers buffers, or a device describes itself.    *)
(***************************************************************************)
EXTENDS EndpointRead, TLC

CONSTANTS WritePacketSize, WriteTransferSize, MaxWritten, Platforms, MaxLen, MaxPacket, MaxParts, Errors

ASSUME WriteSizeAssumption ==
  /\ WritePacketSize \in Nat \ {0} /\ WriteTransferSize \in Nat \ {0}
  /\ WriteTransferSize % WritePacketSize = 0
ASSUME LenAssumption == MaxLen \in Nat
ASSUME PartsAssumption == MaxParts \in Nat

VARIABLES
  program, \* "read", "write", "buffers" or "descriptors"
  capacity, writing, src, answer, written, out, lost,
  platform, direction, memory, buffer, transfer, stage, received,
  parts, error

W == INSTANCE EndpointWrite WITH PacketSize <- WritePacketSize, TransferSize <- WriteTransferSize
B == INSTANCE Buffers
D == INSTANCE Descriptors

LengthErrors == {-1, 0, 1, 30}

readOnly == <<reading, panicked, sent, got>>
writeOnly == <<capacity, writing, src, answer, written, out, lost>>
buffers == <<platform, direction, memory, buffer, transfer, stage, received>>
description == <<parts, error>>

\* One initial state of what the program does not use.
ReadInit ==
  /\ Init /\ capacity = <<>> /\ writing = NoBuffer /\ src = 0 /\ answer = "ok"
  /\ written = <<>> /\ out = <<>> /\ lost = {}
WriteInit ==
  W!Init /\ reading = NoReading /\ panicked = FALSE /\ sent = <<>> /\ got = <<>>

MCInit ==
  /\ program \in {"read", "write", "buffers", "descriptors"}
  /\ IF program = "write" THEN WriteInit ELSE ReadInit
  /\ B!Init
  /\ program # "buffers" => platform = "linux" /\ direction = "in"
  /\ D!DescriptorsInit
  /\ program # "descriptors" => error = 0

MCNext ==
  \/ program = "read" /\ Next /\ UNCHANGED <<program, writeOnly, buffers, description>>
  \/ program = "write" /\ W!Next /\ UNCHANGED <<program, readOnly, buffers, description>>
  \/ program = "buffers" /\ B!Next /\ UNCHANGED <<program, vars, writeOnly, description>>
  \/ program = "descriptors" /\ D!DescriptorsNext /\ UNCHANGED <<program, vars, writeOnly, buffers>>

MCSpec == MCInit /\ [][MCNext]_<<program, vars, writeOnly, buffers, description>>

Symmetry == Permutations(Buffers)

Each(read, write) ==
  CASE program = "read" -> read [] program = "write" -> write [] OTHER -> TRUE

\* See the modules.
DataTypeOK ==
  CASE program = "buffers" -> B!BuffersTypeOK
    [] program = "descriptors" -> D!DescriptorsTypeOK
    [] OTHER -> Each(TypeOK, W!TypeOK)

\* Bytes are delivered in order, without gaps or repetitions, in both directions.
BytesInOrder == Each(NothingLostOrRepeated, W!NothingLostOrRepeated)

\* Messages end exactly where the other side ended them.
MessageBoundaries == Each(MessagesPreserved, W!DelimitersAsRequested)

FlushMeansSent == W!FlushMeansSent
BuffersAreSound == program = "buffers" => B!BuffersAreSound
ParsedAsDescribed == program = "descriptors" => D!ParsedAsDescribed
=============================================================================
