---------------------------- MODULE Descriptors ----------------------------
(***************************************************************************)
(* The parsers of src/src/descriptors.rs, as functions of sequences of     *)
(* bytes, and what the parts of a configuration describe, as a definition  *)
(* that knows nothing of bytes.  A device puts its configuration together  *)
(* part by part; some parts are malformed, and the total length it         *)
(* declares may be wrong.  Field n of the source is byte n + 1 here; bytes *)
(* that no parser looks at are 0.  X_Y is a mutant of X.                   *)
(***************************************************************************)
EXTENDS Integers, FiniteSets, Sequences, SequencesExt, FiniteSetsExt

CONSTANTS
  MaxParts, \* bound on the parts of a configuration
  Errors    \* by how much the declared length may differ

CONFIGURATION == 2
INTERFACE == 4
ENDPOINT == 5
LenConfiguration == 9
LenInterface == 9
LenEndpoint == 7

VARIABLES
  parts, \* the descriptors after the configuration descriptor
  error  \* by how much wTotalLength is too long, or too short

data == <<parts, error>>

-----------------------------------------------------------------------------
(* The device                                                              *)

\* len is bLength, size how many bytes there are; num the second or third field.
Part(type, len, size, num, alt) ==
  [type |-> type, len |-> len, size |-> size, num |-> num, alt |-> alt]
Interface(num, alt) == Part(INTERFACE, LenInterface, LenInterface, num, alt)
Menu ==
  {Interface(0, 0), Interface(1, 0), Interface(0, 1),
   Part(INTERFACE, 8, 8, 2, 0),                       \* too short for an interface
   Part(ENDPOINT, LenEndpoint, LenEndpoint, 1, 0),
   Part(ENDPOINT, 9, 9, 2, 0),                        \* longer than it need be
   Part(ENDPOINT, 6, 6, 3, 0),                        \* too short for an endpoint
   Part(36, 3, 3, 0, 0), Part(36, 2, 2, 0, 0),        \* class-specific
   Part(36, 0, 2, 0, 0), Part(36, 1, 2, 0, 0),        \* bLength points nowhere
   Part(36, 90, 3, 0, 0)}                             \* or beyond the end

BytesOf(p) == [i \in 1..p.size |->
  CASE i = 1 -> p.len [] i = 2 -> p.type [] i = 3 -> p.num [] i = 4 -> p.alt [] OTHER -> 0]

Trailing == FlattenSeq([i \in DOMAIN parts |-> BytesOf(parts[i])])
Total == LenConfiguration + Len(Trailing) + error
Header(total) == <<LenConfiguration, CONFIGURATION, total, 0, 0, 0, 0, 0, 0>>

\* Two configurations, the second with nothing in it.
Buffer == Header(Total) \o Trailing \o Header(LenConfiguration)

DescriptorsInit == parts = <<>> /\ error \in Errors

AddPart(p) ==
  /\ Len(parts) < MaxParts
  /\ parts' = Append(parts, p) /\ error' = error

\* Another device.
StartAgain == Len(parts) = MaxParts /\ parts' = <<>> /\ error' = error

DescriptorsNext == StartAgain \/ \E p \in Menu : AddPart(p)

DescriptorsTypeOK == parts \in Seq(Menu) /\ Len(parts) <= MaxParts /\ error \in Errors

-----------------------------------------------------------------------------
(* The parsers                                                             *)

\* DescriptorIter::split_first finds a descriptor at this offset.
Fits(buf, at) ==
  /\ Len(buf) - at >= 2
  /\ buf[at + 1] >= 2
  /\ at + buf[at + 1] <= Len(buf)

\* split_by_type skips to the next descriptor of the type that is long enough, ...
LongEnough_Any(len, min) == TRUE
LongEnough(len, min) == len >= min
First(buf, from, type, min) ==
  LET first[at \in Nat] ==
        IF ~Fits(buf, at) THEN Len(buf)
        ELSE IF buf[at + 2] = type /\ LongEnough(buf[at + 1], min) THEN at
        ELSE first[at + buf[at + 1]]
  IN first[from]

\* ... and takes what follows it, up to the next of its type.
SameGroup_OfAnyType(other, type) == TRUE
SameGroup(other, type) == other # type
EndOfGroup(buf, from, type) ==
  LET end[at \in Nat] ==
        IF /\ Len(buf) >= at + 2
           /\ buf[at + 1] > 2
           /\ SameGroup(buf[at + 2], type)
           /\ Len(buf) >= at + buf[at + 1]
        THEN end[at + buf[at + 1]]
        ELSE at
  IN end[from + buf[from + 1]]

SplitByType(buf, type, min) ==
  LET split[from \in Nat] ==
        LET first == First(buf, from, type, min) IN
        IF first = Len(buf) THEN <<>>
        ELSE LET end == EndOfGroup(buf, first, type) IN <<SubSeq(buf, first + 1, end)>> \o split[end]
  IN split[0]

\* DescriptorIter over what follows the first descriptor.
After(d) == SubSeq(d, d[1] + 1, Len(d))
Iterate(buf) ==
  LET each[at \in Nat] ==
        IF Fits(buf, at)
        THEN <<SubSeq(buf, at + 1, at + buf[at + 1])>> \o each[at + buf[at + 1]]
        ELSE <<>>
  IN each[0]

\* ConfigurationDescriptor::new, <<>> for None.
Configuration_TrustsTotal(buf) ==
  IF Len(buf) < LenConfiguration THEN <<>> ELSE SubSeq(buf, 1, buf[3])
Configuration(buf) ==
  IF \/ Len(buf) < LenConfiguration
     \/ buf[1] < LenConfiguration
     \/ buf[2] # CONFIGURATION
     \/ buf[3] < buf[1] \/ buf[3] > Len(buf)
  THEN <<>>
  ELSE SubSeq(buf, 1, buf[3])

ParseConcatenated(buffer) ==
  LET parse[from \in Nat] ==
        LET c == Configuration(SubSeq(buffer, from + 1, Len(buffer))) IN
        IF c = <<>> THEN <<>> ELSE <<c>> \o parse[from + Len(c)]
  IN parse[0]

InterfaceAltSettings(c) == SplitByType(After(c), INTERFACE, LenInterface)
InterfaceNumber(i) == i[3]
AlternateSetting(i) == i[4]
Endpoints(i) == SplitByType(After(i), ENDPOINT, LenEndpoint)
Address(e) == e[3]

\* ConfigurationDescriptor::interfaces groups the alternate settings by number.
Interfaces(c) ==
  LET all == InterfaceAltSettings(c)
      WithNumber(n) == SelectSeq(all, LAMBDA i : InterfaceNumber(i) = n)
  IN [n \in {InterfaceNumber(all[k]) : k \in DOMAIN all} |-> WithNumber(n)]

-----------------------------------------------------------------------------
(* What is described                                                       *)

\* Parts are read up to the first whose length is not its size, or that is not in the
\* total length.
Complete(n) ==
  /\ \A i \in 1..n : parts[i].len = parts[i].size
  /\ FoldLeft(LAMBDA sum, p : sum + p.size, LenConfiguration, SubSeq(parts, 1, n)) <= Total
Readable == Max({n \in 0..Len(parts) : Complete(n)})

Described == SelectSeq([i \in 1..Readable |-> i],
  LAMBDA i : parts[i].type = INTERFACE /\ parts[i].len >= LenInterface)

\* "All trailing descriptors up to the next" of these types.
Following(i, types) == SelectSeq([j \in 1..Readable |-> j],
  LAMBDA j : i < j /\ \A k \in i + 1..j : parts[k].type \notin types)
DescriptorsOf(i) == Following(i, {INTERFACE})
EndpointsOf(i) == SelectSeq(DescriptorsOf(i),
  LAMBDA j : parts[j].type = ENDPOINT /\ parts[j].len >= LenEndpoint)

-----------------------------------------------------------------------------
(* Properties                                                              *)

Map(f(_), s) == [i \in DOMAIN s |-> f(s[i])]

\* An alternate setting as it is read, and as it is described: its descriptors, and its
\* endpoints with theirs.
ReadAs(a) ==
  [num |-> InterfaceNumber(a), alt |-> AlternateSetting(a), descriptors |-> Iterate(After(a)),
   endpoints |-> Map(Address, Endpoints(a)),
   trailing |-> Map(LAMBDA e : Iterate(After(e)), Endpoints(a))]
DescribedAs(i) ==
  LET Bytes(j) == BytesOf(parts[j]) IN
  [num |-> parts[i].num, alt |-> parts[i].alt, descriptors |-> Map(Bytes, DescriptorsOf(i)),
   endpoints |-> Map(LAMBDA j : parts[j].num, EndpointsOf(i)),
   trailing |-> Map(LAMBDA j : Map(Bytes, Following(j, {INTERFACE, ENDPOINT})), EndpointsOf(i))]

\* Here the code departs from its documentation: split_by_type ends an alternate
\* setting before a descriptor of two bytes, although DescriptorIter reads one, so that
\* it and what is behind it are in no alternate setting.
HasTwoBytes(i) == \E j \in ToSet(DescriptorsOf(i)) : parts[j].len = 2
BeginningOf(read, described) ==
  /\ read.num = described.num /\ read.alt = described.alt
  /\ IsPrefix(read.descriptors, described.descriptors)
  /\ IsPrefix(read.endpoints, described.endpoints)

\* A configuration is accepted if its length is possible, and then read as what it
\* describes, whatever malformed descriptors are in it: the descriptors, the alternate
\* settings with all that the device put up to the next interface descriptor, and the
\* interfaces with theirs.  Of an alternate setting that has a descriptor of two bytes
\* this is claimed of a beginning only.  No field is read that is not there.
ParsedAsDescribed ==
  LET c == Configuration(Buffer)
      all == InterfaceAltSettings(c)
  IN IF Total < LenConfiguration \/ Total > Len(Buffer) THEN c = <<>> /\ ParseConcatenated(Buffer) = <<>>
     ELSE /\ Iterate(After(c)) = [i \in 1..Readable |-> BytesOf(parts[i])]
          /\ DOMAIN all = DOMAIN Described
          /\ \A k \in DOMAIN all :
               IF HasTwoBytes(Described[k]) THEN BeginningOf(ReadAs(all[k]), DescribedAs(Described[k]))
               ELSE ReadAs(all[k]) = DescribedAs(Described[k])
          /\ DOMAIN Interfaces(c) = {parts[i].num : i \in ToSet(Described)}
          /\ \A n \in DOMAIN Interfaces(c) :
               Map(AlternateSetting, Interfaces(c)[n])
                 = Map(LAMBDA i : parts[i].alt, SelectSeq(Described, LAMBDA i : parts[i].num = n))
          /\ error = 0 => ParseConcatenated(Buffer) = <<c, Header(LenConfiguration)>>
=============================================================================
