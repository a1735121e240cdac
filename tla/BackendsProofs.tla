--------------------------- MODULE BackendsProofs ---------------------------
(***************************************************************************)
(* Proofs about MCBackends, and with it Enumeration and BackendEndpoint,   *)
(* for any ports, devices, buffers and transfers.                          *)
(*                                                                         *)
(* Listing: what was read of a connection is its own, as long as it lasts  *)
(* (PortInv, InfoInv, DevInv), because a connection that is over does not  *)
(* come back (PlugsInv).                                                   *)
(*                                                                         *)
(* Windows, macOS, WebUSB: a buffer is in one place (PlaceInv), the queue  *)
(* keeps the order of the pipe (OrderInv), and a transfer that goes on     *)
(* behind a cancelled one came after the request (CancelInv).  The second  *)
(* part maps each step to EndpointQueue.                                   *)
(*                                                                         *)
(* Linux: see LinuxEndpointProofs.                                         *)
(***************************************************************************)
EXTENDS MCBackends, LinuxEndpointProofs, BackendDeviceProofs, Sequences, TLAPS

-----------------------------------------------------------------------------
(* Listing and opening                                                     *)

USE PlugsAssumption DEF L!Connections, L!Steps

\* What the fields of a DeviceInfo and of a Device are.
LEMMA FieldTypes ==
  /\ \A i \in L!Infos : i.id \in L!Connections /\ i.ids \in L!Connections
                        /\ i.strings \in L!Connections /\ i.interfaces \in L!Connections
  /\ \A d \in L!Devs : d.of \in L!Connections /\ d.descriptor \in L!Connections
                       /\ d.configs \in L!Connections /\ d.active \in L!Connections
  /\ L!NoInfo \in L!Infos /\ L!NoInfo.id = 0 /\ L!NoInfo.strings = 0 /\ L!NoInfo.interfaces = 0
  /\ L!NoDev \in L!Devs /\ L!NoDev.of = 0
BY DEF L!Infos, L!Devs, L!NoInfo, L!NoDev

\* The connection of a device that is connected again.
LEMMA NowConnected ==
  ASSUME L!EnumerationInv, NEW c, L!Now(c) # 0
  PROVE  /\ L!PortOf(L!Now(c)) \in Ports /\ at[L!PortOf(L!Now(c))] = L!Now(c)
         /\ who[L!Now(c)] = who[c] /\ L!Now(c) \in 1..Len(who)
<1>1. PICK p \in Ports : at[p] # 0 /\ who[at[p]] = who[c] /\ L!Now(c) = at[p]
  BY DEF L!Now
<1>2. \E q \in Ports : at[q] = L!Now(c)
  BY <1>1
<1>3. L!PortOf(L!Now(c)) \in Ports /\ at[L!PortOf(L!Now(c))] = L!Now(c)
  BY <1>2 DEF L!PortOf
<1>4. at[p] \in 1..Len(who)
  BY <1>1 DEF L!EnumerationInv, L!EnumerationTypeOK, L!PlugsInv, L!Connections
<1> QED
  BY <1>1, <1>3, <1>4

\* There is nothing.
LEMMA EnumerationStart == L!EnumerationInit => L!EnumerationInv
BY DEF L!Infos, L!Devs, L!EnumerationInit, L!EnumerationInv, L!EnumerationTypeOK, L!PlugsInv, L!PortInv, L!InfoInv, L!DevInv,
       L!NoInfo, L!NoDev, L!Connected

\* A device is plugged in: its connection is a new one.
LEMMA PlugInKeeps ==
  ASSUME L!EnumerationInv, NEW p \in Ports, NEW d \in UsbDevices, L!PlugIn(d, p)
  PROVE  L!EnumerationInv'
<1> DEFINE n == Len(who) + 1
<1> USE DEF L!EnumerationInv
<1>1. /\ Len(who) \in Nat /\ n <= MaxPlugs /\ who' = Append(who, d) /\ at' = [at EXCEPT ![p] = n]
      /\ at[p] = 0 /\ \A q \in Ports : at[q] # 0 => who[at[q]] # d
      /\ UNCHANGED <<lister, step, info, dev>>
  BY DEF L!PlugIn, L!EnumerationTypeOK
<1>2. Len(who') = n /\ who'[n] = d /\ \A c \in 1..Len(who) : who'[c] = who[c]
  BY <1>1 DEF L!EnumerationTypeOK
<1>3. L!EnumerationTypeOK'
  BY <1>1 DEF L!EnumerationTypeOK
<1>4. \A q \in Ports : at[q] \in 0..Len(who)
  BY DEF L!EnumerationTypeOK, L!PlugsInv
<1>5. L!PlugsInv'
  BY <1>1, <1>2, <1>4 DEF L!EnumerationTypeOK, L!PlugsInv
<1>6. \A c \in 0..Len(who) : L!Connected(c)' => L!Connected(c) /\ \A q \in Ports : at[q] = c => at'[q] = c
  BY <1>1, <1>4 DEF L!Connected, L!EnumerationTypeOK
<1>7. info.id \in 0..Len(who) /\ dev.of \in 0..Len(who)
  BY FieldTypes DEF L!EnumerationTypeOK, L!InfoInv, L!DevInv
<1>8. L!PortInv'
  BY <1>1, <1>6, <1>7 DEF L!PortInv, L!EnumerationTypeOK
<1>9. L!InfoInv'
  BY <1>1, <1>2, <1>6, <1>7 DEF L!InfoInv
<1>10. L!DevInv'
  BY <1>1, <1>2, <1>6, <1>7 DEF L!DevInv, L!NoDev
<1> QED
  BY <1>3, <1>5, <1>8, <1>9, <1>10

\* A device is unplugged: its connection will not come back.
LEMMA PullOutKeeps ==
  ASSUME L!EnumerationInv, NEW p \in Ports, L!PullOut(p)
  PROVE  L!EnumerationInv'
<1> USE DEF L!EnumerationInv
<1>1. at' = [at EXCEPT ![p] = 0] /\ UNCHANGED <<lister, who, step, info, dev>>
  BY DEF L!PullOut
<1>2. L!EnumerationTypeOK' /\ L!PlugsInv'
  BY <1>1 DEF L!EnumerationTypeOK, L!PlugsInv
<1>3. \A c \in Nat : L!Connected(c)' => L!Connected(c) /\ \A q \in Ports : at[q] = c => at'[q] = c
  <2> SUFFICES ASSUME NEW c \in Nat, L!Connected(c)', NEW q \in Ports, at[q] = c
               PROVE  at'[q] = c
    BY <1>1 DEF L!Connected, L!EnumerationTypeOK
  <2>1. PICK r \in Ports : at'[r] = c /\ c # 0
    BY DEF L!Connected
  <2>2. r = q
    BY <1>1, <2>1 DEF L!EnumerationTypeOK, L!PlugsInv
  <2> QED
    BY <2>1, <2>2
<1>4. info.id \in Nat /\ dev.of \in Nat
  BY FieldTypes DEF L!EnumerationTypeOK
<1> QED
  BY <1>1, <1>2, <1>3, <1>4 DEF L!PortInv, L!InfoInv, L!DevInv, L!NoDev

\* What the program reads does not change what is connected.
LEMMA ReadingKeeps ==
  ASSUME L!EnumerationInv, UNCHANGED <<lister, at, who>>
  PROVE  /\ L!PlugsInv' /\ lister' \in Systems /\ at' \in [Ports -> L!Connections] /\ who' \in Seq(UsbDevices)
         /\ \A c : L!Connected(c)' <=> L!Connected(c)
         /\ \A p \in Ports : at[p] \in 0..Len(who)
         /\ \A p \in Ports : at[p] # 0 => L!Connected(at[p])
         /\ \A c : L!Connected(c) => c # 0
         /\ Len(who) \in Nat /\ Len(who) <= MaxPlugs
BY DEF L!EnumerationInv, L!EnumerationTypeOK, L!PlugsInv, L!Connected

\* What need not be there, or not be readable, is that of the port if it is there.
LEMMA OptionalReads ==
  ASSUME L!EnumerationInv, NEW on,
         \/ L!ReadOptional(on, "strings", "strings", "interfaces")
         \/ L!ReadOptional(on, "interfaces", "interfaces", "have")
  PROVE  L!EnumerationInv'
<1> USE DEF L!EnumerationInv, L!EnumerationTypeOK, L!PortInv, L!InfoInv, L!DevInv, L!Reads
<1>1. UNCHANGED <<lister, at, who>> /\ step \in {"strings", "interfaces"} /\ dev' = L!NoDev
      /\ step' \in {"interfaces", "have"}
  BY DEF L!ReadOptional
<1>2. info.port \in Ports
  BY <1>1
<1>3. info' \in L!Infos /\ info'.id = info.id /\ info'.port = info.port /\ info'.ids = info.ids
      /\ info'.strings \in {info.strings, 0, at[info.port]}
      /\ info'.interfaces \in {info.interfaces, 0, at[info.port]}
  BY <1>2 DEF L!ReadOptional, L!Infos
<1> QED
  BY <1>1, <1>2, <1>3, ReadingKeeps, FieldTypes

\* Linux: the directory of a port, the files in it, the node of an address.
LEMMA LinuxReads ==
  ASSUME L!EnumerationInv,
         \/ \E p \in Ports : L!ListLinux(p)
         \/ L!ProbeLinux \/ L!OpenNode \/ L!CreateInner \/ L!ActiveConfigurationValue
  PROVE  L!EnumerationInv'
<1>1. UNCHANGED <<lister, at, who>>
  BY DEF L!ListLinux, L!ProbeLinux, L!OpenNode, L!CreateInner, L!ActiveConfigurationValue, L!ReadAttribute,
         L!AttributeMissing, L!ReadOptional, L!Reads, L!Fails
<1>2. lister = "linux"
  BY DEF L!ListLinux, L!ProbeLinux, L!OpenNode, L!CreateInner, L!ActiveConfigurationValue, L!ReadAttribute,
         L!AttributeMissing, L!ReadOptional, L!Reads, L!Fails
<1> USE <1>1, <1>2, ReadingKeeps
<1> USE DEF L!EnumerationInv, L!EnumerationTypeOK, L!PortInv, L!InfoInv, L!DevInv, L!Reads, L!Fails
<1>3. ASSUME NEW p \in Ports, L!ListLinux(p) PROVE L!EnumerationInv'
  <2>1. step = "list" /\ step' = "address" /\ dev' = L!NoDev
    BY <1>3 DEF L!ListLinux
  <2>2. info' \in L!Infos /\ info'.id = 0 /\ info'.port = p /\ info'.strings = 0 /\ info'.interfaces = 0
    BY <1>3 DEF L!ListLinux, L!NoInfo, L!Infos
  <2> QED
    BY <2>1, <2>2, FieldTypes
<1>4. CASE L!ReadAttribute("address", "id", "ids")
  <2>1. info.port \in Ports /\ at[info.port] # 0 /\ step = "address" /\ step' = "ids" /\ dev' = L!NoDev
    BY <1>4 DEF L!ReadAttribute
  <2>2. info' \in L!Infos /\ info'.id = at[info.port] /\ info'.port = info.port
        /\ info'.strings = info.strings /\ info'.interfaces = info.interfaces
    BY <1>4, <2>1 DEF L!ReadAttribute, L!Infos
  <2> QED
    BY <2>1, <2>2, FieldTypes
<1>5. CASE L!ReadAttribute("ids", "ids", "strings")
  <2>1. info.port \in Ports /\ at[info.port] # 0 /\ step = "ids" /\ step' = "strings" /\ dev' = L!NoDev
    BY <1>5 DEF L!ReadAttribute
  <2>2. info' \in L!Infos /\ info'.id = info.id /\ info'.port = info.port /\ info'.ids = at[info.port]
        /\ info'.strings = info.strings /\ info'.interfaces = info.interfaces
    BY <1>5, <2>1 DEF L!ReadAttribute, L!Infos
  <2> QED
    BY <2>1, <2>2, FieldTypes
<1>6. CASE L!AttributeMissing("address") \/ L!AttributeMissing("ids")
  <2>1. step' = "list" /\ dev' = L!NoDev /\ info' = L!NoInfo
    BY <1>6 DEF L!AttributeMissing
  <2> QED
    BY <2>1, FieldTypes
<1>7. CASE \/ L!ReadOptional("linux", "strings", "strings", "interfaces")
           \/ L!ReadOptional("linux", "interfaces", "interfaces", "have")
  BY <1>7, OptionalReads
<1>8. CASE L!OpenNode
  <2>1. CASE L!Connected(info.id) /\ step = "have" /\ step' = "descriptors" /\ info' = info
             /\ dev' = [L!NoDev EXCEPT !.of = info.id]
    <3>1. dev' \in L!Devs /\ dev'.of = info.id /\ dev'.configs = 0 /\ dev'.active = 0
      BY <2>1, FieldTypes DEF L!NoDev, L!Devs
    <3> QED
      BY <2>1, <3>1, FieldTypes
  <2>2. CASE step = "have" /\ step' = "have" /\ info' = info /\ dev' = L!NoDev
    BY <2>2, FieldTypes
  <2> QED
    BY <1>8, <2>1, <2>2 DEF L!OpenNode
<1>9. CASE L!CreateInner
  <2>1. CASE /\ L!Connected(dev.of) /\ step = "descriptors" /\ step' = "config" /\ info' = info
             /\ dev' = [dev EXCEPT !.descriptor = dev.of, !.configs = dev.of]
    <3>1. dev' \in L!Devs /\ dev'.of = dev.of /\ dev'.descriptor = dev.of /\ dev'.configs = dev.of
          /\ dev'.active = dev.active
      BY <2>1, FieldTypes DEF L!Devs
    <3> QED
      BY <2>1, <3>1, FieldTypes
  <2>2. CASE step' = "have" /\ step \in {"descriptors", "config"} /\ info' = info /\ dev' = L!NoDev
    BY <2>2, FieldTypes
  <2>3. CASE /\ step = "config" /\ step' = "open" /\ at[info.port] # 0 /\ info' = info
             /\ dev' = [dev EXCEPT !.active = at[info.port]]
    <3>1. dev' \in L!Devs /\ dev'.of = dev.of /\ dev'.descriptor = dev.descriptor
          /\ dev'.configs = dev.configs /\ dev'.active = at[info.port]
      BY <2>3, FieldTypes DEF L!Devs
    <3> QED
      BY <2>3, <3>1, FieldTypes
  <2> QED
    BY <1>9, <2>1, <2>2, <2>3 DEF L!CreateInner
<1>10. CASE L!ActiveConfigurationValue
  <2>1. step = "open" /\ step' = "open" /\ info' = info
    BY <1>10 DEF L!ActiveConfigurationValue
  <2>2. dev' \in L!Devs /\ dev'.of = dev.of /\ dev'.descriptor = dev.descriptor
        /\ dev'.configs = dev.configs /\ dev'.active \in {dev.active, at[info.port]}
    BY <1>10, <2>1 DEF L!ActiveConfigurationValue, L!Devs
  <2> QED
    BY <2>1, <2>2, FieldTypes
<1> QED
  BY <1>3, <1>4, <1>5, <1>6, <1>7, <1>8, <1>9, <1>10 DEF L!ProbeLinux

\* Windows: the instance, the port where it is by now, what the hub says of the port.
LEMMA WindowsReads ==
  ASSUME L!EnumerationInv,
         \/ \E p \in Ports : L!ListWindows(p)
         \/ L!ProbeWindows \/ L!OpenPort \/ L!GetInfo \/ L!GetConfigDescriptors
  PROVE  L!EnumerationInv'
<1>1. UNCHANGED <<lister, at, who>>
  BY DEF L!ListWindows, L!ProbeWindows, L!FindPort, L!OpenPort, L!GetInfo, L!GetConfigDescriptors,
         L!ReadOptional, L!Reads, L!Fails
<1>2. lister = "windows" \/ \E f \in {"strings", "interfaces"} : \E then : L!ReadOptional("windows", f, f, then)
  BY DEF L!ListWindows, L!ProbeWindows, L!FindPort, L!OpenPort, L!GetInfo, L!GetConfigDescriptors,
         L!Reads, L!Fails
<1> USE <1>1, ReadingKeeps
<1> USE DEF L!EnumerationInv, L!EnumerationTypeOK, L!PortInv, L!InfoInv, L!DevInv, L!Reads, L!Fails
<1>3. ASSUME NEW p \in Ports, L!ListWindows(p) PROVE L!EnumerationInv'
  <2>1. step = "list" /\ step' = "port" /\ dev' = L!NoDev /\ at[p] # 0
    BY <1>3 DEF L!ListWindows
  <2>2. info' \in L!Infos /\ info'.id = at[p] /\ info'.strings = 0 /\ info'.interfaces = 0
    BY <1>3 DEF L!ListWindows, L!NoInfo, L!Infos
  <2> QED
    BY <2>1, <2>2, FieldTypes
<1>4. CASE L!FindPort
  <2>1. CASE /\ L!Now(info.id) # 0 /\ step = "port" /\ step' = "ids" /\ dev' = dev
             /\ info' = [info EXCEPT !.id = L!Now(@), !.port = L!PortOf(L!Now(info.id))]
    <3> DEFINE c == L!Now(info.id)
    <3>1. L!PortOf(c) \in Ports /\ at[L!PortOf(c)] = c /\ c \in 1..Len(who)
      BY <2>1, NowConnected
    <3> HIDE DEF c
    <3>2. info' = [info EXCEPT !.id = c, !.port = L!PortOf(c)]
      BY <2>1 DEF c
    <3>3. info' \in L!Infos /\ info'.id = c /\ info'.port = L!PortOf(c)
          /\ info'.strings = info.strings /\ info'.interfaces = info.interfaces
      BY <3>1, <3>2 DEF L!Infos
    <3> QED
      BY <2>1, <3>1, <3>3, FieldTypes
  <2>2. CASE step' = "list" /\ info' = L!NoInfo /\ dev' = L!NoDev
    BY <2>2, FieldTypes
  <2> QED
    BY <1>4, <2>1, <2>2 DEF L!FindPort
<1>5. CASE /\ L!Reads("windows", "ids", "strings") /\ at[info.port] # 0
           /\ info' = [info EXCEPT !.ids = at[info.port]] /\ UNCHANGED dev
  <2>1. info.port \in Ports /\ dev' = L!NoDev
    BY <1>5
  <2>2. info' \in L!Infos /\ info'.id = info.id /\ info'.port = info.port /\ info'.ids = at[info.port]
        /\ info'.strings = info.strings /\ info'.interfaces = info.interfaces
    BY <1>5, <2>1 DEF L!Infos
  <2> QED
    BY <1>5, <2>1, <2>2, FieldTypes
<1>6. CASE L!Fails("windows", "ids", "list")
  BY <1>6, FieldTypes
<1>7. CASE \/ L!ReadOptional("windows", "strings", "strings", "interfaces")
           \/ L!ReadOptional("windows", "interfaces", "interfaces", "have")
  BY <1>7, OptionalReads
<1>8. CASE L!OpenPort
  <2>1. CASE /\ lister = "windows" /\ L!Now(info.id) # 0 /\ step = "have" /\ step' = "info" /\ info' = info
             /\ dev' = [L!NoDev EXCEPT !.of = L!Now(info.id), !.port = L!HubPort(info.id)]
    <3> DEFINE c == L!Now(info.id)
    <3>1. L!PortOf(c) \in Ports /\ at[L!PortOf(c)] = c /\ c \in 1..Len(who) /\ who[c] = who[info.id]
      BY <2>1, NowConnected
    <3>2. info.id # 0
      BY <2>1
    <3> HIDE DEF c
    <3>3. dev' = [L!NoDev EXCEPT !.of = c, !.port = L!PortOf(c)]
      BY <2>1 DEF c, L!HubPort
    <3>5. c \in L!Connections
      BY <3>1
    <3>4. dev' \in L!Devs /\ dev'.of = c /\ dev'.port = L!PortOf(c) /\ dev'.configs = 0 /\ dev'.active = 0
      <4>1. PICK p \in Ports : p = L!PortOf(c)
        BY <3>1
      <4>2. dev' = [of |-> c, port |-> p, descriptor |-> 0, configs |-> 0, active |-> 0]
        BY <3>3, <4>1 DEF L!NoDev
      <4>3. dev' \in L!Devs
        BY <3>5, <4>2 DEF L!Devs
      <4>4. dev'.configs = 0
        BY ONLY <4>2
      <4>5. dev'.active = 0
        BY ONLY <4>2
      <4>6. dev'.of = c /\ dev'.port = p
        BY ONLY <4>2
      <4> QED
        BY <4>1, <4>3, <4>4, <4>5, <4>6
    <3> QED
      BY <2>1, <3>1, <3>2, <3>4, FieldTypes
  <2>2. CASE step = "have" /\ step' = "have" /\ info' = info /\ dev' = L!NoDev
    BY <2>2, FieldTypes
  <2> QED
    BY <1>8, <2>1, <2>2 DEF L!OpenPort
<1>9. CASE L!GetInfo
  <2>1. CASE /\ lister = "windows" /\ step = "info" /\ step' = "configs" /\ at[dev.port] # 0 /\ info' = info
             /\ dev' = [dev EXCEPT !.descriptor = at[dev.port], !.active = at[dev.port]]
    <3>1. dev.port \in Ports
      BY <2>1
    <3>2. dev' \in L!Devs /\ dev'.of = dev.of /\ dev'.port = dev.port /\ dev'.descriptor = at[dev.port]
          /\ dev'.configs = dev.configs /\ dev'.active = at[dev.port]
      BY <2>1, <3>1, FieldTypes DEF L!Devs
    <3> QED
      BY <2>1, <3>1, <3>2, FieldTypes
  <2>2. CASE step = "info" /\ step' = "have" /\ info' = info /\ dev' = L!NoDev
    BY <2>2, FieldTypes
  <2> QED
    BY <1>9, <2>1, <2>2 DEF L!GetInfo
<1>10. CASE L!GetConfigDescriptors
  <2>1. lister = "windows" /\ step = "configs" /\ step' = "open" /\ info' = info /\ dev.port \in Ports
    BY <1>10 DEF L!GetConfigDescriptors
  <2>2. dev' \in L!Devs /\ dev'.of = dev.of /\ dev'.port = dev.port /\ dev'.descriptor = dev.descriptor
        /\ dev'.configs \in {0, at[dev.port]} /\ dev'.active = dev.active
    BY <1>10, <2>1, FieldTypes DEF L!GetConfigDescriptors, L!Devs
  <2> QED
    BY <2>1, <2>2, FieldTypes
<1> QED
  BY <1>3, <1>4, <1>5, <1>6, <1>7, <1>8, <1>9, <1>10 DEF L!ProbeWindows

\* macOS: everything is read of one entry of the registry.
LEMMA MacReads ==
  ASSUME L!EnumerationInv, (\E p \in Ports : L!ListMac(p)) \/ L!FindService \/ L!ReadFields
  PROVE  L!EnumerationInv'
<1>1. UNCHANGED <<lister, at, who>> /\ lister = "macos"
  BY DEF L!ListMac, L!FindService, L!ReadFields, L!Reads, L!Fails
<1> USE <1>1, ReadingKeeps
<1> USE DEF L!EnumerationInv, L!EnumerationTypeOK, L!PortInv, L!InfoInv, L!DevInv, L!Reads, L!Fails
<1>2. ASSUME NEW p \in Ports, L!ListMac(p) PROVE L!EnumerationInv'
  <2>1. step = "list" /\ step' = "have" /\ dev' = L!NoDev /\ at[p] # 0
    BY <1>2 DEF L!ListMac
  <2>2. info' \in L!Infos /\ info'.id = at[p] /\ info'.port = p /\ info'.ids = at[p]
        /\ info'.strings \in {0, at[p]} /\ info'.interfaces \in {0, at[p]}
    BY <1>2 DEF L!ListMac, L!Infos
  <2> QED
    BY <2>1, <2>2, FieldTypes
<1>3. CASE L!FindService
  <2>1. CASE L!Connected(info.id) /\ step = "have" /\ step' = "fields" /\ info' = info
             /\ dev' = [L!NoDev EXCEPT !.of = info.id]
    <3>1. dev' \in L!Devs /\ dev'.of = info.id /\ dev'.configs = 0 /\ dev'.active = 0
      BY <2>1, FieldTypes DEF L!NoDev, L!Devs
    <3> QED
      BY <2>1, <3>1, FieldTypes
  <2>2. CASE step = "have" /\ step' = "have" /\ info' = info /\ dev' = L!NoDev
    BY <2>2, FieldTypes
  <2> QED
    BY <1>3, <2>1, <2>2 DEF L!FindService
<1>4. CASE L!ReadFields
  <2>1. CASE step = "fields" /\ step' = "open" /\ info' = info
             /\ \E configs, read \in {0, dev.of} :
                  dev' = [dev EXCEPT !.descriptor = dev.of, !.configs = configs, !.active = read]
    <3>0. PICK configs \in {0, dev.of}, read \in {0, dev.of} :
            dev' = [dev EXCEPT !.descriptor = dev.of, !.configs = configs, !.active = read]
      BY <2>1
    <3>1. dev' \in L!Devs /\ dev'.of = dev.of /\ dev'.descriptor = dev.of
          /\ dev'.configs = configs /\ dev'.active = read
      BY <3>0, FieldTypes DEF L!Devs
    <3> QED
      BY <2>1, <3>0, <3>1, FieldTypes
  <2>2. CASE step = "fields" /\ step' = "have" /\ info' = info /\ dev' = L!NoDev
    BY <2>2, FieldTypes
  <2> QED
    BY <1>4, <2>1, <2>2 DEF L!ReadFields
<1> QED
  BY <1>2, <1>3, <1>4

\* The program closes the device, or lists again.
LEMMA StartOverKeeps ==
  ASSUME L!EnumerationInv, L!StartOver
  PROVE  L!EnumerationInv'
<1>1. UNCHANGED <<lister, at, who>> /\ dev' = L!NoDev
  BY DEF L!StartOver
<1>2. \/ step = "open" /\ step' = "have" /\ info' = info
      \/ step' = "list" /\ info' = L!NoInfo
  BY DEF L!StartOver
<1> QED
  BY <1>1, <1>2, ReadingKeeps, FieldTypes
     DEF L!EnumerationInv, L!EnumerationTypeOK, L!PortInv, L!InfoInv, L!DevInv

\* Every step of a device or of the program.
LEMMA EnumerationStep == L!EnumerationInv /\ L!EnumerationNext => L!EnumerationInv'
BY PlugInKeeps, PullOutKeeps, LinuxReads, WindowsReads, MacReads, StartOverKeeps DEF L!EnumerationNext

\* What is read of a device that is connected is its own.
LEMMA InvIdentified == L!EnumerationInv => L!Identified
<1> SUFFICES ASSUME L!EnumerationInv PROVE L!Identified
  OBVIOUS
<1> QED
  BY DEF L!EnumerationInv, L!InfoInv, L!DevInv, L!Identified, L!NoDev, L!Connected

\* A step of another backend leaves it alone.
LEMMA EnumerationStays == L!EnumerationInv /\ UNCHANGED enumeration => L!EnumerationInv'
<1> SUFFICES ASSUME L!EnumerationInv, UNCHANGED enumeration PROVE L!EnumerationInv'
  OBVIOUS
<1>1. lister' = lister /\ at' = at /\ who' = who /\ step' = step /\ info' = info /\ dev' = dev
  BY DEF enumeration
<1>2. L!EnumerationTypeOK' /\ L!PlugsInv'
  BY <1>1 DEF L!EnumerationInv, L!EnumerationTypeOK, L!PlugsInv
<1>3. L!PortInv' /\ L!InfoInv' /\ L!DevInv'
  BY <1>1 DEF L!EnumerationInv, L!PortInv, L!InfoInv, L!DevInv, L!Connected
<1> QED
  BY <1>2, <1>3 DEF L!EnumerationInv

-----------------------------------------------------------------------------
(* The endpoints of Windows, macOS and WebUSB                              *)

\* InQueue, by indices.
LEMMA InQueueIs ==
  ASSUME pending \in Seq(Buffers)
  PROVE  /\ \A b : b \in E!InQueue <=> \E i \in 1..Len(pending) : pending[i] = b
         /\ \A i \in 1..Len(pending) : pending[i] \in Buffers /\ pending[i] \in E!InQueue
         /\ DOMAIN pending = 1..Len(pending) /\ Len(pending) \in Nat
BY DEF E!InQueue, E!ToSet

\* What the conjuncts of EndpointTypeOK say of the sequences.
LEMMA Queues ==
  ASSUME E!EndpointTypeOK
  PROVE  /\ pending \in Seq(Buffers) /\ ended \in Seq(Buffers) /\ flying \in Seq(Buffers \union {Orphan})
         /\ Len(pending) \in Nat /\ Len(ended) \in Nat /\ Len(flying) \in Nat
         /\ DOMAIN pending = 1..Len(pending) /\ DOMAIN ended = 1..Len(ended) /\ DOMAIN flying = 1..Len(flying)
         /\ \A b : b \in E!InQueue <=> \E i \in 1..Len(pending) : pending[i] = b
         /\ \A i \in 1..Len(pending) : pending[i] \in Buffers /\ pending[i] \in E!InQueue
         /\ \A i \in 1..Len(ended) : ended[i] \in Buffers
         /\ \A i \in 1..Len(flying) : flying[i] \in Buffers \/ flying[i] = Orphan
BY InQueueIs DEF E!EndpointTypeOK

\* A buffer that is submitted is nowhere, and is then the last of the queue.
LEMMA Enqueued ==
  ASSUME E!EndpointInv, NEW b \in Buffers, E!Enqueue(b)
  PROVE  /\ phase = "open" /\ walk = 0 /\ b \notin E!InQueue /\ b \notin done
         /\ \A i \in 1..Len(flying) : flying[i] # b
         /\ \A i \in 1..Len(ended) : ended[i] # b
         /\ pending' \in Seq(Buffers) /\ Len(pending') = Len(pending) + 1
         /\ DOMAIN pending' = 1..(Len(pending) + 1)
         /\ pending'[Len(pending) + 1] = b
         /\ \A j \in 1..Len(pending) : pending'[j] = pending[j]
         /\ \A c : c \in E!InQueue' <=> c \in E!InQueue \/ c = b
         /\ after' \in [Buffers -> SUBSET Buffers]
         /\ E!QueueInv' /\ E!PhaseInv'
<1> USE DEF E!EndpointInv
<1>0. E!EndpointTypeOK
  OBVIOUS
<1>1. phase = "open" /\ b \notin E!InQueue /\ walk = 0
  BY DEF E!Enqueue, E!PhaseInv
<1>2. b \notin done
  BY <1>1 DEF E!OutcomeInv
<1>3. (\A i \in 1..Len(flying) : flying[i] # b) /\ (\A i \in 1..Len(ended) : ended[i] # b)
  <2>1. \A i \in 1..Len(flying) : flying[i] \in E!InQueue \union {Orphan}
    BY <1>0, <1>1, Queues DEF E!OwnerInv
  <2>2. \A i \in 1..Len(ended) : ended[i] \in E!InQueue
    BY <1>0, <1>1, Queues DEF E!OwnerInv
  <2> QED
    BY <1>1, <2>1, <2>2, OrphanAssumption
<1>4. /\ pending' \in Seq(Buffers) /\ Len(pending') = Len(pending) + 1
      /\ pending'[Len(pending) + 1] = b
      /\ \A j \in 1..Len(pending) : pending'[j] = pending[j]
  BY <1>0, Queues, Appended DEF E!Enqueue
<1>5. DOMAIN pending' = 1..(Len(pending) + 1)
  BY <1>4
<1>6. \A c : c \in E!InQueue' <=> \E i \in 1..Len(pending') : pending'[i] = c
  BY <1>4 DEF E!InQueue, E!ToSet
<1>7. \A c : c \in E!InQueue' <=> c \in E!InQueue \/ c = b
  <2> TAKE c
  <2>1. c \in E!InQueue <=> \E i \in 1..Len(pending) : pending[i] = c
    BY <1>0, Queues
  <2>2. c \in E!InQueue' <=> \E i \in 1..(Len(pending) + 1) : pending'[i] = c
    BY <1>4, <1>6
  <2>3. \A i : i \in 1..(Len(pending) + 1) <=> i \in 1..Len(pending) \/ i = Len(pending) + 1
    BY <1>0, Queues
  <2> QED
    BY <1>4, <2>1, <2>2, <2>3
<1>8. after' \in [Buffers -> SUBSET Buffers]
  BY DEF E!Enqueue, E!EndpointTypeOK
<1>9. E!QueueInv'
  BY <1>0, <1>1, <1>4, <1>5, Queues DEF E!QueueInv
<1>10. E!PhaseInv'
  BY <1>1 DEF E!Enqueue, E!PhaseInv
<1> QED
  BY <1>1, <1>2, <1>3, <1>4, <1>5, <1>7, <1>8, <1>9, <1>10

\* SubmitWindows, SubmitMac and SubmitWebusb keep the invariant: the transfer is the last
\* of the queue and of the pipe.
LEMMA FlyKeeps ==
  ASSUME E!EndpointInv, NEW b \in Buffers, E!Fly(b)
  PROVE  E!EndpointInv'
<1> USE DEF E!EndpointInv
<1>0. E!EndpointTypeOK /\ E!Enqueue(b)
  BY DEF E!Fly
<1>1. /\ phase = "open" /\ walk = 0 /\ b \notin E!InQueue /\ b \notin done
      /\ (\A i \in 1..Len(flying) : flying[i] # b)
      /\ (\A i \in 1..Len(ended) : ended[i] # b)
      /\ pending' \in Seq(Buffers) /\ Len(pending') = Len(pending) + 1
      /\ DOMAIN pending' = 1..(Len(pending) + 1)
      /\ pending'[Len(pending) + 1] = b
      /\ (\A j \in 1..Len(pending) : pending'[j] = pending[j])
      /\ (\A c : c \in E!InQueue' <=> c \in E!InQueue \/ c = b)
      /\ after' \in [Buffers -> SUBSET Buffers]
      /\ E!QueueInv' /\ E!PhaseInv'
  BY <1>0, Enqueued
<1>2. UNCHANGED <<backend, phase, marked, ended, walk, asked, done>>
  BY <1>0 DEF E!Fly, E!Enqueue
<1>3. /\ flying' \in Seq(Buffers \union {Orphan}) /\ Len(flying') = Len(flying) + 1
      /\ flying'[Len(flying) + 1] = b
      /\ \A j \in 1..Len(flying) : flying'[j] = flying[j]
  BY <1>0, Queues, Appended DEF E!Fly
<1>4. DOMAIN flying' = 1..(Len(flying) + 1)
  BY <1>3
<1>5. outcome' \in [Buffers -> {"pending", "ok", "error", "cancelled", "invalid"}]
      /\ outcome'[b] = "pending" /\ \A c \in Buffers : c # b => outcome'[c] = outcome[c]
  BY DEF E!Fly, E!EndpointTypeOK
<1>13. Len(pending) \in Nat /\ Len(flying) \in Nat /\ Len(ended) \in Nat
  BY <1>0, Queues
<1>6. E!EndpointTypeOK'
  <2>1. walk' \in 0..Len(pending')
    BY <1>0, <1>1, <1>2, Queues
  <2> QED
    BY <1>0, <1>1, <1>2, <1>3, <1>5, <2>1 DEF E!EndpointTypeOK
<1>14. \A i \in DOMAIN flying' : IF i = Len(flying) + 1 THEN flying'[i] = b
                                  ELSE i \in 1..Len(flying) /\ flying'[i] = flying[i]
  BY <1>3, <1>4, <1>13
<1>7. E!PlaceInv'
  <2>2. \A i, j \in DOMAIN flying' : flying'[i] = flying'[j] => i = j \/ flying'[i] = Orphan
    BY <1>0, <1>1, <1>14, Queues DEF E!PlaceInv
  <2>3. \A i \in DOMAIN flying' : flying'[i] \notin done' /\ \A j \in DOMAIN ended' : flying'[i] # ended'[j]
    BY <1>0, <1>1, <1>2, <1>14, Queues DEF E!PlaceInv
  <2> QED
    BY <1>2, <2>2, <2>3 DEF E!PlaceInv
<1>8. E!OutcomeInv'
  <2>1. \A i \in DOMAIN flying' : flying'[i] # Orphan => outcome'[flying'[i]] = "pending"
    BY <1>5, <1>14, Queues DEF E!OutcomeInv
  <2>2. \A i \in DOMAIN ended' : ended'[i] \in E!InQueue' => outcome'[ended'[i]] # "pending"
    BY <1>0, <1>1, <1>2, <1>5, Queues DEF E!OutcomeInv
  <2>3. \A c \in done' : c \in E!InQueue' /\ outcome'[c] # "pending"
    BY <1>0, <1>1, <1>2, <1>5, Queues DEF E!OutcomeInv, E!EndpointTypeOK
  <2>4. ASSUME NEW c \in E!InQueue', outcome'[c] = "pending" PROVE \E i \in DOMAIN flying' : flying'[i] = c
    <3>1. CASE c = b
      <4>1. Len(flying) + 1 \in DOMAIN flying'
        BY <1>4, <1>13
      <4> QED
        BY <1>3, <3>1, <4>1
    <3>2. CASE c # b
      <4>1. c \in E!InQueue /\ outcome[c] = "pending"
        BY <1>0, <1>1, <1>5, <2>4, <3>2, Queues
      <4>2. PICK i \in DOMAIN flying : flying[i] = c
        BY <1>1, <4>1 DEF E!OutcomeInv
      <4> QED
        BY <1>0, <1>3, <1>4, <4>2, Queues
    <3> QED
      BY <3>1, <3>2
  <2> QED
    BY <2>1, <2>2, <2>3, <2>4 DEF E!OutcomeInv
<1>9. E!OwnerInv'
  <2>1. \A i \in DOMAIN flying' : flying'[i] = b \/ \E j \in 1..Len(flying) : j = i /\ flying'[i] = flying[j]
    BY <1>3, <1>4, <1>13
  <2>2. \A i \in DOMAIN flying' : flying'[i] \in E!InQueue' \union {Orphan}
    BY <1>0, <1>1, <2>1, Queues DEF E!OwnerInv
  <2>3. \A i \in DOMAIN ended' : ended'[i] \in E!InQueue'
    BY <1>1, <1>2 DEF E!OwnerInv
  <2>4. E!Native' => \A i \in DOMAIN flying' : flying'[i] # Orphan
    BY <1>0, <1>2, <2>1, Queues, OrphanAssumption DEF E!OwnerInv, E!Native
  <2> QED
    BY <1>1, <1>2, <2>2, <2>3, <2>4 DEF E!OwnerInv
<1>10. E!OrderInv'
  <2>1. SUFFICES ASSUME NEW i \in DOMAIN flying', NEW j \in DOMAIN flying',
                        NEW m \in DOMAIN pending', NEW n \in DOMAIN pending',
                        i < j, flying'[i] = pending'[m], flying'[j] = pending'[n]
                 PROVE  m < n
    BY DEF E!OrderInv
  <2>2. i \in 1..Len(flying) /\ flying'[i] = flying[i]
    BY <1>0, <1>3, <1>4, <2>1, Queues
  <2>3. flying[i] # b
    BY <1>1, <2>2
  <2>4. m \in 1..Len(pending) /\ pending'[m] = pending[m]
    <3>1. m \in 1..(Len(pending) + 1) /\ pending'[m] # b
      BY <1>1, <2>1, <2>2, <2>3
    <3>2. m # Len(pending) + 1
      BY <1>1, <3>1
    <3>3. m \in 1..Len(pending)
      BY ONLY <1>13, <3>1, <3>2
    <3> QED
      BY <1>1, <3>3
  <2>5. CASE j = Len(flying) + 1
    <3>1. n = Len(pending) + 1
      <4>1. pending'[n] = b
        BY <1>3, <2>1, <2>5
      <4>2. \A k \in 1..Len(pending) : pending[k] # b
        BY <1>0, <1>1, Queues
      <4> QED
        BY <1>1, <1>13, <4>1, <4>2
    <3> QED
      BY <1>0, <2>4, <3>1, Queues
  <2>6. CASE j # Len(flying) + 1
    <3>1. j \in 1..Len(flying) /\ flying'[j] = flying[j]
      BY <1>0, <1>3, <1>4, <2>6, Queues
    <3>2. n \in 1..Len(pending) /\ pending'[n] = pending[n]
      <4>1. n \in 1..(Len(pending) + 1) /\ pending'[n] # b
        BY <1>1, <2>1, <3>1
      <4>2. n # Len(pending) + 1
        BY <1>1, <4>1
      <4>3. n \in 1..Len(pending)
        BY ONLY <1>13, <4>1, <4>2
      <4> QED
        BY <1>1, <4>3
    <3> QED
      BY <1>0, <2>1, <2>2, <2>4, <3>1, <3>2, Queues DEF E!OrderInv
  <2> QED
    BY <2>5, <2>6
<1>11. E!CancelInv'
  <2>1. \A c \in E!InQueue' : outcome'[c] = "cancelled" => c \in asked'
    <3> TAKE c \in E!InQueue'
    <3>1. CASE c = b
      BY <1>5, <3>1
    <3>2. CASE c # b
      BY <1>0, <1>1, <1>2, <1>5, <3>2, Queues DEF E!CancelInv
    <3> QED
      BY <3>1, <3>2
  <2>2. ASSUME NEW m \in DOMAIN pending', NEW n \in DOMAIN pending', m < n,
               outcome'[pending'[m]] = "cancelled", outcome'[pending'[n]] = "pending"
        PROVE  pending'[m] \in after'[pending'[n]]
    <3>1. /\ m \in 1..Len(pending) /\ pending'[m] = pending[m] /\ pending[m] # b
          /\ outcome[pending[m]] = "cancelled"
      BY <1>0, <1>1, <1>5, <2>2, Queues
    <3>2. CASE n = Len(pending) + 1
      <4>1. after'[b] = asked
        BY <1>0 DEF E!Enqueue, E!EndpointTypeOK
      <4>2. pending[m] \in asked
        BY <1>0, <3>1, Queues DEF E!CancelInv
      <4> QED
        BY <1>1, <3>1, <3>2, <4>1, <4>2
    <3>3. CASE n # Len(pending) + 1
      <4>1. n \in 1..Len(pending) /\ pending'[n] = pending[n] /\ pending[n] # b
        BY <1>0, <1>1, <3>3, Queues
      <4>2. outcome[pending[n]] = "pending" /\ after'[pending[n]] = after[pending[n]]
        BY <1>0, <1>5, <2>2, <4>1, Queues DEF E!Enqueue, E!EndpointTypeOK
      <4>3. ~E!Aborting
        BY <1>1 DEF E!Aborting
      <4> QED
        BY <1>0, <2>2, <3>1, <4>1, <4>2, <4>3, Queues DEF E!CancelInv
    <3> QED
      BY <3>2, <3>3
  <2> QED
    BY <2>1, <2>2 DEF E!CancelInv
<1>12. E!WalkInv' /\ E!FreeMeansQuiescent'
  BY <1>1, <1>2 DEF E!WalkInv, E!FreeMeansQuiescent, E!Native
<1> QED
  BY <1>1, <1>6, <1>7, <1>8, <1>9, <1>10, <1>11, <1>12

\* PostSubmitFails, SubmitErr and the refusals of the others keep it: the transfer is the last
\* of the queue and complete.
LEMMA InlineKeeps ==
  ASSUME E!EndpointInv, NEW b \in Buffers, NEW r \in {"error", "invalid"}, E!Inline(b, r)
  PROVE  E!EndpointInv'
<1> USE DEF E!EndpointInv
<1>0. E!EndpointTypeOK /\ E!Enqueue(b)
  BY DEF E!Inline
<1>1. /\ phase = "open" /\ walk = 0 /\ b \notin E!InQueue /\ b \notin done
      /\ (\A i \in 1..Len(flying) : flying[i] # b)
      /\ (\A i \in 1..Len(ended) : ended[i] # b)
      /\ pending' \in Seq(Buffers) /\ Len(pending') = Len(pending) + 1
      /\ DOMAIN pending' = 1..(Len(pending) + 1)
      /\ pending'[Len(pending) + 1] = b
      /\ (\A j \in 1..Len(pending) : pending'[j] = pending[j])
      /\ (\A c : c \in E!InQueue' <=> c \in E!InQueue \/ c = b)
      /\ after' \in [Buffers -> SUBSET Buffers]
      /\ E!QueueInv' /\ E!PhaseInv'
  BY <1>0, Enqueued
<1>2. UNCHANGED <<backend, phase, marked, ended, walk, asked, flying>> /\ done' = done \union {b}
  BY <1>0 DEF E!Inline, E!Enqueue
<1>3. outcome' \in [Buffers -> {"pending", "ok", "error", "cancelled", "invalid"}]
      /\ outcome'[b] = r /\ \A c \in Buffers : c # b => outcome'[c] = outcome[c]
  BY DEF E!Inline, E!EndpointTypeOK
<1>4. E!EndpointTypeOK'
  <2>1. walk' \in 0..Len(pending')
    BY <1>0, <1>1, <1>2, Queues
  <2> QED
    BY <1>0, <1>1, <1>2, <1>3, <2>1 DEF E!EndpointTypeOK
<1>5. E!PlaceInv'
  BY <1>0, <1>1, <1>2, Queues, OrphanAssumption DEF E!PlaceInv
<1>6. E!OutcomeInv'
  <2>1. \A i \in DOMAIN flying' : flying'[i] # Orphan => outcome'[flying'[i]] = "pending"
    BY <1>0, <1>1, <1>2, <1>3, Queues DEF E!OutcomeInv
  <2>2. \A i \in DOMAIN ended' : ended'[i] \in E!InQueue' => outcome'[ended'[i]] # "pending"
    BY <1>0, <1>1, <1>2, <1>3, Queues DEF E!OutcomeInv
  <2>3. \A c \in done' : c \in E!InQueue' /\ outcome'[c] # "pending"
    BY <1>0, <1>1, <1>2, <1>3, Queues DEF E!OutcomeInv, E!EndpointTypeOK
  <2>4. ASSUME NEW c \in E!InQueue', outcome'[c] = "pending" PROVE \E i \in DOMAIN flying' : flying'[i] = c
    <3>1. c \in E!InQueue /\ outcome[c] = "pending"
      BY <1>0, <1>1, <1>3, <2>4, Queues
    <3> QED
      BY <1>1, <1>2, <3>1 DEF E!OutcomeInv
  <2> QED
    BY <2>1, <2>2, <2>3, <2>4 DEF E!OutcomeInv
<1>7. E!OwnerInv'
  BY <1>0, <1>1, <1>2, Queues, OrphanAssumption DEF E!OwnerInv, E!Native
<1>8. E!OrderInv'
  <2>1. SUFFICES ASSUME NEW i \in 1..Len(flying), NEW j \in 1..Len(flying),
                        NEW m \in DOMAIN pending', NEW n \in DOMAIN pending',
                        i < j, flying[i] = pending'[m], flying[j] = pending'[n]
                 PROVE  m < n
    BY <1>0, <1>2, Queues DEF E!OrderInv
  <2>2. /\ m \in 1..Len(pending) /\ pending'[m] = pending[m]
        /\ n \in 1..Len(pending) /\ pending'[n] = pending[n]
    BY <1>0, <1>1, <2>1, Queues
  <2> QED
    BY <1>0, <2>1, <2>2, Queues DEF E!OrderInv
<1>9. E!CancelInv'
  <2>1. \A c \in E!InQueue' : outcome'[c] = "cancelled" => c \in asked'
    BY <1>0, <1>1, <1>2, <1>3, Queues DEF E!CancelInv
  <2>2. ASSUME NEW m \in DOMAIN pending', NEW n \in DOMAIN pending', m < n,
               outcome'[pending'[m]] = "cancelled", outcome'[pending'[n]] = "pending"
        PROVE  pending'[m] \in after'[pending'[n]]
    <3>1. /\ m \in 1..Len(pending) /\ pending'[m] = pending[m] /\ pending[m] # b
          /\ n \in 1..Len(pending) /\ pending'[n] = pending[n] /\ pending[n] # b
      BY <1>0, <1>1, <1>3, <2>2, Queues
    <3>2. /\ outcome[pending[m]] = "cancelled" /\ outcome[pending[n]] = "pending"
          /\ after'[pending[n]] = after[pending[n]]
      BY <1>0, <1>3, <2>2, <3>1, Queues DEF E!Enqueue, E!EndpointTypeOK
    <3>3. ~E!Aborting
      BY <1>1 DEF E!Aborting
    <3> QED
      BY <1>0, <2>2, <3>1, <3>2, <3>3, Queues DEF E!CancelInv
  <2> QED
    BY <2>1, <2>2 DEF E!CancelInv
<1>10. E!WalkInv' /\ E!FreeMeansQuiescent'
  BY <1>1, <1>2 DEF E!WalkInv, E!FreeMeansQuiescent, E!Native
<1> QED
  BY <1>1, <1>4, <1>5, <1>6, <1>7, <1>8, <1>9, <1>10

\* When a transfer leaves the pipe for its callback, what concerns the sequences holds on;
\* the rest depends on who ended it.
LEMMA EndKeeps ==
  ASSUME E!EndpointInv, NEW i \in 1..Len(flying), NEW r \in {"ok", "error", "cancelled"}, E!End(i, r),
         UNCHANGED <<backend, phase, marked, pending, done, asked, after>>
  PROVE  /\ E!QueueInv' /\ E!PlaceInv' /\ E!OutcomeInv' /\ E!OwnerInv' /\ E!OrderInv' /\ E!FreeMeansQuiescent'
         /\ walk' \in 0..Len(pending') => E!EndpointTypeOK'
         /\ DOMAIN flying' = 1..(Len(flying) - 1)
         /\ \A j \in 1..(Len(flying) - 1) : flying'[j] = IF j < i THEN flying[j] ELSE flying[j + 1]
         /\ \A b \in Buffers : outcome'[b] = IF b = flying[i] THEN r ELSE outcome[b]
         /\ flying[i] # Orphan => flying[i] \in Buffers /\ outcome[flying[i]] = "pending"
<1> USE DEF E!EndpointInv
<1>0. E!EndpointTypeOK /\ Len(pending) \in Nat /\ Len(flying) \in Nat /\ Len(ended) \in Nat
  BY Queues
<1>1. /\ flying' \in Seq(Buffers \union {Orphan}) /\ Len(flying') = Len(flying) - 1
      /\ \A j \in 1..(Len(flying) - 1) : flying'[j] = IF j < i THEN flying[j] ELSE flying[j + 1]
  <2>1. flying \in Seq(Buffers \union {Orphan}) /\ i \in 1..Len(flying) /\ flying' = E!RemoveAt(flying, i)
    BY <1>0, Queues DEF E!End
  <2> QED
    BY ONLY <2>1, Removed
<1>2. DOMAIN flying' = 1..(Len(flying) - 1)
  BY <1>1
<1>3. flying[i] # Orphan => flying[i] \in Buffers /\ outcome[flying[i]] = "pending"
  BY <1>0, Queues DEF E!OutcomeInv
<1>4. /\ outcome' \in [Buffers -> {"pending", "ok", "error", "cancelled", "invalid"}]
      /\ \A b \in Buffers : outcome'[b] = IF b = flying[i] THEN r ELSE outcome[b]
  <2>1. CASE flying[i] = Orphan
    BY <1>0, <2>1, OrphanAssumption DEF E!End, E!EndpointTypeOK
  <2>2. CASE flying[i] # Orphan
    BY <1>0, <1>3, <2>2 DEF E!End, E!EndpointTypeOK
  <2> QED
    BY <2>1, <2>2
<1>5. /\ ended' \in Seq(Buffers)
      /\ \A k \in DOMAIN ended' : \/ k \in DOMAIN ended /\ ended'[k] = ended[k]
                                  \/ flying[i] # Orphan /\ k = Len(ended) + 1 /\ ended'[k] = flying[i]
  <2>1. CASE flying[i] = Orphan
    BY <1>0, <2>1, Queues DEF E!End
  <2>2. CASE flying[i] # Orphan
    <3>1. /\ ended' \in Seq(Buffers) /\ Len(ended') = Len(ended) + 1
          /\ (\A j \in 1..Len(ended) : ended'[j] = ended[j])
          /\ ended'[Len(ended) + 1] = flying[i]
      <4>1. flying[i] \in Buffers /\ ended \in Seq(Buffers) /\ ended' = Append(ended, flying[i])
        BY <1>0, <1>3, <2>2, Queues DEF E!End
      <4> QED
        BY ONLY <4>1, Appended
    <3>2. DOMAIN ended' = 1..(Len(ended) + 1)
      BY <3>1
    <3>3. ASSUME NEW k \in DOMAIN ended' PROVE k \in 1..Len(ended) \/ k = Len(ended) + 1
      BY <1>0, <3>2
    <3>4. DOMAIN ended = 1..Len(ended)
      BY <1>0, Queues
    <3> QED
      BY <2>2, <3>1, <3>3, <3>4
  <2> QED
    BY <2>1, <2>2
\* Where a transfer of the new pipe was in the old one.
<1> DEFINE was(j) == IF j < i THEN j ELSE j + 1
<1>6. \A j \in DOMAIN flying' : was(j) \in DOMAIN flying /\ was(j) # i /\ flying'[j] = flying[was(j)]
  BY <1>0, <1>1, <1>2, Queues
<1>7. \A j, k \in DOMAIN flying' : (was(j) = was(k) => j = k) /\ (j < k => was(j) < was(k))
  BY <1>0, <1>2
<1>8. \A k \in DOMAIN flying : k # i => \E j \in DOMAIN flying' : was(j) = k
  <2>1. ASSUME NEW k \in DOMAIN flying, k # i PROVE \E j \in DOMAIN flying' : was(j) = k
    <3>1. k \in 1..Len(flying)
      BY <1>0, Queues
    <3>2. CASE k < i
      BY <1>0, <1>2, <3>1, <3>2
    <3>3. CASE ~(k < i)
      <4>1. k - 1 \in DOMAIN flying' /\ was(k - 1) = k
        BY <1>0, <1>2, <2>1, <3>1, <3>3
      <4> QED
        BY <4>1
    <3> QED
      BY <3>2, <3>3
  <2> QED
    BY <2>1
<1>9. i \in DOMAIN flying
  BY <1>0, Queues
<1> HIDE DEF was
<1>10. \A j \in DOMAIN flying' : flying'[j] = flying[i] => flying[i] = Orphan
  BY <1>6, <1>9 DEF E!PlaceInv
<1>11. E!QueueInv' /\ E!InQueue' = E!InQueue
  BY DEF E!QueueInv, E!InQueue
<1>12. E!PlaceInv'
  <2>1. \A j, k \in DOMAIN flying' : flying'[j] = flying'[k] => j = k \/ flying'[j] = Orphan
    BY <1>6, <1>7 DEF E!PlaceInv
  <2>2. \A j, k \in DOMAIN ended' : ended'[j] = ended'[k] => j = k
    BY <1>5, <1>9 DEF E!PlaceInv
  <2>3. \A j \in DOMAIN flying' : flying'[j] \notin done' /\ \A k \in DOMAIN ended' : flying'[j] # ended'[k]
    BY <1>5, <1>6, <1>9, <1>10 DEF E!PlaceInv
  <2>4. \A j \in DOMAIN ended' : ended'[j] \notin done'
    BY <1>5, <1>9 DEF E!PlaceInv
  <2> QED
    BY <2>1, <2>2, <2>3, <2>4 DEF E!PlaceInv
<1>13. E!OutcomeInv'
  <2>1. ASSUME NEW j \in DOMAIN flying', flying'[j] # Orphan PROVE outcome'[flying'[j]] = "pending"
    <3>1. flying'[j] \in Buffers /\ outcome[flying'[j]] = "pending"
      BY <1>0, <1>6, <2>1, Queues DEF E!OutcomeInv
    <3>2. flying'[j] # flying[i]
      BY <1>10, <2>1
    <3> QED
      BY <1>4, <3>1, <3>2
  <2>2. ASSUME NEW j \in DOMAIN ended', ended'[j] \in E!InQueue' PROVE outcome'[ended'[j]] # "pending"
    <3>1. CASE j \in DOMAIN ended /\ ended'[j] = ended[j]
      <4>1. ended[j] \in Buffers /\ outcome[ended[j]] # "pending"
        BY <1>0, <1>11, <2>2, <3>1, Queues DEF E!OutcomeInv
      <4> QED
        BY <1>4, <3>1, <4>1
    <3>2. CASE flying[i] # Orphan /\ ended'[j] = flying[i]
      BY <1>3, <1>4, <3>2
    <3> QED
      BY <1>5, <3>1, <3>2
  <2>3. ASSUME NEW b \in done' PROVE b \in E!InQueue' /\ outcome'[b] # "pending"
    <3>1. b \in Buffers /\ b \in E!InQueue /\ outcome[b] # "pending"
      BY <1>0 DEF E!OutcomeInv, E!EndpointTypeOK
    <3> QED
      BY <1>4, <1>11, <3>1
  <2>4. ASSUME E!Native' \/ phase' = "open", NEW b \in E!InQueue', outcome'[b] = "pending"
        PROVE  \E j \in DOMAIN flying' : flying'[j] = b
    <3>1. b \in Buffers /\ b \in E!InQueue
      BY <1>0, <1>11, Queues
    <3>2. b # flying[i] /\ outcome[b] = "pending"
      BY <1>4, <2>4, <3>1
    <3>3. PICK k \in DOMAIN flying : flying[k] = b
      BY <2>4, <3>1, <3>2 DEF E!OutcomeInv, E!Native
    <3>4. PICK j \in DOMAIN flying' : was(j) = k
      BY <1>8, <3>2, <3>3
    <3> QED
      BY <1>6, <3>3, <3>4
  <2> QED
    BY <2>1, <2>2, <2>3, <2>4 DEF E!OutcomeInv
<1>14. E!OwnerInv'
  <2>1. phase \in {"open", "cancel", "drop"} => \A j \in DOMAIN flying' : flying'[j] \in E!InQueue \union {Orphan}
    BY <1>6 DEF E!OwnerInv
  <2>2. phase \in {"open", "cancel", "drop"} => \A j \in DOMAIN ended' : ended'[j] \in E!InQueue
    BY <1>5, <1>9 DEF E!OwnerInv
  <2>3. E!Native => \A j \in DOMAIN flying' : flying'[j] # Orphan
    BY <1>6 DEF E!OwnerInv
  <2>4. ~E!Native /\ phase # "open" => ended' = <<>> /\ \A j \in DOMAIN flying' : flying'[j] = Orphan
    BY <1>6, <1>9 DEF E!OwnerInv, E!End
  <2> QED
    BY <1>11, <2>1, <2>2, <2>3, <2>4 DEF E!OwnerInv, E!Native
<1>15. E!OrderInv'
  BY <1>6, <1>7 DEF E!OrderInv
<1>16. E!FreeMeansQuiescent'
  BY <1>0 DEF E!FreeMeansQuiescent, E!Native
<1>17. walk' \in 0..Len(pending') => E!EndpointTypeOK'
  BY <1>0, <1>1, <1>4, <1>5 DEF E!EndpointTypeOK
<1> QED
  BY <1>1, <1>2, <1>3, <1>4, <1>11, <1>12, <1>13, <1>14, <1>15, <1>16, <1>17

\* A transfer that ends by itself has no bearing on what was cancelled.
LEMMA PipeEndsKeeps ==
  ASSUME E!EndpointInv, E!PipeEnds
  PROVE  E!EndpointInv'
<1> USE DEF E!EndpointInv
<1>0. E!EndpointTypeOK /\ Len(pending) \in Nat /\ Len(flying) \in Nat
  BY Queues
<1>1. UNCHANGED <<backend, phase, marked, pending, done, asked, after>> /\ walk' = walk /\ ~E!Aborting
  BY DEF E!PipeEnds
<1>2. 1 \in 1..Len(flying)
  BY <1>0, Queues DEF E!PipeEnds
<1>3. PICK r \in {"ok", "error"} : E!End(1, r)
  BY DEF E!PipeEnds
<1>4. /\ E!QueueInv' /\ E!PlaceInv' /\ E!OutcomeInv' /\ E!OwnerInv' /\ E!OrderInv' /\ E!FreeMeansQuiescent'
      /\ (walk' \in 0..Len(pending') => E!EndpointTypeOK')
      /\ DOMAIN flying' = 1..(Len(flying) - 1)
      /\ (\A j \in 1..(Len(flying) - 1) : flying'[j] = IF j < 1 THEN flying[j] ELSE flying[j + 1])
      /\ (\A b \in Buffers : outcome'[b] = IF b = flying[1] THEN r ELSE outcome[b])
      /\ (flying[1] # Orphan => flying[1] \in Buffers /\ outcome[flying[1]] = "pending")
  BY <1>1, <1>2, <1>3, EndKeeps
<1>5. E!EndpointTypeOK' /\ E!InQueue' = E!InQueue /\ E!Native' = E!Native
  BY <1>0, <1>1, <1>4 DEF E!EndpointTypeOK, E!InQueue, E!Native
<1>6. E!PhaseInv'
  BY <1>1, <1>5 DEF E!PhaseInv
<1>7. E!CancelInv'
  <2>1. \A b \in Buffers : outcome'[b] \in {"cancelled", "pending"} => outcome'[b] = outcome[b]
    BY <1>3, <1>4
  <2>2. \A b \in E!InQueue' : outcome'[b] = "cancelled" => b \in asked'
    BY <1>0, <1>1, <1>5, <2>1, Queues DEF E!CancelInv
  <2>3. \A m, n \in DOMAIN pending :
          m < n /\ outcome'[pending[m]] = "cancelled" /\ outcome'[pending[n]] = "pending"
            => pending[m] \in after[pending[n]]
    BY <1>0, <1>1, <2>1, Queues DEF E!CancelInv
  <2> QED
    BY <1>1, <2>2, <2>3 DEF E!CancelInv
<1>8. E!WalkInv'
  <2>1. SUFFICES ASSUME backend = "windows", phase \in {"cancel", "drop"},
                        NEW n \in DOMAIN pending, NEW j \in DOMAIN flying', n > walk, flying'[j] = pending[n]
                 PROVE  FALSE
    BY <1>1 DEF E!WalkInv
  <2>2. j + 1 \in DOMAIN flying /\ flying'[j] = flying[j + 1] /\ j + 1 # 1
    BY <1>0, <1>4, Queues
  <2> QED
    BY <2>1, <2>2 DEF E!WalkInv
<1> QED
  BY <1>4, <1>5, <1>6, <1>7, <1>8

\* CancelIoEx visits the newest first: what is behind it has ended or is at work.
LEMMA CancelOneKeeps ==
  ASSUME E!EndpointInv, E!CancelOne
  PROVE  E!EndpointInv'
<1> USE DEF E!EndpointInv
<1>0. E!EndpointTypeOK /\ Len(pending) \in Nat /\ Len(flying) \in Nat
  BY Queues
<1>1. /\ UNCHANGED <<backend, phase, marked, pending, done, asked, after>> /\ walk' = walk - 1
      /\ backend = "windows" /\ phase \in {"cancel", "drop"} /\ walk > 0
  BY DEF E!CancelOne
<1>2. walk \in DOMAIN pending /\ walk' \in 0..Len(pending') /\ walk \in Nat
  BY <1>0, <1>1, Queues DEF E!EndpointTypeOK
<1>3. E!InQueue' = E!InQueue /\ E!Native' = E!Native /\ E!Native /\ E!InQueue \subseteq asked
  BY <1>1 DEF E!InQueue, E!Native, E!PhaseInv
<1>4. E!PhaseInv'
  BY <1>1, <1>2, <1>3 DEF E!PhaseInv
<1>5. ~E!Aborting
  BY <1>1 DEF E!Aborting
<1>6. CASE \E i \in DOMAIN flying : flying[i] = E!Visited /\ E!End(i, "cancelled")
  <2>1. PICK i \in DOMAIN flying : flying[i] = pending[walk] /\ E!End(i, "cancelled")
    BY <1>6 DEF E!Visited
  <2>2. i \in 1..Len(flying)
    BY <1>0, <2>1, Queues
  <2>3. /\ E!QueueInv' /\ E!PlaceInv' /\ E!OutcomeInv' /\ E!OwnerInv' /\ E!OrderInv' /\ E!FreeMeansQuiescent'
        /\ (walk' \in 0..Len(pending') => E!EndpointTypeOK')
        /\ DOMAIN flying' = 1..(Len(flying) - 1)
        /\ (\A j \in 1..(Len(flying) - 1) : flying'[j] = IF j < i THEN flying[j] ELSE flying[j + 1])
        /\ (\A b \in Buffers : outcome'[b] = IF b = flying[i] THEN "cancelled" ELSE outcome[b])
    BY <1>1, <2>1, <2>2, EndKeeps
  <2>4. E!CancelInv'
    <3>1. \A b \in E!InQueue' : outcome'[b] = "cancelled" => b \in asked'
      BY <1>0, <1>1, <1>3
    <3>2. ASSUME NEW m \in DOMAIN pending, NEW n \in DOMAIN pending, m < n,
                 outcome'[pending[m]] = "cancelled", outcome'[pending[n]] = "pending"
          PROVE  pending[m] \in after[pending[n]]
      <4>1. pending[m] \in Buffers /\ pending[n] \in Buffers /\ pending[n] \in E!InQueue
        BY <1>0, Queues
      <4>2. pending[n] # flying[i] /\ outcome[pending[n]] = "pending"
        BY <2>3, <3>2, <4>1
      <4>3. CASE pending[m] = flying[i]
        <5>1. m = walk
          BY <1>2, <2>1, <4>3 DEF E!QueueInv
        <5>2. PICK k \in DOMAIN flying : flying[k] = pending[n]
          BY <1>3, <4>1, <4>2 DEF E!OutcomeInv
        <5>3. k = 1
          BY <1>1, <3>2, <5>1, <5>2 DEF E!WalkInv
        <5>4. k < i
          BY <2>2, <4>2, <5>2, <5>3
        <5>5. n < walk
          BY <1>2, <2>1, <5>2, <5>4 DEF E!OrderInv
        <5>6. n \in Nat /\ m \in Nat
          BY <1>0, Queues
        <5> QED
          BY <1>2, <3>2, <5>1, <5>5, <5>6
      <4>4. CASE pending[m] # flying[i]
        <5>1. outcome[pending[m]] = "cancelled"
          BY <2>3, <3>2, <4>1, <4>4
        <5> QED
          BY <1>5, <3>2, <4>2, <5>1 DEF E!CancelInv
      <4> QED
        BY <4>3, <4>4
    <3> QED
      BY <1>1, <3>1, <3>2 DEF E!CancelInv
  <2>5. E!WalkInv'
    <3>1. SUFFICES ASSUME NEW n \in DOMAIN pending, NEW j \in DOMAIN flying', n > walk - 1, flying'[j] = pending[n]
                   PROVE  j = 1
      BY <1>1 DEF E!WalkInv
    <3> DEFINE k == IF j < i THEN j ELSE j + 1
    <3>2. k \in DOMAIN flying /\ k # i /\ flying'[j] = flying[k]
      BY <1>0, <2>2, <2>3, Queues
    <3>3. n # walk
      BY <1>3, <2>1, <3>1, <3>2 DEF E!PlaceInv, E!OwnerInv
    <3>4. n > walk
      BY <1>0, <1>2, <3>1, <3>3, Queues
    <3>5. k = 1
      BY <1>1, <3>1, <3>2, <3>4 DEF E!WalkInv
    <3> QED
      BY <1>0, <2>2, <2>3, <3>5
  <2> QED
    BY <1>2, <1>4, <2>3, <2>4, <2>5
<1>7. CASE (\A i \in 2..Len(flying) : flying[i] # E!Visited) /\ UNCHANGED <<flying, ended, outcome>>
  <2>1. \A j \in DOMAIN flying : flying[j] = pending[walk] => j = 1
    BY <1>0, <1>7, Queues DEF E!Visited
  <2>2. E!WalkInv'
    <3>1. SUFFICES ASSUME NEW n \in DOMAIN pending, NEW j \in DOMAIN flying, n > walk - 1, flying[j] = pending[n]
                   PROVE  j = 1
      BY <1>1, <1>7 DEF E!WalkInv
    <3>2. n = walk \/ n > walk
      BY <1>0, <1>2, <3>1, Queues
    <3> QED
      BY <1>1, <2>1, <3>1, <3>2 DEF E!WalkInv
  <2>3. E!EndpointTypeOK' /\ E!QueueInv' /\ E!PlaceInv' /\ E!OwnerInv' /\ E!OrderInv'
    BY <1>0, <1>1, <1>2, <1>3, <1>7 DEF E!EndpointTypeOK, E!QueueInv, E!PlaceInv, E!OwnerInv, E!OrderInv
  <2>4. E!OutcomeInv' /\ E!FreeMeansQuiescent'
    BY <1>1, <1>3, <1>7 DEF E!OutcomeInv, E!FreeMeansQuiescent
  <2>5. E!CancelInv'
    BY <1>1, <1>3, <1>5, <1>7 DEF E!CancelInv
  <2> QED
    BY <1>4, <2>2, <2>3, <2>4, <2>5
<1> QED
  BY <1>6, <1>7 DEF E!CancelOne

\* AbortPipe takes what it ends from the queue of a cancel_all, and takes all of it.
LEMMA AbortPipeKeeps ==
  ASSUME E!EndpointInv, E!AbortPipe
  PROVE  E!EndpointInv'
<1> USE DEF E!EndpointInv
<1>0. E!EndpointTypeOK /\ Len(pending) \in Nat /\ Len(flying) \in Nat
  BY Queues
<1>1. /\ UNCHANGED <<backend, phase, marked, pending, done, asked, after>> /\ walk' = 0
      /\ backend = "macos" /\ phase \in {"cancel", "drop"} /\ E!End(1, "cancelled")
  BY DEF E!AbortPipe
<1>2. 1 \in 1..Len(flying)
  BY <1>0, Queues DEF E!AbortPipe
<1>3. /\ E!QueueInv' /\ E!PlaceInv' /\ E!OutcomeInv' /\ E!OwnerInv' /\ E!OrderInv' /\ E!FreeMeansQuiescent'
      /\ (walk' \in 0..Len(pending') => E!EndpointTypeOK')
      /\ (\A b \in Buffers : outcome'[b] = IF b = flying[1] THEN "cancelled" ELSE outcome[b])
  BY <1>1, <1>2, EndKeeps
<1>4. E!InQueue' = E!InQueue /\ E!Native' = E!Native /\ E!InQueue \subseteq asked
  BY <1>1 DEF E!InQueue, E!Native, E!PhaseInv
<1>5. E!EndpointTypeOK'
  BY <1>0, <1>1, <1>3
<1>6. E!PhaseInv' /\ E!WalkInv'
  BY <1>1, <1>4 DEF E!PhaseInv, E!WalkInv
<1>7. E!CancelInv'
  <2>1. E!Aborting'
    BY <1>1 DEF E!Aborting
  <2>2. \A b \in E!InQueue' : b \in asked'
    BY <1>1, <1>4
  <2> QED
    BY <2>1, <2>2 DEF E!CancelInv
<1> QED
  BY <1>3, <1>5, <1>6, <1>7

\* IoCallback, TransferCallback and PromiseResolves: a transfer is complete, or its box is freed.
LEMMA CompleteKeeps ==
  ASSUME E!EndpointInv, NEW i \in DOMAIN ended, E!Complete(i)
  PROVE  E!EndpointInv'
<1> USE DEF E!EndpointInv
<1>0. E!EndpointTypeOK /\ Len(ended) \in Nat
  BY Queues
<1>1. UNCHANGED <<backend, phase, pending, flying, outcome, walk, asked, after>>
  BY DEF E!Complete
<1>2. i \in 1..Len(ended) /\ ended[i] \in Buffers
  BY <1>0, Queues
<1>3. /\ ended' \in Seq(Buffers) /\ Len(ended') = Len(ended) - 1
      /\ \A j \in 1..(Len(ended) - 1) : ended'[j] = IF j < i THEN ended[j] ELSE ended[j + 1]
  <2>1. ended' = E!RemoveAt(ended, i) /\ ended \in Seq(Buffers)
    BY <1>0, Queues DEF E!Complete
  <2> QED
    BY <1>2, <2>1, Removed
<1>4. DOMAIN ended' = 1..(Len(ended) - 1) /\ DOMAIN ended = 1..Len(ended)
  BY <1>0, <1>3, Queues
<1> DEFINE was(j) == IF j < i THEN j ELSE j + 1
<1>5. \A j \in DOMAIN ended' : was(j) \in DOMAIN ended /\ was(j) # i /\ ended'[j] = ended[was(j)]
  BY <1>0, <1>2, <1>3, <1>4
<1>6. \A j, k \in DOMAIN ended' : was(j) = was(k) => j = k
  BY <1>0, <1>2, <1>4
<1> HIDE DEF was
<1>7. done' = IF ended[i] \in E!InQueue THEN done \union {ended[i]} ELSE done
  BY DEF E!Complete
<1>8. E!InQueue' = E!InQueue /\ E!Native' = E!Native
  BY <1>1 DEF E!InQueue, E!Native
<1>9. E!EndpointTypeOK'
  <2>1. marked' \in BOOLEAN
    BY DEF E!Complete
  <2> QED
    BY <1>0, <1>1, <1>2, <1>3, <1>7, <2>1 DEF E!EndpointTypeOK
<1>10. E!PlaceInv'
  <2>1. \A j, k \in DOMAIN ended' : ended'[j] = ended'[k] => j = k
    BY <1>5, <1>6 DEF E!PlaceInv
  <2>2. \A j \in DOMAIN flying : flying[j] \notin done' /\ \A k \in DOMAIN ended' : flying[j] # ended'[k]
    BY <1>5, <1>7 DEF E!PlaceInv
  <2>3. \A j \in DOMAIN ended' : ended'[j] \notin done'
    BY <1>5, <1>7 DEF E!PlaceInv
  <2> QED
    BY <1>1, <2>1, <2>2, <2>3 DEF E!PlaceInv
<1>11. E!OutcomeInv'
  <2>1. \A j \in DOMAIN ended' : ended'[j] \in E!InQueue => outcome[ended'[j]] # "pending"
    BY <1>5 DEF E!OutcomeInv
  <2>2. \A b \in done' : b \in E!InQueue /\ outcome[b] # "pending"
    BY <1>7 DEF E!OutcomeInv
  <2> QED
    BY <1>1, <1>8, <2>1, <2>2 DEF E!OutcomeInv
<1>12. E!OwnerInv'
  <2>1. phase \in {"open", "cancel", "drop"} => \A j \in DOMAIN ended' : ended'[j] \in E!InQueue
    BY <1>5 DEF E!OwnerInv
  <2>2. ~E!Native /\ phase # "open" => ended' = <<>>
    BY <1>2, <1>4 DEF E!OwnerInv
  <2> QED
    BY <1>1, <1>8, <2>1, <2>2 DEF E!OwnerInv
<1>13. E!FreeMeansQuiescent'
  <2>1. E!Native => marked
    BY <1>2, <1>4 DEF E!FreeMeansQuiescent
  <2>2. ~marked' /\ marked => E!Unreferenced(phase, ended', flying)
    BY DEF E!Complete
  <2> QED
    BY <1>1, <1>8, <2>1, <2>2 DEF E!FreeMeansQuiescent, E!Unreferenced
<1>14. E!QueueInv' /\ E!PhaseInv' /\ E!OrderInv'
  BY <1>1, <1>8 DEF E!QueueInv, E!PhaseInv, E!OrderInv
<1>15. E!CancelInv' /\ E!WalkInv'
  BY <1>1, <1>8 DEF E!CancelInv, E!WalkInv, E!Aborting
<1> QED
  BY <1>9, <1>10, <1>11, <1>12, <1>13, <1>14, <1>15

\* The queue when its oldest buffer has left it.
LEMMA PoppedQueue ==
  ASSUME E!EndpointTypeOK, E!QueueInv, pending # <<>>,
         pending' \in Seq(Buffers), Len(pending') = Len(pending) - 1,
         \A j \in 1..(Len(pending) - 1) : pending'[j] = pending[j + 1]
  PROVE  /\ Len(pending) \in Nat /\ 1 \in 1..Len(pending)
         /\ DOMAIN pending' = 1..(Len(pending) - 1) /\ DOMAIN pending = 1..Len(pending)
         /\ \A j \in DOMAIN pending' :
              j + 1 \in DOMAIN pending /\ pending'[j] = pending[j + 1] /\ pending'[j] # pending[1]
         /\ \A b : b \in E!InQueue' <=> b \in E!InQueue /\ b # pending[1]
<1>0. Len(pending) \in Nat /\ 1 \in 1..Len(pending)
  BY Queues
<1>1. DOMAIN pending' = 1..(Len(pending) - 1) /\ DOMAIN pending = 1..Len(pending)
  BY <1>0, Queues
<1>2. \A j \in DOMAIN pending' : j + 1 \in DOMAIN pending /\ j + 1 # 1 /\ pending'[j] = pending[j + 1]
  BY <1>0, <1>1
<1>3. \A j \in DOMAIN pending' : pending'[j] # pending[1]
  BY <1>0, <1>1, <1>2 DEF E!QueueInv
<1>4. \A b : b \in E!InQueue' <=> b \in E!InQueue /\ b # pending[1]
  <2> TAKE b
  <2>1. b \in E!InQueue' <=> \E j \in DOMAIN pending' : pending'[j] = b
    BY DEF E!InQueue, E!ToSet
  <2>2. b \in E!InQueue <=> \E j \in DOMAIN pending : pending[j] = b
    BY DEF E!InQueue, E!ToSet
  <2>3. ASSUME NEW k \in DOMAIN pending, pending[k] = b, b # pending[1] PROVE \E j \in DOMAIN pending' : pending'[j] = b
    <3>1. k - 1 \in DOMAIN pending' /\ (k - 1) + 1 = k
      BY <1>0, <1>1, <2>3
    <3> QED
      BY <1>2, <2>3, <3>1
  <2> QED
    BY <1>2, <1>3, <2>1, <2>2, <2>3
<1> QED
  BY <1>0, <1>1, <1>2, <1>3, <1>4

\* The oldest buffer leaves the queue.
LEMMA PopKeeps ==
  ASSUME E!EndpointInv, pending # <<>>,
         phase = "dropping" \/ (phase = "open" /\ pending[1] \in done),
         UNCHANGED <<backend, phase, marked, flying, ended, walk>>,
         pending' \in Seq(Buffers), Len(pending') = Len(pending) - 1,
         \A j \in 1..(Len(pending) - 1) : pending'[j] = pending[j + 1],
         done' = done \ {pending[1]}, asked' = asked \ {pending[1]},
         outcome' \in [Buffers -> {"pending", "ok", "error", "cancelled", "invalid"}],
         \A b \in Buffers : outcome'[b] = IF b = pending[1] THEN "pending" ELSE outcome[b],
         after' \in [Buffers -> SUBSET Buffers],
         \A b \in Buffers : after'[b] = after[b] \ {pending[1]}
  PROVE  E!EndpointInv'
<1> USE DEF E!EndpointInv
<1>0. E!EndpointTypeOK /\ Len(pending) \in Nat /\ 1 \in 1..Len(pending)
  <2>1. E!EndpointTypeOK
    OBVIOUS
  <2> QED
    BY <2>1, Queues
<1>1. DOMAIN pending' = 1..(Len(pending) - 1) /\ DOMAIN pending = 1..Len(pending)
  BY <1>0, PoppedQueue
<1>2. \A j \in DOMAIN pending' : j + 1 \in DOMAIN pending /\ pending'[j] = pending[j + 1]
  BY <1>0, PoppedQueue
<1>3. \A j \in DOMAIN pending' : pending'[j] # pending[1]
  BY <1>0, PoppedQueue
<1>4. \A b : b \in E!InQueue' <=> b \in E!InQueue /\ b # pending[1]
  BY <1>0, PoppedQueue
<1>5. walk = 0 /\ ~E!Aborting /\ E!Native' = E!Native
  BY DEF E!PhaseInv, E!Aborting, E!Native
<1>6. E!EndpointTypeOK'
  <2>1. walk' \in 0..Len(pending')
    BY <1>0, <1>5
  <2> QED
    BY <1>0, <2>1 DEF E!EndpointTypeOK
<1>7. E!QueueInv'
  <2>1. \A j \in DOMAIN pending' : j \in Nat
    BY <1>1
  <2> QED
    BY <1>2, <2>1 DEF E!QueueInv
<1>8. E!PhaseInv' /\ E!WalkInv' /\ E!FreeMeansQuiescent'
  BY <1>5 DEF E!PhaseInv, E!WalkInv, E!FreeMeansQuiescent
<1>9. E!PlaceInv'
  BY DEF E!PlaceInv
<1>10. E!OutcomeInv'
  <2>1. \A j \in DOMAIN flying : flying[j] # Orphan => outcome'[flying[j]] = "pending"
    BY <1>0, Queues DEF E!OutcomeInv
  <2>2. \A j \in DOMAIN ended : ended[j] \in E!InQueue' => outcome'[ended[j]] # "pending"
    BY <1>0, <1>4, Queues DEF E!OutcomeInv
  <2>3. \A b \in done' : b \in E!InQueue' /\ outcome'[b] # "pending"
    BY <1>0, <1>4 DEF E!OutcomeInv, E!EndpointTypeOK
  <2>4. ASSUME E!Native \/ phase = "open", NEW b \in E!InQueue', outcome'[b] = "pending"
        PROVE  \E j \in DOMAIN flying : flying[j] = b
    <3>1. b \in E!InQueue /\ b \in Buffers /\ b # pending[1]
      BY <1>0, <1>4, Queues
    <3>2. outcome[b] = "pending"
      BY <2>4, <3>1
    <3> QED
      BY <2>4, <3>1, <3>2 DEF E!OutcomeInv
  <2> QED
    BY <1>5, <2>1, <2>2, <2>3, <2>4 DEF E!OutcomeInv
<1>11. E!OwnerInv'
  <2>1. phase = "open" => \A j \in DOMAIN flying : flying[j] \in E!InQueue' \union {Orphan}
    BY <1>4 DEF E!OwnerInv, E!PlaceInv
  <2>2. phase = "open" => \A j \in DOMAIN ended : ended[j] \in E!InQueue'
    BY <1>4 DEF E!OwnerInv, E!PlaceInv
  <2> QED
    BY <1>5, <2>1, <2>2 DEF E!OwnerInv
<1>12. E!OrderInv'
  <2>1. \A j \in DOMAIN pending' : j \in Nat
    BY <1>1
  <2>2. \A m, n \in DOMAIN pending' : m + 1 < n + 1 => m < n
    BY <2>1
  <2> QED
    BY <1>2, <2>2 DEF E!OrderInv
<1>13. E!CancelInv'
  <2>1. ASSUME NEW b \in E!InQueue', outcome'[b] = "cancelled" PROVE b \in asked'
    <3>1. b \in E!InQueue /\ b \in Buffers /\ b # pending[1]
      BY <1>0, <1>4, Queues
    <3>2. b \in asked
      BY <2>1, <3>1 DEF E!CancelInv
    <3> QED
      BY <3>1, <3>2
  <2>2. ASSUME NEW m \in DOMAIN pending', NEW n \in DOMAIN pending', m < n,
               outcome'[pending'[m]] = "cancelled", outcome'[pending'[n]] = "pending"
        PROVE  pending'[m] \in after'[pending'[n]]
    <3>1. m + 1 < n + 1
      BY <1>1, <2>2
    <3>2. pending'[m] \in Buffers /\ pending'[n] \in Buffers
      BY <1>0, <1>2, Queues
    <3>3. outcome[pending[m + 1]] = "cancelled" /\ outcome[pending[n + 1]] = "pending"
      BY <1>2, <1>3, <2>2, <3>2
    <3>4. pending[m + 1] \in after[pending[n + 1]]
      BY <1>2, <1>5, <3>1, <3>3 DEF E!CancelInv
    <3> QED
      BY <1>2, <1>3, <3>2, <3>4
  <2> QED
    BY <2>1, <2>2 DEF E!CancelInv
<1> QED
  BY <1>6, <1>7, <1>8, <1>9, <1>10, <1>11, <1>12, <1>13

\* NextCompleteWindows, NextCompleteMac and NextCompleteWebusb keep it.
LEMMA TakeKeeps ==
  ASSUME E!EndpointInv, phase = "open", NEW i \in E!TakeFront, E!TakeCompletion(i)
  PROVE  E!EndpointInv'
<1>0. E!EndpointTypeOK
  BY DEF E!EndpointInv
<1>1. i = 1 /\ 1 \in 1..Len(pending) /\ pending[1] \in done /\ pending[1] \in Buffers /\ pending # <<>>
  BY <1>0, Queues DEF E!TakeFront
<1>2. /\ pending' = E!RemoveAt(pending, 1) /\ done' = done \ {pending[1]} /\ asked' = asked \ {pending[1]}
      /\ UNCHANGED <<backend, phase, marked, flying, ended, walk>>
  BY <1>1 DEF E!TakeCompletion
<1>3. /\ pending' \in Seq(Buffers) /\ Len(pending') = Len(pending) - 1
      /\ \A j \in 1..(Len(pending) - 1) : pending'[j] = pending[j + 1]
  <2>1. pending \in Seq(Buffers) /\ Len(pending) \in Nat
    BY <1>0, Queues
  <2>2. /\ pending' \in Seq(Buffers) /\ Len(pending') = Len(pending) - 1
        /\ \A j \in 1..(Len(pending) - 1) : pending'[j] = IF j < 1 THEN pending[j] ELSE pending[j + 1]
    BY <1>1, <1>2, <2>1, Removed
  <2> QED
    BY <2>1, <2>2
<1>4. /\ outcome' \in [Buffers -> {"pending", "ok", "error", "cancelled", "invalid"}]
      /\ \A b \in Buffers : outcome'[b] = IF b = pending[1] THEN "pending" ELSE outcome[b]
  BY <1>0, <1>1 DEF E!TakeCompletion, E!EndpointTypeOK
<1>5. /\ after' \in [Buffers -> SUBSET Buffers]
      /\ \A b \in Buffers : after'[b] = after[b] \ {pending[1]}
  BY <1>0, <1>1 DEF E!TakeCompletion, E!EndpointTypeOK
<1> QED
  BY <1>1, <1>2, <1>3, <1>4, <1>5, PopKeeps

\* A handle that goes may leave its transfer with the pipe, or with the callback.
LEMMA DropHandleKeeps ==
  ASSUME E!EndpointInv, E!DropHandle
  PROVE  E!EndpointInv'
<1>0. E!EndpointTypeOK
  BY DEF E!EndpointInv
<1>1. /\ phase = "dropping" /\ pending # <<>> /\ pending \in Seq(Buffers)
      /\ UNCHANGED <<backend, phase, marked, flying, ended, walk>>
  BY <1>0, Queues DEF E!DropHandle
<1>2. /\ Tail(pending) \in Seq(Buffers) /\ Len(Tail(pending)) = Len(pending) - 1
      /\ Head(pending) = pending[1] /\ 1 \in 1..Len(pending)
      /\ \A j \in 1..(Len(pending) - 1) : Tail(pending)[j] = pending[j + 1]
  BY <1>1, Popped
<1>3. pending' = Tail(pending) /\ done' = done \ {pending[1]} /\ asked' = asked \ {pending[1]} /\ pending[1] \in Buffers
  BY <1>0, <1>2, Queues DEF E!DropHandle
<1>4. /\ outcome' \in [Buffers -> {"pending", "ok", "error", "cancelled", "invalid"}]
      /\ \A b \in Buffers : outcome'[b] = IF b = pending[1] THEN "pending" ELSE outcome[b]
  BY <1>0, <1>2, <1>3 DEF E!DropHandle, E!EndpointTypeOK
<1>5. /\ after' \in [Buffers -> SUBSET Buffers]
      /\ \A b \in Buffers : after'[b] = after[b] \ {pending[1]}
  BY <1>0, <1>2 DEF E!DropHandle, E!EndpointTypeOK
<1>6. /\ pending' \in Seq(Buffers) /\ Len(pending') = Len(pending) - 1
      /\ \A j \in 1..(Len(pending) - 1) : pending'[j] = pending[j + 1]
  BY <1>2, <1>3
<1>7. (phase = "dropping") \/ (phase = "open" /\ pending[1] \in done)
  BY <1>1
<1>8. pending # <<>> /\ UNCHANGED <<backend, phase, marked, flying, ended, walk>>
  BY <1>1
<1> QED
  BY <1>3, <1>4, <1>5, <1>6, <1>7, <1>8, PopKeeps

\* CancelAll and DropBusy: from here on the queue stays as it is.
LEMMA StartCancelKeeps ==
  ASSUME E!EndpointInv, NEW p \in {"cancel", "drop"}, E!StartCancel(p)
  PROVE  E!EndpointInv'
<1> USE DEF E!EndpointInv
<1>0. E!EndpointTypeOK /\ Len(pending) \in Nat /\ E!InQueue \subseteq Buffers
  <2>1. E!EndpointTypeOK
    OBVIOUS
  <2> QED
    BY <2>1, Queues
<1>1. /\ UNCHANGED <<backend, marked, pending, flying, ended, done, outcome, after>>
      /\ E!Native /\ phase = "open" /\ phase' = p /\ walk' = Len(pending) /\ asked' = E!InQueue
  BY DEF E!StartCancel
<1>2. E!InQueue' = E!InQueue /\ E!Native' = E!Native
  BY <1>1 DEF E!InQueue, E!Native
<1>3. E!EndpointTypeOK'
  BY <1>0, <1>1 DEF E!EndpointTypeOK
<1>4. E!QueueInv' /\ E!PlaceInv' /\ E!OrderInv'
  BY <1>1 DEF E!QueueInv, E!PlaceInv, E!OrderInv
<1>5. E!PhaseInv'
  BY <1>1, <1>2 DEF E!PhaseInv
<1>6. E!OutcomeInv' /\ E!OwnerInv'
  BY <1>1, <1>2 DEF E!OutcomeInv, E!OwnerInv
<1>7. E!CancelInv'
  <2>1. ~E!Aborting
    BY <1>1 DEF E!Aborting
  <2> QED
    BY <1>1, <1>2, <2>1 DEF E!CancelInv
<1>8. E!WalkInv'
  <2>1. \A n \in DOMAIN pending : ~(n > Len(pending))
    BY <1>0, Queues
  <2> QED
    BY <1>1, <2>1 DEF E!WalkInv
<1>9. E!FreeMeansQuiescent'
  BY <1>1, <1>2 DEF E!FreeMeansQuiescent
<1> QED
  BY <1>3, <1>4, <1>5, <1>6, <1>7, <1>8, <1>9

\* cancel_all is over: on macOS nothing is left with the pipe.
LEMMA EndCancelKeeps ==
  ASSUME E!EndpointInv, E!EndCancel
  PROVE  E!EndpointInv'
<1> USE DEF E!EndpointInv
<1>0. E!EndpointTypeOK /\ Len(pending) \in Nat
  BY Queues
<1>1. /\ UNCHANGED <<backend, marked, pending, flying, ended, done, outcome, asked, after>>
      /\ phase \in {"cancel", "drop"} /\ phase' \in {"open", "dropping"} /\ walk' = 0 /\ E!Native
      /\ backend # "windows" => flying = <<>>
  BY DEF E!EndCancel, E!PhaseInv
<1>2. E!InQueue' = E!InQueue /\ E!Native' = E!Native
  BY <1>1 DEF E!InQueue, E!Native
<1>3. E!EndpointTypeOK'
  BY <1>0, <1>1 DEF E!EndpointTypeOK
<1>4. E!QueueInv' /\ E!PlaceInv' /\ E!OrderInv'
  BY <1>1 DEF E!QueueInv, E!PlaceInv, E!OrderInv
<1>5. E!PhaseInv' /\ E!WalkInv'
  BY <1>1, <1>2 DEF E!PhaseInv, E!WalkInv
<1>6. E!OutcomeInv' /\ E!OwnerInv'
  BY <1>1, <1>2 DEF E!OutcomeInv, E!OwnerInv
<1>7. E!CancelInv'
  <2>1. CASE ~E!Aborting
    BY <1>1, <1>2, <2>1 DEF E!CancelInv
  <2>2. CASE E!Aborting
    <3>1. flying = <<>>
      BY <1>1, <2>2 DEF E!Aborting
    <3>2. \A n \in DOMAIN pending : outcome[pending[n]] # "pending"
      BY <1>0, <1>1, <3>1, Queues DEF E!OutcomeInv
    <3> QED
      BY <1>1, <1>2, <3>2 DEF E!CancelInv
  <2> QED
    BY <2>1, <2>2
<1>8. E!FreeMeansQuiescent'
  BY <1>1, <1>2 DEF E!FreeMeansQuiescent
<1> QED
  BY <1>3, <1>4, <1>5, <1>6, <1>7, <1>8

\* DropIdle, and DropEndpoint, which leaves the address in use while the system has a transfer.
LEMMA DropKeeps ==
  ASSUME E!EndpointInv, E!DropIdle \/ (E!Native /\ E!DropEndpoint) \/ E!GoneWebusb
  PROVE  E!EndpointInv'
<1> USE DEF E!EndpointInv
<1>0. E!EndpointTypeOK
  OBVIOUS
<1>1. /\ UNCHANGED <<backend, pending, flying, ended, done, outcome, walk, asked, after>>
      /\ phase' \in {"dropping", "gone"} /\ pending = <<>> /\ marked' \in BOOLEAN
      /\ ~E!Native => phase = "dropping"
      /\ phase \in {"open", "dropping"}
  BY <1>0 DEF E!DropIdle, E!DropEndpoint, E!GoneWebusb, E!EndpointTypeOK, E!StillMarked, E!Native
<1>2. E!InQueue' = E!InQueue /\ E!Native' = E!Native /\ E!InQueue = {}
  BY <1>1 DEF E!InQueue, E!Native, E!ToSet
<1>3. E!EndpointTypeOK'
  BY <1>0, <1>1 DEF E!EndpointTypeOK
<1>4. E!QueueInv' /\ E!PlaceInv' /\ E!OrderInv'
  BY <1>1 DEF E!QueueInv, E!PlaceInv, E!OrderInv
<1>5. E!PhaseInv' /\ E!WalkInv'
  BY <1>1, <1>2 DEF E!PhaseInv, E!WalkInv
<1>6. E!OutcomeInv' /\ E!OwnerInv'
  BY <1>1, <1>2 DEF E!OutcomeInv, E!OwnerInv
<1>7. E!CancelInv'
  BY <1>1, <1>2 DEF E!CancelInv
<1>8. E!FreeMeansQuiescent'
  BY <1>1, <1>2 DEF E!FreeMeansQuiescent, E!DropIdle, E!DropEndpoint, E!GoneWebusb, E!StillMarked, E!Unreferenced, E!Native
<1> QED
  BY <1>3, <1>4, <1>5, <1>6, <1>7, <1>8

\* The transfers of a WebUSB endpoint that is dropped are nobody's.
LEMMA DropWebusbKeeps ==
  ASSUME E!EndpointInv, E!DropWebusb
  PROVE  E!EndpointInv'
<1> USE DEF E!EndpointInv
<1>0. E!EndpointTypeOK /\ Len(flying) \in Nat /\ DOMAIN flying = 1..Len(flying)
  BY Queues
<1>1. /\ UNCHANGED <<backend, pending, done, outcome, walk, asked, after>> /\ ~E!Native
      /\ phase = "open" /\ phase' = "dropping" /\ marked' = FALSE
      /\ flying' = [j \in DOMAIN flying |-> Orphan] /\ ended' = <<>>
  BY DEF E!DropWebusb, E!Native
<1>2. E!InQueue' = E!InQueue /\ E!Native' = E!Native
  BY <1>1 DEF E!InQueue, E!Native
<1>3. flying' \in Seq(Buffers \union {Orphan}) /\ DOMAIN flying' = DOMAIN flying
      /\ \A j \in DOMAIN flying' : flying'[j] = Orphan
  BY <1>0, <1>1
<1>4. ended' \in Seq(Buffers) /\ DOMAIN ended' = {}
  BY <1>1
<1>5. E!EndpointTypeOK'
  BY <1>0, <1>1, <1>3, <1>4 DEF E!EndpointTypeOK
<1>6. \A j \in DOMAIN pending : pending[j] \in Buffers
  BY <1>0, Queues
<1>7. E!QueueInv' /\ E!PhaseInv'
  BY <1>1, <1>2 DEF E!QueueInv, E!PhaseInv
<1>8. E!PlaceInv' /\ E!OrderInv'
  <2>1. Orphan \notin done
    BY <1>0, OrphanAssumption DEF E!EndpointTypeOK
  <2> QED
    BY <1>1, <1>3, <1>4, <1>6, <2>1, OrphanAssumption DEF E!PlaceInv, E!OrderInv
<1>9. E!OutcomeInv'
  BY <1>1, <1>2, <1>3, <1>4 DEF E!OutcomeInv
<1>10. E!OwnerInv'
  BY <1>1, <1>2, <1>3 DEF E!OwnerInv
<1>11. E!CancelInv' /\ E!WalkInv' /\ E!FreeMeansQuiescent'
  BY <1>1, <1>2 DEF E!CancelInv, E!WalkInv, E!FreeMeansQuiescent, E!Aborting
<1> QED
  BY <1>5, <1>7, <1>8, <1>9, <1>10, <1>11

\* The address is claimed again, for an endpoint with nothing in flight but orphans.
LEMMA ReopenKeeps ==
  ASSUME E!EndpointInv, E!Reopen
  PROVE  E!EndpointInv'
<1> USE DEF E!EndpointInv
<1>0. E!EndpointTypeOK
  OBVIOUS
<1>1. /\ UNCHANGED <<backend, pending, flying, ended, done, walk, asked, after>>
      /\ phase = "gone" /\ ~marked /\ phase' = "open" /\ marked' = TRUE
      /\ outcome' = [b \in Buffers |-> "pending"]
  BY DEF E!Reopen
<1>2. pending = <<>> /\ E!InQueue = {} /\ done = {} /\ ended = <<>> /\ \A j \in DOMAIN flying : flying[j] = Orphan
  <2>1. pending = <<>>
    BY <1>1 DEF E!PhaseInv
  <2>2. E!InQueue = {}
    BY <2>1 DEF E!InQueue, E!ToSet
  <2>3. done = {}
    BY <2>2 DEF E!OutcomeInv
  <2>4. ended = <<>> /\ \A j \in DOMAIN flying : flying[j] = Orphan
    <3>1. CASE E!Native
      BY <1>1, <3>1 DEF E!FreeMeansQuiescent
    <3>2. CASE ~E!Native
      BY <1>1, <3>2 DEF E!OwnerInv
    <3> QED
      BY <3>1, <3>2
  <2> QED
    BY <2>1, <2>2, <2>3, <2>4
<1>3. E!InQueue' = {} /\ E!Native' = E!Native
  BY <1>1, <1>2 DEF E!InQueue, E!Native
<1>4. E!EndpointTypeOK'
  BY <1>0, <1>1 DEF E!EndpointTypeOK
<1>5. E!QueueInv' /\ E!PlaceInv' /\ E!OrderInv'
  BY <1>1 DEF E!QueueInv, E!PlaceInv, E!OrderInv
<1>6. E!PhaseInv' /\ E!WalkInv'
  BY <1>1 DEF E!PhaseInv, E!WalkInv
<1>7. E!OutcomeInv' /\ E!OwnerInv'
  BY <1>1, <1>2, <1>3 DEF E!OutcomeInv, E!OwnerInv
<1>8. E!CancelInv' /\ E!FreeMeansQuiescent'
  BY <1>1, <1>2, <1>3 DEF E!CancelInv, E!FreeMeansQuiescent
<1> QED
  BY <1>4, <1>5, <1>6, <1>7, <1>8

\* An endpoint that nobody has used yet.
LEMMA EndpointStart == E!Init => E!EndpointInv
<1> SUFFICES ASSUME E!Init PROVE E!EndpointInv
  OBVIOUS
<1>1. /\ backend \in EndpointPlatforms /\ phase = "open" /\ marked = TRUE
      /\ pending = <<>> /\ flying = <<>> /\ ended = <<>> /\ done = {} /\ walk = 0 /\ asked = {}
      /\ outcome = [b \in Buffers |-> "pending"] /\ after = [b \in Buffers |-> {}]
  BY DEF E!Init
<1>2. DOMAIN pending = {} /\ DOMAIN flying = {} /\ DOMAIN ended = {} /\ Len(pending) = 0 /\ E!InQueue = {}
  BY <1>1 DEF E!InQueue, E!ToSet
<1>3. E!EndpointTypeOK
  BY <1>1, <1>2 DEF E!EndpointTypeOK
<1>4. E!QueueInv /\ E!PhaseInv /\ E!PlaceInv /\ E!OutcomeInv /\ E!OwnerInv
  BY <1>1, <1>2 DEF E!QueueInv, E!PhaseInv, E!PlaceInv, E!OutcomeInv, E!OwnerInv
<1>5. E!OrderInv /\ E!CancelInv /\ E!WalkInv /\ E!FreeMeansQuiescent
  BY <1>1, <1>2 DEF E!OrderInv, E!CancelInv, E!WalkInv, E!FreeMeansQuiescent
<1> QED
  BY <1>3, <1>4, <1>5 DEF E!EndpointInv

\* Every operation of an endpoint, and everything the system does to it, keeps the invariant.
LEMMA EndpointStep == E!EndpointInv /\ [E!Next]_endpoint => E!EndpointInv'
<1> SUFFICES ASSUME E!EndpointInv, [E!Next]_endpoint PROVE E!EndpointInv'
  OBVIOUS
<1>1. ASSUME NEW b \in Buffers,
             E!SubmitWindows(b) \/ E!PostSubmitFails(b) \/ E!SubmitMac(b) \/ E!SubmitWebusb(b) \/ E!SubmitErr(b)
      PROVE  E!EndpointInv'
  <2>1. E!Fly(b) \/ E!Inline(b, "error") \/ E!Inline(b, "invalid")
    BY <1>1 DEF E!SubmitWindows, E!PostSubmitFails, E!SubmitMac, E!SubmitWebusb, E!SubmitErr
  <2> QED
    BY <2>1, FlyKeeps, InlineKeeps
<1>2. CASE E!PipeEnds
  BY <1>2, PipeEndsKeeps
<1>3. CASE E!IoCallback \/ E!TransferCallback \/ E!PromiseResolves
  <2>1. E!EndpointTypeOK
    BY DEF E!EndpointInv
  <2>2. PICK i \in DOMAIN ended : E!Complete(i)
    BY <1>3, <2>1, Queues DEF E!IoCallback, E!TransferCallback, E!PromiseResolves
  <2> QED
    BY <2>2, CompleteKeeps
<1>4. CASE E!NextCompleteWindows \/ E!NextCompleteMac \/ E!NextCompleteWebusb
  BY <1>4, TakeKeeps DEF E!NextCompleteWindows, E!NextCompleteMac, E!NextCompleteWebusb
<1>5. CASE E!CancelAll \/ E!DropBusy
  BY <1>5, StartCancelKeeps DEF E!CancelAll, E!DropBusy
<1>6. CASE E!CancelOne \/ E!AbortPipe \/ E!EndCancel
  BY <1>6, CancelOneKeeps, AbortPipeKeeps, EndCancelKeeps
<1>7. CASE E!DropIdle \/ (E!Native /\ E!DropEndpoint) \/ E!GoneWebusb
  BY <1>7, DropKeeps
<1>8. CASE E!DropHandle \/ E!DropWebusb \/ E!Reopen
  BY <1>8, DropHandleKeeps, DropWebusbKeeps, ReopenKeeps
<1>9. CASE UNCHANGED endpoint
  <2>1. UNCHANGED <<backend, phase, marked, pending, flying, ended, done, outcome, walk, asked, after>>
    BY <1>9 DEF endpoint
  <2>2. E!InQueue' = E!InQueue /\ E!Native' = E!Native /\ (E!Aborting' <=> E!Aborting)
    BY <2>1 DEF E!InQueue, E!Native, E!Aborting
  <2>3. E!EndpointTypeOK' /\ E!QueueInv' /\ E!PhaseInv' /\ E!PlaceInv' /\ E!OutcomeInv' /\ E!OwnerInv'
    BY <2>1, <2>2 DEF E!EndpointInv, E!EndpointTypeOK, E!QueueInv, E!PhaseInv, E!PlaceInv, E!OutcomeInv, E!OwnerInv
  <2>4. E!OrderInv' /\ E!CancelInv' /\ E!WalkInv' /\ E!FreeMeansQuiescent'
    BY <2>1, <2>2 DEF E!EndpointInv, E!OrderInv, E!CancelInv, E!WalkInv, E!FreeMeansQuiescent
  <2> QED
    BY <2>3, <2>4 DEF E!EndpointInv
<1>10. CASE E!Next
  <2>1. CASE \E b \in Buffers :
               E!SubmitWindows(b) \/ E!PostSubmitFails(b) \/ E!SubmitMac(b) \/ E!SubmitWebusb(b) \/ E!SubmitErr(b)
    BY <1>1, <2>1
  <2> QED
    BY <1>2, <1>3, <1>4, <1>5, <1>6, <1>7, <1>8, <1>10, <2>1 DEF E!Next
<1> QED
  BY <1>9, <1>10

-----------------------------------------------------------------------------
(* The endpoints of Windows, macOS and WebUSB implement EndpointQueue      *)

\* The result and the openness that the refinement shows to EndpointQueue.
Shown == [b \in Buffers |-> IF b \in E!InQueue THEN outcome[b] ELSE "pending"]
Open == phase \in {"open", "cancel", "drop"}

\* EndpointQueue does not change while what it is shown does not.
LEMMA Stutter ==
  ASSUME UNCHANGED <<Open, pending, Shown, asked, after>>
  PROVE  UNCHANGED E!Abstract!vars
BY DEF E!Abstract!vars, Shown, Open

\* A buffer is queued for EndpointQueue when it is in the queue.
LEMMA QueuedIs ==
  ASSUME E!EndpointTypeOK
  PROVE  \A b : E!Abstract!Queued(b) <=> b \in E!InQueue
BY Queues DEF E!Abstract!Queued

\* A submission, in flight or complete from the start, is Submit.
LEMMA SubmitRefines ==
  ASSUME E!EndpointInv, NEW b \in Buffers,
         E!Fly(b) \/ E!Inline(b, "error") \/ E!Inline(b, "invalid")
  PROVE  E!Abstract!Submit(b)
<1>0. E!EndpointTypeOK /\ E!Enqueue(b)
  BY DEF E!EndpointInv, E!Fly, E!Inline
<1>1. phase = "open" /\ b \notin E!InQueue /\ \A c : c \in E!InQueue' <=> c \in E!InQueue \/ c = b
  BY <1>0, Enqueued
<1>2. PICK r \in {"pending", "error", "invalid"} : outcome' = [outcome EXCEPT ![b] = r]
  BY DEF E!Fly, E!Inline
<1>3. outcome \in [Buffers -> {"pending", "ok", "error", "cancelled", "invalid"}]
  BY <1>0 DEF E!EndpointTypeOK
<1>4. Shown' = [Shown EXCEPT ![b] = r]
  BY <1>1, <1>2, <1>3 DEF Shown
<1>5. /\ Open /\ Open' /\ pending' = Append(pending, b) /\ asked' = asked
      /\ after' = [after EXCEPT ![b] = asked]
  BY <1>0, <1>1 DEF E!Enqueue, Open
<1>6. ~E!Abstract!Queued(b)
  BY <1>0, <1>1, QueuedIs
<1> QED
  BY <1>4, <1>5, <1>6 DEF E!Abstract!Submit, Shown, Open

\* The transfer at work on the pipe ends: nothing before it in the queue is unfinished, and
\* it does not succeed behind a cancelled one unless it came after the request.
LEMMA PipeEndsRefines ==
  ASSUME E!EndpointInv, E!PipeEnds
  PROVE  (\E b \in Buffers, r \in {"ok", "error"} : E!Abstract!Finish(b, r)) \/ UNCHANGED E!Abstract!vars
<1>0. E!EndpointTypeOK /\ Len(flying) \in Nat
  BY Queues DEF E!EndpointInv
<1>1. UNCHANGED <<backend, phase, pending, done, asked, after>> /\ ~E!Aborting
  BY DEF E!PipeEnds
<1>2. 1 \in DOMAIN flying
  BY <1>0, Queues DEF E!PipeEnds
<1>3. PICK r \in {"ok", "error"} : E!End(1, r)
  BY DEF E!PipeEnds
<1>4. E!InQueue' = E!InQueue /\ (Open' <=> Open)
  BY <1>1 DEF E!InQueue, Open
<1>5. outcome \in [Buffers -> {"pending", "ok", "error", "cancelled", "invalid"}]
  BY <1>0 DEF E!EndpointTypeOK
<1>6. CASE flying[1] \notin E!InQueue
  <2>1. flying[1] # Orphan => outcome' = [outcome EXCEPT ![flying[1]] = r]
    BY <1>3 DEF E!End
  <2>2. flying[1] = Orphan => outcome' = outcome
    BY <1>3 DEF E!End
  <2>3. Shown' = Shown
    BY <1>4, <1>5, <1>6, <2>1, <2>2 DEF Shown
  <2>4. Open' = Open
    BY <1>1 DEF Open
  <2> QED
    BY <1>1, <2>3, <2>4, Stutter
<1>7. CASE flying[1] \in E!InQueue
  <2> DEFINE b == flying[1]
  <2>1. b \in Buffers /\ b # Orphan
    BY <1>0, <1>7, Queues, OrphanAssumption
  <2>2. outcome[b] = "pending" /\ outcome' = [outcome EXCEPT ![b] = r]
    BY <1>2, <1>3, <2>1 DEF E!EndpointInv, E!OutcomeInv, E!End
  <2>3. E!Native \/ phase = "open"
    BY <1>2, <2>1 DEF E!EndpointInv, E!OwnerInv
  <2>4. PICK m \in DOMAIN pending : pending[m] = b
    BY <1>0, <1>7, Queues
  <2>5. ASSUME NEW c \in Buffers, E!Abstract!Before(c, b)
        PROVE  Shown[c] # "pending" /\ (Shown[c] = "cancelled" => c \in after[b])
    <3>1. PICK i \in DOMAIN pending, j \in DOMAIN pending : i < j /\ pending[i] = c /\ pending[j] = b
      BY <2>5 DEF E!Abstract!Before
    <3>2. c \in E!InQueue /\ Shown[c] = outcome[c]
      BY <1>0, <3>1, Queues DEF Shown
    <3>3. outcome[c] # "pending"
      <4>1. SUFFICES ASSUME outcome[c] = "pending" PROVE FALSE
        OBVIOUS
      <4>2. PICK k \in DOMAIN flying : flying[k] = c
        BY <2>3, <3>2, <4>1 DEF E!EndpointInv, E!OutcomeInv
      <4>3. i \in Nat /\ j \in Nat /\ k \in Nat /\ k >= 1
        BY <1>0, Queues
      <4>4. k # 1
        BY <3>1, <4>2, <4>3 DEF E!EndpointInv, E!QueueInv
      <4>5. 1 < k
        BY <4>3, <4>4
      <4>6. j < i
        BY <1>2, <3>1, <4>2, <4>5 DEF E!EndpointInv, E!OrderInv
      <4> QED
        BY <3>1, <4>3, <4>6
    <3>4. outcome[c] = "cancelled" => c \in after[b]
      BY <1>1, <2>2, <3>1 DEF E!EndpointInv, E!CancelInv
    <3> QED
      BY <3>2, <3>3, <3>4
  <2>6. Shown' = [Shown EXCEPT ![b] = r] /\ Shown[b] = "pending"
    BY <1>4, <1>5, <1>7, <2>1, <2>2 DEF Shown
  <2>7. E!Abstract!Queued(b) /\ r # "cancelled"
    BY <1>0, <1>3, <1>7, QueuedIs
  <2>8. Open' = Open
    BY <1>1 DEF Open
  <2> HIDE DEF b
  <2>9. E!Abstract!Finish(b, r)
    BY <1>1, <2>5, <2>6, <2>7, <2>8 DEF E!Abstract!Finish, Shown, Open
  <2> QED
    BY <1>3, <2>1, <2>9
<1> QED
  BY <1>6, <1>7

\* CancelIoEx and AbortPipe cancel only what cancel_all found in the queue.
LEMMA CancelRefines ==
  ASSUME E!EndpointInv, E!CancelOne \/ E!AbortPipe
  PROVE  (\E b \in Buffers : E!Abstract!Finish(b, "cancelled")) \/ UNCHANGED E!Abstract!vars
<1>0. E!EndpointTypeOK /\ Len(flying) \in Nat
  BY Queues DEF E!EndpointInv
<1>1. UNCHANGED <<backend, phase, pending, done, asked, after>> /\ phase \in {"cancel", "drop"}
  BY DEF E!CancelOne, E!AbortPipe
<1>2. Open' = Open /\ E!InQueue' = E!InQueue /\ E!InQueue \subseteq asked /\ E!Native
  BY <1>1 DEF Open, E!InQueue, E!EndpointInv, E!PhaseInv
<1>3. outcome \in [Buffers -> {"pending", "ok", "error", "cancelled", "invalid"}]
  BY <1>0 DEF E!EndpointTypeOK
<1>4. CASE UNCHANGED outcome
  <2>1. Shown' = Shown
    BY <1>2, <1>4 DEF Shown
  <2> QED
    BY <1>1, <1>2, <2>1, Stutter
<1>5. ASSUME NEW i \in DOMAIN flying, E!End(i, "cancelled") PROVE \E b \in Buffers : E!Abstract!Finish(b, "cancelled")
  <2> DEFINE b == flying[i]
  <2>1. b # Orphan /\ b \in E!InQueue
    BY <1>1, <1>2 DEF E!EndpointInv, E!OwnerInv
  <2>2. b \in Buffers /\ b \in asked
    BY <1>0, <1>2, <2>1, Queues
  <2>3. outcome[b] = "pending" /\ outcome' = [outcome EXCEPT ![b] = "cancelled"]
    BY <1>5, <2>1 DEF E!EndpointInv, E!OutcomeInv, E!End
  <2>4. Shown' = [Shown EXCEPT ![b] = "cancelled"] /\ Shown[b] = "pending"
    BY <1>2, <1>3, <2>1, <2>2, <2>3 DEF Shown
  <2>5. E!Abstract!Queued(b)
    BY <1>0, <2>1, QueuedIs
  <2> HIDE DEF b
  <2>6. E!Abstract!Finish(b, "cancelled")
    BY <1>1, <1>2, <2>2, <2>4, <2>5 DEF E!Abstract!Finish, Shown, Open
  <2> QED
    BY <2>2, <2>6
<1>6. E!CancelOne => UNCHANGED outcome \/ \E i \in DOMAIN flying : E!End(i, "cancelled")
  BY DEF E!CancelOne
<1>7. E!AbortPipe => \E i \in DOMAIN flying : E!End(i, "cancelled")
  <2>1. flying # <<>> => 1 \in DOMAIN flying
    BY <1>0, Queues
  <2> QED
    BY <2>1 DEF E!AbortPipe
<1> QED
  BY <1>4, <1>5, <1>6, <1>7

\* The oldest buffer leaves the queue of EndpointQueue too.
LEMMA PopRefines ==
  ASSUME E!EndpointInv, pending # <<>>, UNCHANGED phase,
         pending' = Tail(pending), asked' = asked \ {pending[1]},
         outcome' = [outcome EXCEPT ![pending[1]] = "pending"],
         after' = [c \in Buffers |-> after[c] \ {pending[1]}]
  PROVE  E!Abstract!Pop
<1>0. E!EndpointTypeOK /\ E!QueueInv /\ pending \in Seq(Buffers)
  BY Queues DEF E!EndpointInv
<1>1. /\ pending' \in Seq(Buffers) /\ Len(pending') = Len(pending) - 1 /\ Head(pending) = pending[1]
      /\ \A j \in 1..(Len(pending) - 1) : pending'[j] = pending[j + 1]
  BY <1>0, Popped
<1>2. (\A b : b \in E!InQueue' <=> b \in E!InQueue /\ b # pending[1]) /\ pending[1] \in Buffers
  <2>1. (\A b : b \in E!InQueue' <=> b \in E!InQueue /\ b # pending[1]) /\ 1 \in 1..Len(pending)
    BY <1>0, <1>1, PoppedQueue
  <2> QED
    BY <1>0, <2>1, Queues
<1>3. outcome \in [Buffers -> {"pending", "ok", "error", "cancelled", "invalid"}]
  BY <1>0 DEF E!EndpointTypeOK
<1>4. Shown' = [Shown EXCEPT ![pending[1]] = "pending"]
  BY <1>2, <1>3 DEF Shown
<1>5. Open' = Open
  BY DEF Open
<1> QED
  BY <1>1, <1>4, <1>5 DEF E!Abstract!Pop, Shown, Open

\* The front is complete: it is returned.
LEMMA TakeRefines ==
  ASSUME E!EndpointInv, phase = "open", NEW i \in E!TakeFront, E!TakeCompletion(i)
  PROVE  E!Abstract!Return
<1>0. E!EndpointTypeOK /\ pending \in Seq(Buffers) /\ Len(pending) \in Nat
  BY Queues DEF E!EndpointInv
<1>1. i = 1 /\ 1 \in 1..Len(pending) /\ pending[1] \in done /\ pending[1] \in Buffers /\ pending # <<>>
  BY <1>0, Queues DEF E!TakeFront
<1>2. /\ pending' = E!RemoveAt(pending, 1) /\ asked' = asked \ {pending[1]} /\ UNCHANGED phase
      /\ outcome' = [outcome EXCEPT ![pending[1]] = "pending"]
      /\ after' = [c \in Buffers |-> after[c] \ {pending[1]}]
  BY <1>1 DEF E!TakeCompletion
<1>3. pending' = Tail(pending)
  <2>1. /\ pending' \in Seq(Buffers) /\ Len(pending') = Len(pending) - 1
        /\ \A j \in 1..(Len(pending) - 1) : pending'[j] = IF j < 1 THEN pending[j] ELSE pending[j + 1]
    BY <1>0, <1>1, <1>2, Removed
  <2>2. /\ Tail(pending) \in Seq(Buffers) /\ Len(Tail(pending)) = Len(pending) - 1
        /\ \A j \in 1..(Len(pending) - 1) : Tail(pending)[j] = pending[j + 1]
    BY <1>0, <1>1, Popped
  <2>3. \A j \in 1..(Len(pending) - 1) : pending'[j] = Tail(pending)[j]
    BY <1>0, <2>1, <2>2
  <2> DEFINE s == pending'
             t == Tail(pending)
  <2>4. s \in Seq(Buffers) /\ t \in Seq(Buffers) /\ Len(s) = Len(t) /\ \A j \in 1..Len(s) : s[j] = t[j]
    BY <2>1, <2>2, <2>3
  <2> HIDE DEF s, t
  <2>5. s = t
    BY ONLY <2>4
  <2> QED
    BY <2>5 DEF s, t
<1>4. E!Abstract!Pop
  BY <1>1, <1>2, <1>3, PopRefines
<1>5. Head(pending) = pending[1] /\ pending[1] \in E!InQueue /\ outcome[pending[1]] # "pending"
  BY <1>0, <1>1, Queues DEF E!EndpointInv, E!OutcomeInv
<1> QED
  BY <1>1, <1>4, <1>5 DEF E!Abstract!Return

\* A handle that is dropped is discarded.
LEMMA DiscardRefines ==
  ASSUME E!EndpointInv, E!DropHandle
  PROVE  E!Abstract!Discard
<1>1. pending # <<>> /\ pending \in Seq(Buffers) /\ phase = "dropping" /\ UNCHANGED phase
  BY Queues DEF E!EndpointInv, E!DropHandle
<1>2. Head(pending) = pending[1]
  BY <1>1, Popped
<1>3. E!Abstract!Pop
  BY <1>1, <1>2, PopRefines DEF E!DropHandle
<1> QED
  BY <1>1, <1>3 DEF E!Abstract!Discard

\* cancel_all asks for what is in the queue to stop; where drop is done with it, or needs none, the
\* endpoint closes; WebUSB closes at once.
LEMMA PhaseRefines ==
  ASSUME E!EndpointInv,
         \/ \E p \in {"cancel", "drop"} : E!StartCancel(p)
         \/ E!EndCancel
         \/ E!DropIdle \/ (E!Native /\ E!DropEndpoint) \/ E!GoneWebusb \/ E!DropWebusb
  PROVE  E!Abstract!CancelAll \/ E!Abstract!Close \/ UNCHANGED E!Abstract!vars
<1>0. E!EndpointTypeOK
  BY DEF E!EndpointInv
<1>1. UNCHANGED <<pending, outcome, after>>
  BY DEF E!StartCancel, E!EndCancel, E!DropIdle, E!DropEndpoint, E!GoneWebusb, E!DropWebusb
<1>2. Shown' = Shown
  BY <1>1 DEF Shown, E!InQueue
<1>3. ASSUME NEW p \in {"cancel", "drop"}, E!StartCancel(p) PROVE E!Abstract!CancelAll
  <2>1. Open /\ Open' /\ asked' = E!InQueue
    BY <1>3 DEF E!StartCancel, Open
  <2>2. asked' = {b \in Buffers : E!Abstract!Queued(b)}
    BY <1>0, <2>1, Queues, QueuedIs
  <2> QED
    BY <1>1, <1>2, <2>1, <2>2 DEF E!Abstract!CancelAll, Shown, Open
<1>4. CASE asked' = asked /\ ~Open'
  BY <1>1, <1>2, <1>4 DEF E!Abstract!Close, Shown, Open
<1>5. CASE asked' = asked /\ (Open' <=> Open)
  <2>1. Open' = Open
    BY <1>5 DEF Open
  <2> QED
    BY <1>1, <1>2, <1>5, <2>1, Stutter
<1>6. E!EndCancel \/ E!DropIdle \/ (E!Native /\ E!DropEndpoint) \/ E!GoneWebusb \/ E!DropWebusb
        => asked' = asked /\ (~Open' \/ (Open' <=> Open))
  BY DEF E!EndCancel, E!DropIdle, E!DropEndpoint, E!GoneWebusb, E!DropWebusb, Open
<1> QED
  BY <1>3, <1>4, <1>5, <1>6

\* Every step of an endpoint is a step of EndpointQueue, or one that it does not see.
LEMMA EndpointRefines == E!EndpointInv /\ [E!Next]_endpoint => [E!Abstract!Next]_(E!Abstract!vars)
<1> SUFFICES ASSUME E!EndpointInv, [E!Next]_endpoint PROVE E!Abstract!Next \/ UNCHANGED E!Abstract!vars
  OBVIOUS
<1>0. E!EndpointTypeOK
  BY DEF E!EndpointInv
<1>1. ASSUME NEW b \in Buffers,
             E!SubmitWindows(b) \/ E!PostSubmitFails(b) \/ E!SubmitMac(b) \/ E!SubmitWebusb(b) \/ E!SubmitErr(b)
      PROVE  E!Abstract!Next
  <2>1. E!Fly(b) \/ E!Inline(b, "error") \/ E!Inline(b, "invalid")
    BY <1>1 DEF E!SubmitWindows, E!PostSubmitFails, E!SubmitMac, E!SubmitWebusb, E!SubmitErr
  <2> QED
    BY <2>1, SubmitRefines DEF E!Abstract!Next
<1>2. ASSUME NEW b \in Buffers, NEW r \in {"ok", "error", "cancelled"}, E!Abstract!Finish(b, r) PROVE E!Abstract!Next
  BY <1>2 DEF E!Abstract!Next, E!Abstract!Results
<1>3. CASE E!PipeEnds \/ E!CancelOne \/ E!AbortPipe
  BY <1>2, <1>3, PipeEndsRefines, CancelRefines
<1>4. CASE E!IoCallback \/ E!TransferCallback \/ E!PromiseResolves
  <2>1. UNCHANGED <<phase, pending, outcome, asked, after>>
    BY <1>4 DEF E!IoCallback, E!TransferCallback, E!PromiseResolves, E!Complete
  <2>2. Shown' = Shown /\ Open' = Open
    BY <2>1 DEF Shown, Open, E!InQueue
  <2> QED
    BY <2>1, <2>2, Stutter
<1>5. CASE E!NextCompleteWindows \/ E!NextCompleteMac \/ E!NextCompleteWebusb
  BY <1>5, TakeRefines DEF E!NextCompleteWindows, E!NextCompleteMac, E!NextCompleteWebusb, E!Abstract!Next
<1>6. CASE \/ E!CancelAll \/ E!DropBusy \/ E!EndCancel
           \/ E!DropIdle \/ (E!Native /\ E!DropEndpoint) \/ E!GoneWebusb \/ E!DropWebusb
  BY <1>6, PhaseRefines DEF E!CancelAll, E!DropBusy, E!Abstract!Next
<1>7. CASE E!DropHandle
  BY <1>7, DiscardRefines DEF E!Abstract!Next
<1>8. CASE E!Reopen
  <2>1. pending = <<>> /\ E!InQueue = {} /\ UNCHANGED <<pending, asked, after>> /\ ~Open /\ Open'
    BY <1>8 DEF E!Reopen, E!EndpointInv, E!PhaseInv, E!InQueue, E!ToSet, Open
  <2>2. Shown' = Shown
    BY <2>1 DEF Shown, E!InQueue
  <2>3. E!Abstract!Reopen
    BY <2>1, <2>2 DEF E!Abstract!Reopen, Shown, Open
  <2> QED
    BY <2>3 DEF E!Abstract!Next
<1>9. CASE UNCHANGED endpoint
  <2>1. UNCHANGED <<phase, pending, outcome, asked, after>>
    BY <1>9 DEF endpoint
  <2>2. Shown' = Shown /\ Open' = Open
    BY <2>1 DEF Shown, Open, E!InQueue
  <2> QED
    BY <2>1, <2>2, Stutter
<1>10. CASE E!Next
  <2>1. CASE \E b \in Buffers :
               E!SubmitWindows(b) \/ E!PostSubmitFails(b) \/ E!SubmitMac(b) \/ E!SubmitWebusb(b) \/ E!SubmitErr(b)
    BY <1>1, <2>1
  <2> QED
    BY <1>3, <1>4, <1>5, <1>6, <1>7, <1>8, <1>10, <2>1 DEF E!Next
<1> QED
  BY <1>9, <1>10

\* A new endpoint is an empty queue.
LEMMA StartRefines == E!Init => E!Abstract!Init
<1> SUFFICES ASSUME E!Init PROVE E!Abstract!Init
  OBVIOUS
<1>1. E!InQueue = {} /\ Open /\ pending = <<>> /\ asked = {} /\ after = [b \in Buffers |-> {}]
  BY DEF E!Init, E!InQueue, E!ToSet, Open
<1>2. Shown = [b \in Buffers |-> "pending"]
  BY <1>1 DEF Shown
<1> QED
  BY <1>1, <1>2 DEF E!Abstract!Init, Shown, Open

\* A Linux endpoint that nobody has used yet.
LEMMA LinuxStart == X!Init => X!LinuxInv
<1> SUFFICES ASSUME X!Init PROVE X!LinuxInv
  OBVIOUS
<1>1. X!H!Init /\ X!H!IInv
  BY HandshakeStart DEF X!Init
<1>2. queue = <<>> /\ DOMAIN queue = {} /\ Len(queue) = 0 /\ upc = "run" /\ linuxPhase = "open" /\ cursor = 0 /\ endpoints
  BY <1>1 DEF X!Init, X!H!Init
<1>3. X!TypeOK
  <2>1. queue \in Seq(Transfers) /\ urbs \in Seq(Transfers) /\ finished \in Seq([urb : Transfers, status : X!Statuses])
    BY DEF X!Init
  <2>2. status \in [Transfers -> X!Statuses] /\ buffer \in [Transfers -> LinuxBuffers \union {NoBuffer}]
    BY DEF X!Init, X!Statuses
  <2> QED
    BY <1>1, <1>2, <2>1, <2>2 DEF X!Init, X!TypeOK, X!H!IInv
<1>4. X!CallerInv /\ X!HandleInv /\ X!BufferInv /\ X!FreeMeansQuiescent
  BY <1>2 DEF X!CallerInv, X!HandleInv, X!BufferInv, X!FreeMeansQuiescent
<1> QED
  BY <1>1, <1>3, <1>4 DEF X!LinuxInv

\* Every step of a Linux endpoint and of what surrounds it keeps the invariant.
LEMMA LinuxStep == X!LinuxInv /\ [X!Next]_linuxEndpoint => X!LinuxInv'
<1> SUFFICES ASSUME X!LinuxInv, [X!Next]_linuxEndpoint PROVE X!LinuxInv'
  OBVIOUS
<1>1. X!H!IInv'
  BY HandOverKeeps
<1>2. CASE \E t \in Transfers, b \in LinuxBuffers : X!Submit(t, b) \/ X!SubmitErr(t, b)
  BY <1>1, <1>2, SubmissionKeeps
<1>3. CASE \E m \in Modes : X!NextComplete(m)
  BY <1>1, <1>3, HandOverQuiet
<1>4. CASE X!OwnerStep
  BY <1>1, <1>4, PushBackKeeps, FrontKeeps, HandOverQuiet, EndpointQuiet DEF X!OwnerStep
<1>5. CASE X!EventStep \/ X!NotifyCompletion(User) \/ X!GiveUp
  BY <1>1, <1>5, HandOverQuiet, EndpointQuiet DEF X!EventStep
<1>6. CASE \/ X!StartCancel("cancel") \/ X!Drop \/ X!DropInner \/ X!OpenEndpoint \/ X!Disconnect
           \/ (\E s \in {"ok", "error"} : X!FinishUrb(s)) \/ UNCHANGED linuxEndpoint
  BY <1>1, <1>6, EndpointQuiet
<1> QED
  BY <1>2, <1>3, <1>4, <1>5, <1>6 DEF X!Next

-----------------------------------------------------------------------------
(* The programs of MCBackends                                              *)

\* What holds of all five, whichever runs.
BackendsInv == IInv /\ DriversInv /\ E!EndpointInv /\ X!LinuxInv /\ X!ResultInv /\ L!EnumerationInv

\* Whichever runs, the others are as they start.
LEMMA BackendsStart == MCInit => BackendsInv
BY InitIInv, DriversStart, EndpointStart, LinuxStart, ResultStart, EnumerationStart DEF MCInit, BackendsInv

\* A step is one of the program's, and the others are unchanged.
LEMMA BackendsStep ==
  BackendsInv /\ [MCNext]_<<vars, kernelDrivers, endpoint, linuxEndpoint, enumeration, program>>
    => BackendsInv'
<1> SUFFICES ASSUME BackendsInv, [MCNext]_<<vars, kernelDrivers, endpoint, linuxEndpoint, enumeration, program>>
             PROVE  BackendsInv'
  OBVIOUS
<1>1. /\ [Next]_vars /\ [DriversNext]_kernelDrivers /\ [E!Next]_endpoint /\ [X!Next]_linuxEndpoint
      /\ L!EnumerationNext \/ UNCHANGED enumeration
  BY DEF MCNext
<1>2. IInv'
  BY <1>1, NextKeepsIInv DEF BackendsInv
<1>3. DriversInv'
  BY <1>1, DriversStep DEF BackendsInv
<1>4. E!EndpointInv'
  BY <1>1, EndpointStep DEF BackendsInv
<1>5. X!LinuxInv' /\ X!ResultInv'
  BY <1>1, LinuxStep, ResultStep DEF BackendsInv
<1>6. L!EnumerationInv'
  <2>1. CASE L!EnumerationNext
    BY <2>1, EnumerationStep DEF BackendsInv
  <2>2. CASE UNCHANGED enumeration
    BY <2>2, EnumerationStays DEF BackendsInv
  <2> QED
    BY <1>1, <2>1, <2>2
<1> QED
  BY <1>2, <1>3, <1>4, <1>5, <1>6 DEF BackendsInv

\* The inductive invariants hold of every backend.
THEOREM SpecBackendsInv == MCSpec => []BackendsInv
BY BackendsStart, BackendsStep, PTL DEF MCSpec

\* The program stays the one it started as.
ProgramInv == program \in {"device", "drivers", "endpoint", "linux", "enumeration"}

\* Type correctness of the five models.
THEOREM SpecBackendsTypeOK == MCSpec => []BackendsTypeOK
<1>1. MCInit => ProgramInv
  BY DEF MCInit, ProgramInv
<1>2. ProgramInv /\ [MCNext]_<<vars, kernelDrivers, endpoint, linuxEndpoint, enumeration, program>> => ProgramInv'
  BY DEF MCNext, ProgramInv
<1>3. BackendsInv => TypeOK /\ DriversTypeOK /\ E!EndpointTypeOK /\ X!TypeOK /\ L!EnumerationTypeOK
  BY DEF BackendsInv, IInv, DriversInv, E!EndpointInv, X!LinuxInv, L!EnumerationInv
<1>4. BackendsInv /\ ProgramInv => BackendsTypeOK
  BY <1>3, Zenon DEF BackendsTypeOK, ProgramInv
<1> QED
  BY <1>1, <1>2, <1>4, SpecBackendsInv, PTL DEF MCSpec

\* An address that the interface considers free has no transfer left, in the queue, with the system
\* or with a callback: on Linux for the boxes too.  WebUSB promises less.
THEOREM SpecFreeMeansQuiescent == MCSpec => []FreeMeansQuiescent
<1>1. BackendsInv => E!FreeMeansQuiescent /\ X!FreeMeansQuiescent
  BY DEF BackendsInv, E!EndpointInv, X!LinuxInv
<1>2. BackendsInv => FreeMeansQuiescent
  BY <1>1, Zenon DEF FreeMeansQuiescent
<1> QED
  BY <1>2, SpecBackendsInv, PTL

\* A DeviceInfo identifies the device that was there.
THEOREM SpecIdentified == MCSpec => []Identified
<1>1. BackendsInv => Identified
  BY InvIdentified DEF BackendsInv, Identified
<1> QED
  BY <1>1, SpecBackendsInv, PTL

\* The three endpoints that are not Linux's do what EndpointQueue promises.
THEOREM SpecEndpointImplementsQueue == MCSpec => E!ImplementsQueue
<1>1. MCInit => E!Abstract!Init
  BY StartRefines DEF MCInit
<1>2. BackendsInv /\ [MCNext]_<<vars, kernelDrivers, endpoint, linuxEndpoint, enumeration, program>>
        => [E!Abstract!Next]_(E!Abstract!vars)
  <2> SUFFICES ASSUME BackendsInv, [MCNext]_<<vars, kernelDrivers, endpoint, linuxEndpoint, enumeration, program>>
               PROVE  [E!Abstract!Next]_(E!Abstract!vars)
    OBVIOUS
  <2>1. [E!Next]_endpoint
    BY DEF MCNext
  <2> QED
    BY <2>1, EndpointRefines DEF BackendsInv
<1> QED
  BY <1>1, <1>2, SpecBackendsInv, PTL DEF MCSpec, E!ImplementsQueue, E!Abstract!Spec

\* Every endpoint does what EndpointQueue promises: a buffer comes back once, in the order of
\* submission, with the end that its transfer had; only what cancel_all was asked to stop is
\* cancelled, and nothing succeeds behind it that was submitted before.  On Linux too, where usbfs
\* ends a URB, the event thread reaps it and its swap shows it to the program.
THEOREM SpecImplementsQueue == MCSpec => ImplementsQueue
<1>1. MCInit => X!Abstract!Init
  BY LinuxStartRefines DEF MCInit
<1>2. BackendsInv /\ BackendsInv' /\ [MCNext]_<<vars, kernelDrivers, endpoint, linuxEndpoint, enumeration, program>>
        => [X!Abstract!Next]_(X!Abstract!vars)
  <2> SUFFICES ASSUME BackendsInv, BackendsInv',
                      [MCNext]_<<vars, kernelDrivers, endpoint, linuxEndpoint, enumeration, program>>
               PROVE  [X!Abstract!Next]_(X!Abstract!vars)
    OBVIOUS
  <2>1. [X!Next]_linuxEndpoint
    BY DEF MCNext
  <2>2. X!LinuxInv /\ X!ResultInv /\ X!LinuxInv'
    BY DEF BackendsInv
  <2> QED
    BY <2>1, <2>2, LinuxRefines
<1>3. MCSpec => X!ImplementsQueue
  BY <1>1, <1>2, SpecBackendsInv, PTL DEF MCSpec, X!ImplementsQueue, X!Abstract!Spec
<1> QED
  BY <1>3, SpecEndpointImplementsQueue DEF ImplementsQueue
=============================================================================
