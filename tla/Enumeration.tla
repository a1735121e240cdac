----------------------------- MODULE Enumeration -----------------------------
(***************************************************************************)
(* Listing devices and opening one of them, while devices are plugged and  *)
(* unplugged: list_devices, probe_device and from_device_info of the Linux,*)
(* Windows and macOS backends.  A DeviceInfo and a Device are put together *)
(* from several reads, each of which names the device in a way of its own: *)
(* by the path of the port it is at (sysfs), by its address (usbfs), by    *)
(* its instance (Windows), by the port of a hub (the ioctls of a hub), or  *)
(* by its entry in the registry (macOS).                                   *)
(*                                                                         *)
(* A connection is one stay of a device at a port.  What was read is       *)
(* represented by the connection it was read from, 0 for nothing.          *)
(* X_Y is a mutant of X.                                                   *)
(***************************************************************************)
EXTENDS Integers, Sequences, SequencesExt

CONSTANTS
  UsbDevices, \* devices; the instance that Windows knows stays with the device
  Ports,
  Systems,    \* of "linux", "windows" and "macos"
  MaxPlugs    \* bound on connections

VARIABLES
  system,
  at,     \* the connection at each port
  who,    \* history: the device of each connection
  step,   \* what the program reads next
  info,   \* the DeviceInfo
  dev     \* the Device

enumeration == <<system, at, who, step, info, dev>>

Connections == 0..MaxPlugs
NoInfo == [id |-> 0, port |-> 0, ids |-> 0, strings |-> 0, interfaces |-> 0]
NoDev == [of |-> 0, port |-> 0, descriptor |-> 0, configs |-> 0, active |-> 0]

EnumerationInit ==
  /\ system \in Systems /\ at = [p \in Ports |-> 0] /\ who = <<>>
  /\ step = "list" /\ info = NoInfo /\ dev = NoDev

Connected(c) == c # 0 /\ \E p \in Ports : at[p] = c
PortOf(c) == CHOOSE p \in Ports : at[p] = c

\* The connection of the device that was connected as c; 0 if it is away.
Now(c) == IF \E p \in Ports : at[p] # 0 /\ who[at[p]] = who[c]
          THEN at[CHOOSE p \in Ports : at[p] # 0 /\ who[at[p]] = who[c]] ELSE 0

PlugIn(d, p) ==
  /\ at[p] = 0 /\ Len(who) < MaxPlugs
  /\ \A q \in Ports : at[q] # 0 => who[at[q]] # d
  /\ who' = Append(who, d) /\ at' = [at EXCEPT ![p] = Len(who) + 1]
  /\ UNCHANGED <<system, step, info, dev>>

PullOut(p) ==
  /\ at[p] # 0 /\ at' = [at EXCEPT ![p] = 0]
  /\ UNCHANGED <<system, who, step, info, dev>>

\* The program reads, at a step, and goes on to the next one, or gives up.
Reads(on, now, then) == system = on /\ step = now /\ step' = then /\ UNCHANGED <<system, at, who>>
Fails(on, now, back) ==
  /\ system = on /\ step = now /\ step' = back /\ dev' = NoDev
  /\ info' = IF back = "list" THEN NoInfo ELSE info
  /\ UNCHANGED <<system, at, who>>

-----------------------------------------------------------------------------
(* Linux                                                                   *)

\* list_devices finds the directory of a port, ...
ListLinux(p) ==
  /\ Reads("linux", "list", "address") /\ at[p] # 0
  /\ info' = [NoInfo EXCEPT !.port = p] /\ UNCHANGED dev

\* ... and probe_device reads its files: whatever is at the port by then.
ReadAttribute(now, field, then) ==
  /\ Reads("linux", now, then) /\ at[info.port] # 0
  /\ info' = [info EXCEPT ![field] = at[info.port]] /\ UNCHANGED dev
AttributeMissing(now) == Fails("linux", now, "list") /\ at[info.port] = 0

\* What need not be there, or not be readable.
ReadOptional(on, now, field, then) ==
  /\ Reads(on, now, then)
  /\ \E found \in {0, at[info.port]} : info' = [info EXCEPT ![field] = found]
  /\ UNCHANGED dev

ProbeLinux ==
  \/ ReadAttribute("address", "id", "ids") \/ AttributeMissing("address") \* busnum, devnum
  \/ ReadAttribute("ids", "ids", "strings") \/ AttributeMissing("ids")
  \/ ReadOptional("linux", "strings", "strings", "interfaces")
  \/ ReadOptional("linux", "interfaces", "interfaces", "have")

\* from_device_info opens the node of the address, ...
OpenNode ==
  \/ Reads("linux", "have", "descriptors") /\ Connected(info.id)
     /\ dev' = [NoDev EXCEPT !.of = info.id] /\ UNCHANGED info
  \/ Fails("linux", "have", "have") /\ ~Connected(info.id)

\* ... and create_inner reads the descriptors from it, and the active configuration
\* from the path of the port.
CreateInner ==
  \/ Reads("linux", "descriptors", "config") /\ Connected(dev.of)
     /\ dev' = [dev EXCEPT !.descriptor = dev.of, !.configs = dev.of] /\ UNCHANGED info
  \/ Fails("linux", "descriptors", "have") /\ ~Connected(dev.of)
  \/ Reads("linux", "config", "open") /\ at[info.port] # 0
     /\ dev' = [dev EXCEPT !.active = at[info.port]] /\ UNCHANGED info
  \/ Fails("linux", "config", "have") /\ at[info.port] = 0

\* active_configuration_value reads it again, if there is something to read.
ActiveConfigurationValue ==
  /\ Reads("linux", "open", "open")
  /\ dev' = [dev EXCEPT !.active = IF at[info.port] = 0 THEN @ ELSE at[info.port]]
  /\ UNCHANGED info

-----------------------------------------------------------------------------
(* Windows                                                                 *)

ListWindows(p) ==
  /\ Reads("windows", "list", "port") /\ at[p] # 0
  /\ info' = [NoInfo EXCEPT !.id = at[p]] /\ UNCHANGED dev

\* HubPort::by_child_devinst looks up the hub and port of the instance.
HubPort_Listed(c) == info.port
HubPort(c) == PortOf(Now(c))
FindPort ==
  \/ Reads("windows", "port", "ids") /\ Now(info.id) # 0
     /\ info' = [info EXCEPT !.id = Now(@), !.port = PortOf(Now(info.id))] /\ UNCHANGED dev
  \/ Fails("windows", "port", "list") /\ Now(info.id) = 0

\* get_info asks the hub about the port, get_descriptor asks the device at the port.
ProbeWindows ==
  \/ FindPort
  \/ Reads("windows", "ids", "strings") /\ at[info.port] # 0
     /\ info' = [info EXCEPT !.ids = at[info.port]] /\ UNCHANGED dev
  \/ Fails("windows", "ids", "list") /\ at[info.port] = 0
  \/ ReadOptional("windows", "strings", "strings", "interfaces")
  \/ ReadOptional("windows", "interfaces", "interfaces", "have")

\* from_device_info does it all again.
OpenPort ==
  \/ Reads("windows", "have", "info") /\ Now(info.id) # 0
     /\ dev' = [NoDev EXCEPT !.of = Now(info.id), !.port = HubPort(info.id)] /\ UNCHANGED info
  \/ Fails("windows", "have", "have") /\ Now(info.id) = 0
GetInfo ==
  \/ Reads("windows", "info", "configs") /\ at[dev.port] # 0
     /\ dev' = [dev EXCEPT !.descriptor = at[dev.port], !.active = at[dev.port]] /\ UNCHANGED info
  \/ Fails("windows", "info", "have") /\ at[dev.port] = 0
GetConfigDescriptors ==
  /\ Reads("windows", "configs", "open")
  /\ \E found \in {0, at[dev.port]} : dev' = [dev EXCEPT !.configs = found]
  /\ UNCHANGED info

-----------------------------------------------------------------------------
(* macOS                                                                   *)

\* All the properties are of one entry of the registry, some of which it may have lost
\* if the device is gone.
ListMac(p) ==
  /\ Reads("macos", "list", "have") /\ at[p] # 0
  /\ \E strings, interfaces \in {0, at[p]} :
       info' = [id |-> at[p], port |-> p, ids |-> at[p], strings |-> strings, interfaces |-> interfaces]
  /\ UNCHANGED dev

\* service_by_registry_id finds the entry, or the device is not found.
FindService ==
  \/ Reads("macos", "have", "fields") /\ Connected(info.id)
     /\ dev' = [NoDev EXCEPT !.of = info.id] /\ UNCHANGED info
  \/ Fails("macos", "have", "have") /\ ~Connected(info.id)
ReadFields ==
  \/ Reads("macos", "fields", "open")
     /\ \E configs, active \in {0, dev.of} : \* requests may fail
          dev' = [dev EXCEPT !.descriptor = dev.of, !.configs = configs, !.active = active]
     /\ UNCHANGED info
  \/ Fails("macos", "fields", "have") /\ ~Connected(dev.of)

-----------------------------------------------------------------------------

\* The program closes the device, or lists again.
StartOver ==
  /\ step \in {"have", "open"}
  /\ step' = IF step = "open" THEN "have" ELSE "list"
  /\ dev' = NoDev /\ info' = IF step = "open" THEN info ELSE NoInfo
  /\ UNCHANGED <<system, at, who>>

EnumerationNext ==
  \/ \E p \in Ports :
       \/ PullOut(p) \/ ListLinux(p) \/ ListWindows(p) \/ ListMac(p)
       \/ \E d \in UsbDevices : PlugIn(d, p)
  \/ ProbeLinux \/ OpenNode \/ CreateInner \/ ActiveConfigurationValue
  \/ ProbeWindows \/ OpenPort \/ GetInfo \/ GetConfigDescriptors
  \/ FindService \/ ReadFields \/ StartOver

Steps ==
  {"list", "address", "port", "ids", "strings", "interfaces", "have",
   "descriptors", "config", "info", "configs", "fields", "open"}

Infos == [id : Connections, port : Ports \union {0}, ids : Connections,
          strings : Connections, interfaces : Connections]
Devs == [of : Connections, port : Ports \union {0}, descriptor : Connections,
         configs : Connections, active : Connections]

EnumerationTypeOK ==
  /\ system \in Systems /\ at \in [Ports -> Connections] /\ who \in Seq(UsbDevices)
  /\ step \in Steps /\ info \in Infos /\ dev \in Devs

\* While the device of a DeviceInfo stays connected, everything in it is of that device,
\* although it may have been read while another device was at the port; the same goes
\* for a Device.  And a Device is that of its DeviceInfo, whatever is plugged in where it
\* was.
Identified ==
  LET listed == step \in {"have", "descriptors", "config", "info", "configs", "fields", "open"} IN
  /\ listed /\ Connected(info.id) =>
       info.ids = info.id /\ {info.strings, info.interfaces} \subseteq {0, info.id}
  /\ dev.of # 0 => who[dev.of] = who[info.id]
  /\ step = "open" /\ Connected(dev.of) =>
       dev.descriptor = dev.of /\ {dev.configs, dev.active} \subseteq {0, dev.of}

-----------------------------------------------------------------------------
(* The inductive invariant                                                 *)

\* Connections are numbered as they come, and a device is at one port.
PlugsInv ==
  /\ Len(who) <= MaxPlugs
  /\ \A p \in Ports : at[p] <= Len(who)
  /\ \A p, q \in Ports : at[p] # 0 /\ at[q] # 0 /\ who[at[p]] = who[at[q]] => p = q

\* Where the program reads, as long as what it reads is connected: at the port of the
\* DeviceInfo, and of the Device on Windows.
PortInv ==
  /\ step \notin {"list", "port"} => info.port \in Ports
  /\ step \in {"info", "configs"} => dev.port \in Ports
  /\ step # "port" /\ Connected(info.id) => info.port \in Ports /\ at[info.port] = info.id
  /\ system = "windows" /\ Connected(dev.of) => dev.port \in Ports /\ at[dev.port] = dev.of

\* What the program has read at a step is that of the connection.
InfoInv ==
  /\ info.id <= Len(who)
  /\ step \notin {"list", "address"} => info.id # 0
  /\ step \in {"list", "address", "port", "ids"} => info.strings = 0 /\ info.interfaces = 0
  /\ Connected(info.id) => info.strings \in {0, info.id} /\ info.interfaces \in {0, info.id}
  /\ step \notin {"list", "address", "port", "ids"} /\ Connected(info.id) => info.ids = info.id

\* The Device is there while it is opened or open, on Linux and macOS it is that of the
\* same connection.
DevInv ==
  /\ dev.of <= Len(who)
  /\ step \in {"list", "address", "port", "ids", "strings", "interfaces", "have"} => dev = NoDev
  /\ dev.of # 0 => info.id # 0 /\ who[dev.of] = who[info.id]
  /\ dev.of # 0 /\ system # "windows" => dev.of = info.id
  /\ step \in {"config", "configs", "open"} /\ Connected(dev.of) => dev.descriptor = dev.of
  /\ Connected(dev.of) => dev.configs \in {0, dev.of} /\ dev.active \in {0, dev.of}

EnumerationInv == EnumerationTypeOK /\ PlugsInv /\ PortInv /\ InfoInv /\ DevInv
=============================================================================
