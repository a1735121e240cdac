---------------------------- MODULE KernelDrivers ----------------------------
(***************************************************************************)
(* Claiming interfaces on Linux and the kernel drivers that had them       *)
(* (src/src/platform/linux_usbfs/device.rs, usbfs.rs): one open device,    *)
(* whose Interface objects come and go on any thread.  What keeps an       *)
(* object alive is the matter of LinuxInterface.  What usbfs does is       *)
(* external: a file may claim again what it has claimed, and may detach    *)
(* its own claim.  X_Y is a mutant of X.                                   *)
(***************************************************************************)
CONSTANTS
  Numbers, \* interface numbers
  Driven,  \* those that a kernel driver is for
  Names    \* of LinuxInterface objects

VARIABLES
  bound,    \* what each interface is bound to: "kernel", "usbfs" or "none"
  objects,  \* the LinuxInterfaces that exist; "released" ones are still to reattach
  detached, \* history: the program has detached the kernel driver itself
  misused   \* history: claimed again before the last object was gone, or detached
            \* under its own claim

kernelDrivers == <<bound, objects, detached, misused>>

InterfaceObjects == [name : Names, num : Numbers, reattach : BOOLEAN, phase : {"live", "released"}]

DriversTypeOK ==
  /\ bound \in [Numbers -> {"kernel", "usbfs", "none"}]
  /\ objects \subseteq InterfaceObjects
  /\ {detached, misused} \subseteq SUBSET Numbers

\* The device has just been opened.
DriversInit ==
  /\ bound = [i \in Numbers |-> IF i \in Driven THEN "kernel" ELSE "none"]
  /\ objects = {}
  /\ detached = {} /\ misused = {}

Exist(i) == {o \in objects : o.num = i}

\* handle_claim_interface_result, after usbfs has granted the claim.
Granted(n, i, reattach) ==
  /\ \A o \in objects : o.name # n
  /\ bound' = [bound EXCEPT ![i] = "usbfs"]
  /\ objects' = objects \union {[name |-> n, num |-> i, reattach |-> reattach, phase |-> "live"]}
  /\ misused' = IF Exist(i) = {} THEN misused ELSE misused \union {i}
  /\ UNCHANGED detached

\* usbfs refuses an interface with a kernel driver, but not one of the same file ...
ClaimInterface(n, i) == bound[i] # "kernel" /\ Granted(n, i, FALSE)

\* ... and here detaches any driver except usbfs.
DetachAndClaim_Plain(n, i) == bound[i] # "usbfs" /\ Granted(n, i, FALSE)
DetachAndClaim(n, i) == bound[i] # "usbfs" /\ Granted(n, i, TRUE)

\* NODATA if there is no driver.
DetachKernelDriver(i) ==
  /\ bound[i] # "none"
  /\ misused' = IF bound[i] = "usbfs" THEN misused \union {i} ELSE misused
  /\ bound' = [bound EXCEPT ![i] = "none"]
  /\ detached' = detached \union {i}
  /\ UNCHANGED objects

\* The kernel looks for a driver, unless there is one (BUSY).
Connected(i) == IF bound[i] = "none" /\ i \in Driven THEN "kernel" ELSE bound[i]

AttachKernelDriver(i) ==
  /\ bound[i] = "none"
  /\ bound' = [bound EXCEPT ![i] = Connected(i)]
  /\ detached' = detached \ {i}
  /\ UNCHANGED <<objects, misused>>

\* EBUSY while any interface has a driver; the drivers of the new configuration bind.
SetLinuxConfiguration ==
  /\ \A i \in Numbers : bound[i] = "none"
  /\ bound' = [i \in Numbers |-> Connected(i)]
  /\ detached' = {}
  /\ UNCHANGED <<objects, misused>>

\* Drop for LinuxInterface: release; if that went well, attach the driver again.
Reattaches(o) == o.reattach /\ bound[o.num] = "usbfs"

Release(o) ==
  /\ o.phase = "live"
  /\ objects' = (objects \ {o}) \union (IF Reattaches(o) THEN {[o EXCEPT !.phase = "released"]} ELSE {})
  /\ bound' = [bound EXCEPT ![o.num] = IF @ = "usbfs" THEN "none" ELSE @]
  /\ UNCHANGED <<detached, misused>>

Reattach(o) ==
  /\ o.phase = "released"
  /\ objects' = objects \ {o}
  /\ bound' = [bound EXCEPT ![o.num] = Connected(o.num)]
  /\ UNCHANGED <<detached, misused>>

DriversNext ==
  \/ \E i \in Numbers :
       \/ \E n \in Names : ClaimInterface(n, i) \/ DetachAndClaim(n, i)
       \/ DetachKernelDriver(i) \/ AttachKernelDriver(i)
  \/ SetLinuxConfiguration
  \/ \E o \in objects : Release(o) \/ Reattach(o)

DriversSpec == DriversInit /\ [][DriversNext]_kernelDrivers

-----------------------------------------------------------------------------
(* Properties                                                              *)

\* If the program drops an interface before it claims it again, and does not detach
\* what it has claimed: an object keeps its claim as long as it lives, and a driver
\* that detach_and_claim_interface sent away is back when the object is gone.
DriversReturn ==
  \A i \in Numbers \ misused :
    /\ \A o \in Exist(i) : o.phase = "live" => bound[i] = "usbfs"
    /\ Exist(i) = {} /\ i \in Driven \ detached => bound[i] = "kernel"

-----------------------------------------------------------------------------
(* The inductive invariant                                                 *)

\* An interface that is not misused has one object at most.  It will reattach, unless
\* it found the driver detached, and after its release it is kept only for that.
OneClaim ==
  \A i \in Numbers \ misused :
    /\ \A o, p \in Exist(i) : o = p
    /\ \A o \in Exist(i) : o.phase = "released" \/ i \in Driven \ detached => o.reattach
    /\ \A o \in Exist(i) : o.phase = "released" => bound[i] # "usbfs"

DriversInv == DriversTypeOK /\ DriversReturn /\ OneClaim
=============================================================================
