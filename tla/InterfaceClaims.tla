--------------------------- MODULE InterfaceClaims ---------------------------
(***************************************************************************)
(* What Device::claim_interface, Interface and Endpoint promise of the     *)
(* interfaces of a device, whatever the operating system: an interface is  *)
(* claimed once at a time, an endpoint belongs to a claimed interface, and *)
(* the alternate setting changes only while no endpoint of it is in use.   *)
(* BackendDevice implements this.                                          *)
(***************************************************************************)
EXTENDS Naturals

CONSTANTS
  Interfaces, \* interface numbers
  Alts        \* alternate settings; 0 is the one after a claim

VARIABLES
  claimed, \* the interfaces that are claimed
  inUse,   \* those with an endpoint in use
  setting  \* the alternate setting of each

claims == <<claimed, inUse, setting>>

Init == claimed = {} /\ inUse = {} /\ setting = [i \in Interfaces |-> 0]

Claim(i) ==
  /\ i \notin claimed
  /\ claimed' = claimed \union {i}
  /\ UNCHANGED <<inUse, setting>>

Release(i) ==
  /\ i \in claimed \ inUse
  /\ claimed' = claimed \ {i}
  /\ setting' = [setting EXCEPT ![i] = 0]
  /\ UNCHANGED inUse

Open(i) ==
  /\ i \in claimed \ inUse
  /\ inUse' = inUse \union {i}
  /\ UNCHANGED <<claimed, setting>>

Close(i) ==
  /\ i \in inUse
  /\ inUse' = inUse \ {i}
  /\ UNCHANGED <<claimed, setting>>

SetAlt(i, a) ==
  /\ i \in claimed \ inUse
  /\ setting' = [setting EXCEPT ![i] = a]
  /\ UNCHANGED <<claimed, inUse>>

Next ==
  \E i \in Interfaces :
    Claim(i) \/ Release(i) \/ Open(i) \/ Close(i) \/ \E a \in Alts : SetAlt(i, a)

Spec == Init /\ [][Next]_claims
=============================================================================
