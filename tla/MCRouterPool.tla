---------------------------- MODULE MCRouterPool ----------------------------
(* Instances of RouterPool for TLC: one Tuya device, with MAC m1, and a MAC *)
(* m2 that register_device is called with.                                 *)
EXTENDS RouterPool

CONSTANTS n1, m1, m2

(* ARP may know the address of n1's broadcasts, or knows it always.        *)
MacsOfOwn == [n \in Natives |-> {m1, NoMac}]
MacsOfResolved == [n \in Natives |-> {m1}]

(* An empty database; or one with n1's record, without a managed address   *)
(* and with the MAC that ARP had for n1's address when it was made.        *)
NoDevices == [i \in Ids |-> NoRecord]
OneDevice(m) ==
  [NoDevices EXCEPT ![1] = [mac |-> m, native |-> n1, managed |-> NoHost]]
OldDbsEmpty == {NoDevices}
OldDbsOther == {NoDevices, OneDevice(m2)}
=============================================================================
