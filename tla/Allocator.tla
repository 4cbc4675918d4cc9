------------------------------ MODULE Allocator ------------------------------
(***************************************************************************)
(* What an allocator of managed addresses promises (RouterDb::allocate_ip  *)
(* and reserve_ip) to handlers that run at once: the test and the claim    *)
(* are two steps, so that several devices may want a host nobody holds,    *)
(* and each that found it free may take it.  Nothing releases a host:      *)
(* release_ip has no caller.                                               *)
(***************************************************************************)
CONSTANTS Hosts, Ids, NoId

VARIABLES
  owner,  \* owner[h]: the device id that holds h
  wanted  \* wanted[h]: the device ids that found h free, or theirs
vars == <<owner, wanted>>

Init ==
  /\ owner = [h \in Hosts |-> NoId]
  /\ wanted = [h \in Hosts |-> {}]

Look(h, id) ==
  /\ owner[h] \in {NoId, id}
  /\ wanted' = [wanted EXCEPT ![h] = @ \cup {id}]
  /\ UNCHANGED owner

(* A device may want a host twice.                                         *)
Grant(h, id) ==
  /\ id \in wanted[h]
  /\ owner' = [owner EXCEPT ![h] = id]
  /\ wanted' \in {wanted, [wanted EXCEPT ![h] = @ \ {id}]}

(* The router stops.                                                       *)
Forget ==
  /\ wanted' = [h \in Hosts |-> {}]
  /\ UNCHANGED owner

Next ==
  \/ \E h \in Hosts, id \in Ids : Look(h, id) \/ Grant(h, id)
  \/ Forget

Spec == Init /\ [][Next]_vars

(* What follows: a host whose holder is the only one that wants it is its  *)
(* holder's for ever.                                                      *)
Settled(h) == owner[h] # NoId /\ wanted[h] \subseteq {owner[h]}
SettledStays == [][\A h \in Hosts : Settled(h) => Settled(h)' /\ owner'[h] = owner[h]]_vars
==============================================================================
