-------------------------- MODULE MCDiscoveryStream --------------------------
(* Instances of DiscoveryStream for TLC. *)
EXTENDS DiscoveryStream

(* One listener hears both devices. *)
CONSTANT Ear
HeardByEar == [d \in Tuyas |-> {Ear}]

(* Every device is heard by every listener. *)
HeardByAll == [d \in Tuyas |-> Loops]
=============================================================================
