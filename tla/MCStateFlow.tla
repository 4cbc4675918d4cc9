---------------------------- MODULE MCStateFlow ----------------------------
(* Instances of StateFlow for TLC.                                         *)
EXTENDS StateFlow
=============================================================================
