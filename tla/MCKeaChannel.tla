---------------------------- MODULE MCKeaChannel ----------------------------
(* Instances of KeaChannel for TLC.                                        *)
EXTENDS KeaChannel

CONSTANTS a, z
=============================================================================
