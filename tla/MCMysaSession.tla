--------------------------- MODULE MCMysaSession ---------------------------
(* Instances of MysaSession for TLC. *)
EXTENDS MysaSession
=============================================================================
