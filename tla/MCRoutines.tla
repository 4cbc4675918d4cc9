----------------------------- MODULE MCRoutines -----------------------------
(* Instances of Routines for TLC.  Handlers and task ids are               *)
(* interchangeable; no run that uses the symmetry checks liveness.         *)
EXTENDS Routines, TLC

CONSTANTS plain, noon, dusk

Interchangeable ==
  Permutations(Clients) \cup Permutations(CronIds) \cup Permutations(RunIds)
=============================================================================
