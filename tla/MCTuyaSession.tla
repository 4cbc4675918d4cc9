--------------------------- MODULE MCTuyaSession ---------------------------
(* Instances of TuyaSession for TLC. *)
EXTENDS TuyaSession

(* A device of version 3.4 whose config says 3.3, as after an update of    *)
(* its firmware, or a device of version 3.3 whose config says nothing.     *)
StaleOrNone == [v \in DeviceVersions |-> IF v = "3.3" THEN None ELSE "3.3"]
=============================================================================
