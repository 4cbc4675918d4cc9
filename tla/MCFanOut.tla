------------------------------- MODULE MCFanOut -------------------------------
(* Instances of FanOut for TLC. *)
EXTENDS FanOut

CONSTANTS d, e, u, g, h, m

(* A group of two devices that know the command, a group with that group,  *)
(* and a room of that or of a device that does not and the two that do.    *)
Nested ==
  [x \in {g, h, m} |->
     IF x = g THEN {<<d, e>>} ELSE IF x = h THEN {<<g>>} ELSE {<<h>>, <<u, e, d>>}]

(* Two calls at once, each of at most two tasks.                           *)
Pairs == [x \in {g, m} |-> IF x = g THEN {<<d>>} ELSE {<<g>>, <<e, d>>}]

(* A group of two devices. *)
Couple == [x \in {g} |-> {<<d, e>>}]

(* A group that a patch makes a member of itself. *)
OfItself ==
  [x \in {g, m} |-> IF x = g THEN {<<d>>, <<d, g>>} ELSE {<<g>>}]
=============================================================================
