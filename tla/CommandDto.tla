------------------------------ MODULE CommandDto ------------------------------
(***************************************************************************)
(* Commands as the REST surface and the stored routines write them: the    *)
(* conversions of synaptex-core/rest/dto.rs between CommandDto and         *)
(* DeviceCommand.  A routine is shown as DTOs, edited and sent back, so    *)
(* a command crosses both.  Values of a type are taken from small sets.    *)
(***************************************************************************)
EXTENDS Integers

CONSTANTS None,      \* the Option is None
          DtoError   \* the conversion's Err

(* TryFrom<CommandDto>: the first value a raw DP has decides its type, and *)
(* a light has a colour when all three bytes are there.                    *)
FromDto(dto) ==
  CASE dto.kind = "SetDp" /\ dto.bool_val # None ->
         [kind |-> "SetDpBool", dp |-> dto.dp, value |-> dto.bool_val]
    [] dto.kind = "SetDp" /\ dto.bool_val = None /\ dto.int_val # None ->
         [kind |-> "SetDpInt", dp |-> dto.dp, value |-> dto.int_val]
    [] dto.kind = "SetDp" /\ dto.bool_val = None /\ dto.int_val = None ->
         IF dto.str_val = None THEN DtoError
         ELSE [kind |-> "SetDpStr", dp |-> dto.dp, value |-> dto.str_val]
    [] dto.kind = "SetLight" ->
         [kind |-> "SetLight", power |-> dto.power, brightness |-> dto.brightness,
          color_temp |-> dto.color_temp, mode |-> dto.mode,
          rgb |-> IF None \in {dto.r, dto.g, dto.b} THEN None
                  ELSE <<dto.r, dto.g, dto.b>>]
    [] OTHER -> dto

Byte(rgb, i) == IF rgb = None THEN None ELSE rgb[i]

RawDp(dp) == [kind |-> "SetDp", dp |-> dp, bool_val |-> None, int_val |-> None,
              str_val |-> None]

(* Mutant of ToDto: an absent mode is written as the mode it implies.      *)
ToDtoImplied(cmd) ==
  CASE cmd.kind = "SetDpBool" -> [RawDp(cmd.dp) EXCEPT !.bool_val = cmd.value]
    [] cmd.kind = "SetDpInt"  -> [RawDp(cmd.dp) EXCEPT !.int_val = cmd.value]
    [] cmd.kind = "SetDpStr"  -> [RawDp(cmd.dp) EXCEPT !.str_val = cmd.value]
    [] cmd.kind = "SetLight"  ->
         [kind |-> "SetLight", power |-> cmd.power, brightness |-> cmd.brightness,
          color_temp |-> cmd.color_temp, mode |-> IF cmd.mode = None THEN "white" ELSE cmd.mode,
          r |-> Byte(cmd.rgb, 1), g |-> Byte(cmd.rgb, 2), b |-> Byte(cmd.rgb, 3)]
    [] OTHER -> cmd

(* device_command_to_dto.                                                  *)
ToDto(cmd) ==
  CASE cmd.kind = "SetDpBool" -> [RawDp(cmd.dp) EXCEPT !.bool_val = cmd.value]
    [] cmd.kind = "SetDpInt"  -> [RawDp(cmd.dp) EXCEPT !.int_val = cmd.value]
    [] cmd.kind = "SetDpStr"  -> [RawDp(cmd.dp) EXCEPT !.str_val = cmd.value]
    [] cmd.kind = "SetLight"  ->
         [kind |-> "SetLight", power |-> cmd.power, brightness |-> cmd.brightness,
          color_temp |-> cmd.color_temp, mode |-> cmd.mode,
          r |-> Byte(cmd.rgb, 1), g |-> Byte(cmd.rgb, 2), b |-> Byte(cmd.rgb, 3)]
    [] OTHER -> cmd
=============================================================================
