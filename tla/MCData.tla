-------------------------------- MODULE MCData --------------------------------
(***************************************************************************)
(* The pure algorithms against their reference: a state is one input.  The *)
(* inputs of numbers and frames are exhaustive within the bounds below;    *)
(* colours are taken from a grid that has every order of the three bytes   *)
(* and both ends.                                                          *)
(***************************************************************************)
EXTENDS Integers, Sequences, TLC

CONSTANTS None, Unsupported, DtoError

VARIABLE input

D == INSTANCE DpMap
T == INSTANCE TuyaFrames
B == INSTANCE Bond
C == INSTANCE CommandDto

(* Bounds: the brightnesses and temperatures of a command, the bytes of a  *)
(* colour, the payloads of a frame and the speeds of a bridge's fans.      *)
CONSTANTS Brightnesses, Kelvins, Bytes, Payloads, MaxSpeeds

AllBrightnesses == 0..1000
AllKelvins == 2700..6500

Colors == Bytes \X Bytes \X Bytes
OrNone(S) == S \cup {None}
Levels == {"Off", "Low", "Medium", "High"}

Patches ==
  [kind : {"SetLight"}, power : OrNone(BOOLEAN), brightness : OrNone({500}),
   color_temp : OrNone({4600}), rgb : OrNone({<<255, 0, 10>>}),
   mode : OrNone({"white", "colour"})]

Tuya(profile, x) == [topic |-> "tuya", profile |-> profile, cmd |-> x]

(* The commands a map has data points for.                                 *)
InitTuya ==
  \E p \in D!Profiles :
    LET m == D!FromProfile[p] IN
      \/ \E on \in BOOLEAN : input = Tuya(p, [kind |-> "SetPower", on |-> on])
      \/ /\ m.brightness # None
         /\ \E v \in Brightnesses : input = Tuya(p, [kind |-> "SetBrightness", value |-> v])
      \/ /\ m.color_temp # None
         /\ \E v \in Kelvins : input = Tuya(p, [kind |-> "SetColorTemp", value |-> v])
      \/ /\ m.color # None
         /\ \E v \in Colors : input = Tuya(p, [kind |-> "SetRgb", rgb |-> v])
      \/ /\ m.fan_speed # None
         /\ \E v \in Levels : input = Tuya(p, [kind |-> "SetFanSpeed", speed |-> v])
      \/ /\ m.temp_set # None
         /\ \E v \in {0, 21} : input = Tuya(p, [kind |-> "SetTargetTemp", value |-> v])

InitPatch ==
  \E p \in {"bulb_a", "bulb_b"}, x \in Patches :
    input = [topic |-> "patch", profile |-> p, cmd |-> x]

(* A Bond fan, with or without a light, before a command.                  *)
Bond(capabilities, max_speed, fan, x) ==
  [topic |-> "bond", capabilities |-> capabilities, max_speed |-> max_speed,
   fan |-> fan, cmd |-> x]

InitBond ==
  \E capabilities \in {{"Fan"}, {"Fan", "Light"}}, max_speed \in MaxSpeeds,
     fan \in [power : 0..1, light : 0..1, speed : {0, 1, 3}] :
    \/ \E on \in BOOLEAN :
         input = Bond(capabilities, max_speed, fan, [kind |-> "SetPower", on |-> on])
    \/ \E v \in Levels :
         input = Bond(capabilities, max_speed, fan, [kind |-> "SetFanSpeed", speed |-> v])
    \/ /\ "Light" \in capabilities
       /\ \E x \in Patches :
            x.power # None /\ input = Bond(capabilities, max_speed, fan, x)

(* Two frames of one form, and the ends of the first two of three reads.   *)
FramesOf(form) ==
  {T!BuildFrame(form, n) : n \in Payloads}
  \cup {[T!BuildFrame(form, 12) EXCEPT !.intact = FALSE]}

InitFrames ==
  \E form \in T!Forms : \E f, g \in FramesOf(form) :
    \E i \in 0..T!StreamLen(<<f, g>>) : \E j \in i..T!StreamLen(<<f, g>>) :
      input = [topic |-> "frames", form |-> form, stream |-> <<f, g>>,
               reads |-> <<i, j, T!StreamLen(<<f, g>>)>>]

(* The commands only the conversion to a DTO and back is about.            *)
InitDto ==
    \/ \E v \in BOOLEAN :
         input = [topic |-> "dto", cmd |-> [kind |-> "SetDpBool", dp |-> 1, value |-> v]]
    \/ \E k \in {"SetDpInt", "SetDpStr"}, v \in {0, 7} :
         input = [topic |-> "dto", cmd |-> [kind |-> k, dp |-> 1, value |-> v]]
    \/ \E head \in OrNone({1}) :
         input = [topic |-> "dto", cmd |-> [kind |-> "SendIr", head |-> head, key |-> 2]]

Init == InitTuya \/ InitPatch \/ InitBond \/ InitFrames \/ InitDto
Next == UNCHANGED input
Spec == Init /\ [][Next]_input

-----------------------------------------------------------------------------
(* The command a routine sends after its editor was shown it as a DTO.     *)
Stored(cmd) == C!FromDto(C!ToDto(cmd))

(* A device that is sent a command, written as a DTO and read again,       *)
(* reports through the same map the value that was set: power and speeds   *)
(* exactly, a brightness and a colour temperature within one step of the   *)
(* device's range, a colour within 5 per byte; and a patch leaves a light  *)
(* in the mode that shows what it set (command_to_dps, patch_light_dps and *)
(* apply_dps of synaptex-tuya, the actions and polls of synaptex-bond, the *)
(* conversions of rest/dto.rs).                                            *)
CommandsReadBack ==
  /\ input.topic = "tuya" => D!Shows(D!FromProfile[input.profile], input.cmd)
  /\ input.topic = "patch" => D!PatchShows(D!FromProfile[input.profile], input.cmd)
  /\ input.topic = "bond" =>
       B!BondShows(input.capabilities, input.max_speed, input.fan, input.cmd)
  /\ input.topic \in {"patch", "dto"} => Stored(input.cmd) = input.cmd

(* However the network cuts the bytes of two frames, recv_state's reads    *)
(* end with the same frames taken, and nothing of a damaged one is.        *)
FramesWhole ==
  input.topic = "frames" =>
    T!AfterReads(input.form, input.stream, input.reads) = T!Expected(input.stream)

(* A comment of apply_dps: cutting a fan's power shows the fan off.        *)
CutFanIsOff ==
  input.topic = "tuya" /\ input.profile = "fan" =>
    \A speed \in {"1", "2", "3"} :
      D!ApplyDps(D!FanMap, (1 :> FALSE) @@ (3 :> speed), D!BlankState).fan_speed = "Off"

(* mode_dp's comment: white commands set the mode to white.                *)
WhiteCommandsSetMode ==
  (input.topic = "tuya" /\ input.cmd.kind \in {"SetBrightness", "SetColorTemp"}
     /\ D!FromProfile[input.profile].mode # None) =>
    D!ReadBack(D!FromProfile[input.profile], input.cmd,
               [D!BlankState EXCEPT !.mode = "colour"]).mode = "white"

(* parse_frame's comment: malformed data is an error.                      *)
MalformedIsAnError ==
  input.topic = "frames" =>
    \A fr \in FramesOf("Crc") : \A n \in 0..T!TotalFrame(fr) :
      T!ParseFrame(fr, n, "Hmac").kind # "panic"

(* A Bond device shows the power a SetPower set.                           *)
BondPowerShows ==
  (input.topic = "bond" /\ input.cmd.kind = "SetPower") =>
    B!BondReadBack(input.capabilities, input.max_speed, input.fan, input.cmd).power
      = input.cmd.on
=============================================================================
