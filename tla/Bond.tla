--------------------------------- MODULE Bond ---------------------------------
(***************************************************************************)
(* A ceiling fan behind a Bond bridge: the action a command becomes        *)
(* (execute_command of synaptex-bond/plugin.rs) and the state a poll reads *)
(* (poll_state).  The bridge keeps the motor, its speed and the light      *)
(* apart; DeviceState has one power field.                                 *)
(***************************************************************************)
EXTENDS Integers

CONSTANTS None,          \* the Option is None
          Unsupported    \* PluginError::UnsupportedCommand

(* Bridges report a handful of speeds; from 128 the code's u8 would wrap.  *)
BondMaxSpeed(max_speed) == IF max_speed < 1 THEN 1 ELSE max_speed

SpeedFromBond(speed, max_speed) ==
  CASE speed = 0 -> "Off"
    [] speed # 0 /\ speed <= BondMaxSpeed(max_speed) \div 3 -> "Low"
    [] speed > BondMaxSpeed(max_speed) \div 3
       /\ speed <= (BondMaxSpeed(max_speed) * 2) \div 3 -> "Medium"
    [] OTHER -> "High"

(* Mutant of SpeedToBond: the steps are taken to be thirds of the range.   *)
SpeedInThirds(speed, max_speed) ==
  [Off |-> 0, Low |-> 1, Medium |-> BondMaxSpeed(max_speed) \div 3,
   High |-> BondMaxSpeed(max_speed)][speed]

(* speed_to_bond; the middle is at least 1 because the range is.           *)
SpeedToBond(speed, max_speed) ==
  [Off |-> 0, Low |-> 1, Medium |-> (BondMaxSpeed(max_speed) + 1) \div 2,
   High |-> BondMaxSpeed(max_speed)][speed]

BondAction(name, argument) == [name |-> name, argument |-> argument]

(* The action of a command; of a SetLight only the power is looked at.     *)
BondActionOf(max_speed, x) ==
  CASE x.kind = "SetPower" -> BondAction(IF x.on THEN "TurnOn" ELSE "TurnOff", None)
    [] x.kind = "SetFanSpeed" /\ x.speed = "Off" -> BondAction("TurnOff", None)
    [] x.kind = "SetFanSpeed" /\ x.speed # "Off" ->
         BondAction("SetSpeed", SpeedToBond(x.speed, max_speed))
    [] x.kind = "SetLight" /\ x.power # None ->
         BondAction(IF x.power THEN "TurnLightOn" ELSE "TurnLightOff", None)
    [] OTHER -> Unsupported

(* The bridge carries an action out; a speed also starts the motor.        *)
BridgeAfter(fan, action) ==
  CASE action.name = "TurnOn"       -> [fan EXCEPT !.power = 1]
    [] action.name = "TurnOff"      -> [fan EXCEPT !.power = 0]
    [] action.name = "SetSpeed"     -> [fan EXCEPT !.power = 1, !.speed = action.argument]
    [] action.name = "TurnLightOn"  -> [fan EXCEPT !.light = 1]
    [] action.name = "TurnLightOff" -> [fan EXCEPT !.light = 0]

(* The fields of the DeviceState a poll of a device with the capabilities  *)
(* answers; all others are None.                                           *)
BondPoll(capabilities, max_speed, fan) ==
  [power |-> IF "Light" \in capabilities THEN fan.light # 0 ELSE fan.power # 0,
   fan_speed |-> IF "Fan" \notin capabilities THEN None
                 ELSE IF fan.power = 0 THEN "Off"
                 ELSE SpeedFromBond(fan.speed, max_speed)]

-----------------------------------------------------------------------------
(* What the properties compare: the poll after a command.                  *)

BondReadBack(capabilities, max_speed, fan, x) ==
  BondPoll(capabilities, max_speed, BridgeAfter(fan, BondActionOf(max_speed, x)))

(* The poll after a command shows what it set, and a fan with a light      *)
(* keeps the half the command is not about.                                *)
BondShows(capabilities, max_speed, fan, x) ==
  LET before == BondPoll(capabilities, max_speed, fan)
      after == BondReadBack(capabilities, max_speed, fan, x)
  IN CASE x.kind = "SetFanSpeed" ->
            /\ after.fan_speed = x.speed
            /\ "Light" \in capabilities => after.power = before.power
       [] x.kind = "SetLight" ->
            after.power = x.power /\ after.fan_speed = before.fan_speed
       [] x.kind = "SetPower" ->
            ("Light" \notin capabilities) => after.power = x.on
=============================================================================
