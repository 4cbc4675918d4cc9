-------------------------------- MODULE DpMap --------------------------------
(***************************************************************************)
(* Tuya data points (DPs): the maps of synaptex-tuya/dp_map.rs from the    *)
(* DPs of a device to the fields of DeviceState, what a report changes in  *)
(* a state (apply_dps) and the DPs a command sets (command_to_dps).        *)
(*                                                                         *)
(* A dps object is a function from DP numbers to values of the DP's own    *)
(* type; a colour string is the numbers its hex digits stand for.  The     *)
(* f32 arithmetic of the code is exact here: at a tie of a rounding the    *)
(* code may end one lower.                                                 *)
(***************************************************************************)
EXTENDS Integers, FiniteSets, Sequences, TLC

CONSTANT None   \* the Option is None

-----------------------------------------------------------------------------
(* The maps.                                                               *)

SwitchMap ==
  [power |-> 1, brightness |-> None, color_temp |-> None, color |-> None,
   mode |-> None, color_format |-> "Hsv16", brightness_min |-> 0,
   brightness_max |-> 1000, color_temp_min |-> 0, color_temp_max |-> 1000,
   fan_speed |-> None, light_power |-> None, fan_speed_format |-> "Named",
   ir_send |-> None, ir_control_type |-> None, temp_current |-> None,
   temp_set |-> None, temp_calibration |-> None]

BulbA ==
  [SwitchMap EXCEPT !.brightness = 3, !.color_temp = 4, !.color = 5, !.mode = 2,
     !.color_format = "Rgb8", !.brightness_min = 25, !.brightness_max = 255,
     !.color_temp_max = 255]

BulbB ==
  [SwitchMap EXCEPT !.power = 20, !.brightness = 22, !.color_temp = 23,
     !.color = 24, !.mode = 21, !.brightness_min = 10]

FanMap ==
  [SwitchMap EXCEPT !.fan_speed = 3, !.light_power = 9, !.fan_speed_format = "Numeric"]

ThermostatMap == [SwitchMap EXCEPT !.temp_set = 14, !.temp_calibration = 20]

IrType1 == [SwitchMap EXCEPT !.ir_send = 201, !.ir_control_type = 1]
IrType2 == [SwitchMap EXCEPT !.ir_send = 1, !.ir_control_type = 2]

(* from_profile; any other name is a bulb_b.                               *)
FromProfile ==
  [bulb_a |-> BulbA, bulb_b |-> BulbB, switch |-> SwitchMap, fan |-> FanMap,
   thermostat |-> ThermostatMap, ir1 |-> IrType1, ir2 |-> IrType2]

Profiles == DOMAIN FromProfile

(* The capabilities a map implies.                                         *)
Capabilities(m) ==
  {"Power"}
  \cup (IF {m.light_power, m.brightness, m.color_temp, m.color} # {None}
        THEN {"Light"} ELSE {})
  \cup (IF m.brightness # None THEN {"Dimmer"} ELSE {})
  \cup (IF m.color_temp # None THEN {"ColorTemp"} ELSE {})
  \cup (IF m.color # None THEN {"Rgb"} ELSE {})
  \cup (IF m.fan_speed # None THEN {"Fan"} ELSE {})
  \cup (IF m.ir_send # None THEN {"Ir"} ELSE {})
  \cup (IF m.temp_set # None THEN {"Thermostat"} ELSE {})

-----------------------------------------------------------------------------
(* Ranges.                                                                 *)

AtLeast(low, x) == IF x < low THEN low ELSE x
AtMost(high, x) == IF x > high THEN high ELSE x

(* f32::round of num / den.                                                *)
Round(num, den) == (2 * num + den) \div (2 * den)

NormalizeBrightness(m, native) ==
  IF m.brightness_max = m.brightness_min THEN 0
  ELSE Round(1000 * AtLeast(0, native - m.brightness_min),
             m.brightness_max - m.brightness_min)

(* Mutant of DenormalizeBrightness: the minimum is left out.               *)
DenormalizeFromZero(m, b) == Round(b * m.brightness_max, 1000)

DenormalizeBrightness(m, b) ==
  Round(b * (m.brightness_max - m.brightness_min) + 1000 * m.brightness_min, 1000)

NativeToKelvin(m, native) ==
  LET range == AtLeast(1, m.color_temp_max - m.color_temp_min) IN
    AtLeast(0, Round(6500 * range - 3800 * AtLeast(0, native - m.color_temp_min), range))

KelvinToNative(m, k) ==
  LET scaled == (6500 - k) * (m.color_temp_max - m.color_temp_min)
                + 3800 * m.color_temp_min
  IN Round(AtMost(3800 * m.color_temp_max, AtLeast(3800 * m.color_temp_min, scaled)), 3800)

-----------------------------------------------------------------------------
(* Colours.                                                                *)

Rgb(r, g, b) == <<r, g, b>>
Largest(c) == AtLeast(c[1], AtLeast(c[2], c[3]))
Smallest(c) == AtMost(c[1], AtMost(c[2], c[3]))

(* Mutant of Hue: a negative hue is not brought into the circle.           *)
HueHalf(c) ==
  LET diff == Largest(c) - Smallest(c) IN
    IF diff = 0 THEN 0
    ELSE IF Largest(c) = c[1] THEN AtLeast(0, Round(60 * (c[2] - c[3]), diff))
    ELSE IF Largest(c) = c[2] THEN Round(60 * (c[3] - c[1]) + 120 * diff, diff)
    ELSE Round(60 * (c[1] - c[2]) + 240 * diff, diff)

(* rgb_to_hsv's hue in degrees, rounded as it is written.                  *)
Hue(c) ==
  LET diff == Largest(c) - Smallest(c)
      turn == IF c[2] < c[3] THEN 360 * diff ELSE 0
  IN IF diff = 0 THEN 0
     ELSE IF Largest(c) = c[1] THEN Round(60 * (c[2] - c[3]) + turn, diff)
     ELSE IF Largest(c) = c[2] THEN Round(60 * (c[3] - c[1]) + 120 * diff, diff)
     ELSE Round(60 * (c[1] - c[2]) + 240 * diff, diff)

(* Saturation and value, written with the given scale.                     *)
Saturation(c, scale) ==
  IF Largest(c) = 0 THEN 0 ELSE Round(scale * (Largest(c) - Smallest(c)), Largest(c))
Brightest(c, scale) == Round(scale * Largest(c), 255)

(* The colour DP's string: rgb_to_hex_rgb8 and rgb_to_hex_hsv16.           *)
ColorHex(format, c) ==
  IF format = "Rgb8"
  THEN [rgb |-> c, hsv |-> <<Hue(c), Saturation(c, 255), Brightest(c, 255)>>]
  ELSE [rgb |-> <<>>, hsv |-> <<Hue(c), Saturation(c, 1000), Brightest(c, 1000)>>]

(* hsv_to_rgb of degrees and thousandths; "as u8" cuts the fraction off.   *)
HsvToRgb(h, s, v) ==
  LET f == h % 60
      Byte(x) == (17 * v * (60000 - x * s)) \div 4000000  \* 255 / 60000000
      top == Byte(0)
      p == Byte(60)
      q == Byte(f)
      t == Byte(60 - f)
  IN CASE (h \div 60) % 6 = 0 -> Rgb(top, t, p)
       [] (h \div 60) % 6 = 1 -> Rgb(q, top, p)
       [] (h \div 60) % 6 = 2 -> Rgb(p, top, t)
       [] (h \div 60) % 6 = 3 -> Rgb(p, q, top)
       [] (h \div 60) % 6 = 4 -> Rgb(t, p, top)
       [] OTHER               -> Rgb(top, p, q)

(* parse_color_hex.                                                        *)
ParseColor(format, hex) ==
  IF format = "Rgb8" THEN hex.rgb ELSE HsvToRgb(hex.hsv[1], hex.hsv[2], hex.hsv[3])

-----------------------------------------------------------------------------
(* From a report to a state.                                               *)

BlankState ==
  [power |-> None, brightness |-> None, color_temp_k |-> None, rgb |-> None,
   mode |-> None, fan_speed |-> None, temp_current |-> None, temp_set |-> None,
   temp_calibration |-> None]

Speeds(format) ==
  IF format = "Named" THEN [Low |-> "low", Medium |-> "middle", High |-> "high"]
                      ELSE [Low |-> "1", Medium |-> "2", High |-> "3"]

(* The speed a string stands for; an unknown one is Low.                   *)
SpeedOf(format, s) ==
  LET named == {x \in {"Low", "Medium", "High"} : Speeds(format)[x] = s} IN
    IF named = {} THEN "Low" ELSE CHOOSE x \in named : TRUE

(* The field a DP is read into: read, if the report has the DP.            *)
Taken(dps, dp, old, read) == IF dp \in DOMAIN dps THEN read ELSE old

(* apply_dps.  The power DP is the light's unless the light has its own;   *)
(* cutting a fan's power turns the fan off, and the speed DP of the same   *)
(* report is read after that.                                              *)
ApplyDps(m, dps, st) ==
  LET AsIs(dp, old) == Taken(dps, dp, old, dps[dp])
      power == IF m.light_power = None THEN AsIs(m.power, st.power) ELSE st.power
      cut == m.fan_speed # None /\ m.power \in DOMAIN dps /\ ~dps[m.power]
      fan == IF cut THEN "Off" ELSE st.fan_speed
  IN [power |-> AsIs(m.light_power, power),
      brightness |-> Taken(dps, m.brightness, st.brightness,
                           NormalizeBrightness(m, dps[m.brightness])),
      color_temp_k |-> Taken(dps, m.color_temp, st.color_temp_k,
                             NativeToKelvin(m, dps[m.color_temp])),
      rgb |-> Taken(dps, m.color, st.rgb, ParseColor(m.color_format, dps[m.color])),
      mode |-> AsIs(m.mode, st.mode),
      fan_speed |-> Taken(dps, m.fan_speed, fan,
                          SpeedOf(m.fan_speed_format, dps[m.fan_speed])),
      temp_current |-> AsIs(m.temp_current, st.temp_current),
      temp_set |-> AsIs(m.temp_set, st.temp_set),
      temp_calibration |-> AsIs(m.temp_calibration, st.temp_calibration)]

-----------------------------------------------------------------------------
(* From a command to the DPs it sets.                                      *)

Light(m) == IF m.light_power = None THEN m.power ELSE m.light_power

BrightnessDps(m, b) ==
  (IF m.brightness = None THEN 22 ELSE m.brightness) :> DenormalizeBrightness(m, b)

ColorTempDps(m, k) ==
  (IF m.color_temp = None THEN 23 ELSE m.color_temp) :> KelvinToNative(m, k)

ModeDps(m, mode) == IF m.mode = None THEN <<>> ELSE m.mode :> mode
ColorDps(m, c) == IF m.color = None THEN <<>> ELSE m.color :> ColorHex(m.color_format, c)

RgbDps(m, c) == IF m.color = None THEN None ELSE ColorDps(m, c) @@ ModeDps(m, "colour")

FanSpeedDps(m, speed) ==
  IF m.fan_speed = None THEN None
  ELSE IF speed = "Off" THEN m.power :> FALSE
  ELSE (m.power :> TRUE) @@ (m.fan_speed :> Speeds(m.fan_speed_format)[speed])

(* The strings of type 1 are one JSON blob.                                *)
IrDps(m, head, key) ==
  IF m.ir_send = None THEN None
  ELSE IF m.ir_control_type \in {1, None} THEN m.ir_send :> <<head, key>>
  ELSE (2 :> "send_ir") @@ (8 :> key) @@ (IF head = None THEN <<>> ELSE 7 :> head)

(* Mutant of LightMode: white commands do not leave the colour mode.       *)
LightModeRgb(x) == IF x.mode # None THEN x.mode ELSE IF x.rgb # None THEN "colour" ELSE None

(* The mode a SetLight sets: its own, else what its fields imply.          *)
LightMode(x) ==
  IF x.mode # None THEN x.mode
  ELSE IF x.rgb # None THEN "colour"
  ELSE IF x.brightness # None \/ x.color_temp # None THEN "white"
  ELSE None

(* patch_light_dps: the DPs of the fields that are there.                  *)
PatchLightDps(m, x) ==
  (IF x.power = None THEN <<>> ELSE Light(m) :> x.power)
  @@ (IF x.rgb = None THEN <<>> ELSE ColorDps(m, x.rgb))
  @@ (IF x.brightness = None THEN <<>> ELSE BrightnessDps(m, x.brightness))
  @@ (IF x.color_temp = None THEN <<>> ELSE ColorTempDps(m, x.color_temp))
  @@ (IF LightMode(x) = None THEN <<>> ELSE ModeDps(m, LightMode(x)))

(* command_to_dps; None is a command the device does not support.          *)
CommandToDps(m, x) ==
  CASE x.kind = "SetPower"      -> Light(m) :> x.on
    [] x.kind = "SetBrightness" -> BrightnessDps(m, x.value)
    [] x.kind = "SetColorTemp"  -> ColorTempDps(m, x.value)
    [] x.kind = "SetRgb"        -> RgbDps(m, x.rgb)
    [] x.kind \in {"SetSwitch", "SetDp"} -> x.dp :> x.value
    [] x.kind = "SendIr"        -> IrDps(m, x.head, x.key)
    [] x.kind = "SetFanSpeed"   -> FanSpeedDps(m, x.speed)
    [] x.kind = "SetTargetTemp" -> IF m.temp_set = None THEN None ELSE m.temp_set :> x.value
    [] x.kind = "SetLight"      ->
         IF DOMAIN PatchLightDps(m, x) = {} THEN None ELSE PatchLightDps(m, x)

-----------------------------------------------------------------------------
(* What the properties compare.                                            *)

Near(x, y, distance) == x - y \in -distance..distance

(* The state a device in the state st reports after a command.             *)
ReadBack(m, x, st) == ApplyDps(m, CommandToDps(m, x), st)

(* The state shows what a single command set: a white within one step of   *)
(* the DP's range, the bytes of a colour within 5, as dp_map.rs's tests    *)
(* allow for one colour, anything else exactly.                            *)
Shows(m, x) ==
  LET st == ReadBack(m, x, BlankState) IN
    CASE x.kind = "SetPower" -> st.power = x.on
      [] x.kind = "SetBrightness" ->
           Near(st.brightness, x.value, 1 + 500 \div (m.brightness_max - m.brightness_min))
      [] x.kind = "SetColorTemp" ->
           Near(st.color_temp_k, x.value, 1 + 1900 \div (m.color_temp_max - m.color_temp_min))
      [] x.kind = "SetRgb" -> \A i \in 1..3 : Near(st.rgb[i], x.rgb[i], 5)
      [] x.kind = "SetFanSpeed" -> st.fan_speed = x.speed
      [] x.kind = "SetTargetTemp" -> st.temp_set = x.value
      [] OTHER -> TRUE

PatchFields == {"power", "brightness", "color_temp", "rgb", "mode"}

(* A patch leaves a light that was in the colour mode in the mode that     *)
(* shows what it set: the explicit one, "colour" after a colour, "white"   *)
(* after a brightness or a temperature; the power alone leaves the mode.   *)
PatchShows(m, x) ==
  LET asked == {f \in PatchFields : x[f] # None}
      st == ReadBack(m, x, [BlankState EXCEPT !.mode = "colour"])
  IN IF asked = {} THEN CommandToDps(m, x) = None
     ELSE /\ x.power # None => st.power = x.power
          /\ st.mode = CASE x.mode # None -> x.mode
                         [] x.mode = None /\ asked \subseteq {"power", "rgb"} -> "colour"
                         [] x.mode = None /\ "rgb" \in asked -> "colour"
                         [] OTHER -> "white"
=============================================================================
