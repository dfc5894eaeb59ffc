--------------------------- MODULE ClimateIRPower ---------------------------
(***************************************************************************)
(* climate_ir_power (src/workshop/esphome/my_components): what the two air *)
(* conditioner components share.  The component drives a unit through a    *)
(* one-way infrared link, mostly with toggles, keeps a belief about it and *)
(* corrects the belief from the power the unit draws, except for a settling*)
(* time after each command, when the reading may still be an old one.      *)
(*                                                                         *)
(* KenmoreAC and FrigidaireAC extend this module with their commands, what *)
(* they make of a reading, and the unit (external).  A unit of time is one *)
(* period of the power sensor; temperatures are whole degrees Fahrenheit   *)
(* (the conversions to Celsius and back give the same degree for the whole *)
(* range of both units).                                                   *)
(***************************************************************************)
EXTENDS Integers, Sequences

CONSTANTS
  TempMin, TempMax,  \* tempf_min_, tempf_max_
  PowerOnTemp,       \* what the unit is set to when it begins to cool
  Settle,            \* power_settling_time_
  Lag,               \* how long a reading may be an old one
  Wrap,              \* millis() wraps to 0 here (2^32 in the program)
  MaxCalls,          \* bound: calls of control()
  MaxTroubles        \* bound: lost frames, presses on the unit, reboots

ASSUME TempAssumption ==
  /\ TempMin \in Nat \ {0} /\ TempMax \in Nat /\ TempMin < TempMax
  /\ PowerOnTemp \in TempMin..TempMax
ASSUME TimeAssumption ==
  /\ Settle \in Nat /\ Lag \in Nat /\ Wrap \in Nat
  /\ Lag <= Settle /\ Settle < Wrap
ASSUME BoundsAssumption == MaxCalls \in Nat /\ MaxTroubles \in Nat

VARIABLES
  mode, preset, action, fan,   \* of climate::Climate
  target,                      \* target_temperature
  targetF,                     \* target_temperature_f, what the unit was sent
  last,                        \* last_change_time_
  now,                         \* millis()
  unit,                        \* the air conditioner
  stale, age,                  \* a reading from before the unit last changed; since when
  clean,                       \* nothing got lost and nobody touched the unit
  seen,                        \* the last change was followed by a reading that counts
  calls, troubles

belief == <<mode, preset, action, fan, target, targetF>>
vars == <<mode, preset, action, fan, target, targetF, last, now, unit, stale, age,
          clean, seen, calls, troubles>>

Modes == {"OFF", "COOL", "FAN_ONLY"}
Presets == {"NONE", "ECO"}
Actions == {"OFF", "COOLING", "FAN", "IDLE"}
Temps == TempMin..TempMax
Unset == "unset"     \* a field the call does not have

-----------------------------------------------------------------------------
(* control(): the parts both components have.                              *)

NewMode(c) == IF c.preset = "ECO" THEN "COOL"
              ELSE IF c.mode # Unset THEN c.mode ELSE mode

NewPreset(c) == IF c.preset # Unset THEN c.preset
                ELSE IF c.mode # Unset THEN "NONE" ELSE preset

Switches(c) == NewMode(c) # mode \/ NewPreset(c) # preset

(* Mistake: what the unit was sent before it was switched off still counts.*)
SentLongAgo(c) == targetF
(* The unit forgets its temperature when it does not cool.                 *)
KnownTemp(c) ==
  IF /\ Switches(c)
     /\ mode = "OFF" \/ (NewPreset(c) = "NONE" /\ NewMode(c) # "COOL")
  THEN 0 ELSE targetF

(* Mistake: a call without a temperature sets one.                         *)
TempOfCall(c) == c.temp
Goal(c) == IF c.temp # 0 THEN c.temp ELSE target
SendsTemp(c) == NewMode(c) = "COOL" /\ Goal(c) # KnownTemp(c)

(* send_ir_: a command and how often it is sent.  A call has seven places  *)
(* for frames: three for the mode, two for the temperature, two for the    *)
(* fan; a place with no frame is silent.                                   *)
Frame(cmd, count) == [cmd |-> cmd, count |-> count]
Silent == Frame("NONE", 0)
FrameIf(cond, cmd) == IF cond THEN Frame(cmd, 1) ELSE Silent

(* From a known temperature, the difference; otherwise first to one end of *)
(* the range, the one that does not change whether the unit cools.         *)
TempFrames(c) ==
  LET goal == Goal(c)
      known == KnownTemp(c)
  IN  CASE ~SendsTemp(c) -> <<Silent, Silent>>
        [] SendsTemp(c) /\ known > 0 /\ goal > known ->
             <<Frame("TEMP_UP", goal - known), Silent>>
        [] SendsTemp(c) /\ known > 0 /\ goal < known ->
             <<Frame("TEMP_DOWN", known - goal), Silent>>
        [] SendsTemp(c) /\ known = 0 /\ action = "COOLING" ->
             <<Frame("TEMP_DOWN", TempMax - TempMin), Frame("TEMP_UP", goal - TempMin)>>
        [] SendsTemp(c) /\ known = 0 /\ action # "COOLING" ->
             <<Frame("TEMP_UP", TempMax - TempMin), Frame("TEMP_DOWN", TempMax - goal)>>

(* What a call leaves in the component.                                    *)
Believe(c) ==
  /\ mode' = NewMode(c)
  /\ preset' = NewPreset(c)
  /\ target' = Goal(c)
  /\ targetF' = IF SendsTemp(c) THEN Goal(c) ELSE KnownTemp(c)
  /\ fan' = IF c.fan # Unset THEN c.fan ELSE fan
  /\ last' = IF Switches(c) \/ c.temp # 0 \/ SendsTemp(c) \/ c.fan # Unset
             THEN now ELSE last
  /\ UNCHANGED <<action, now>>

(* Mistake: the sum is wider than millis().                                *)
WideSum(time) == time > last + Settle
(* update_mode: the sum of two uint32_t wraps like millis().               *)
UpdateMode(time) == time > (last + Settle) % Wrap

(* The settling time of a command sent now reaches beyond the wrap: until  *)
(* millis() wraps, readings count at once.                                 *)
WrapsSoon == now + Settle >= Wrap

(* The one value of the sum that millis() never exceeds.                   *)
Blind == (last + Settle) % Wrap = Wrap - 1

-----------------------------------------------------------------------------
(* The unit and the air in between (external).                             *)

Clamp(t) == IF t > TempMax THEN TempMax ELSE IF t < TempMin THEN TempMin ELSE t

TempPress(u, cmd, n) ==
  [u EXCEPT !.temp = Clamp(IF cmd = "TEMP_UP" THEN @ + n ELSE @ - n)]

AllFrames(modes, temps, fans) ==
  <<modes[1], modes[2], modes[3], temps[1], temps[2], fans[1], fans[2]>>

Receive(Press(_, _, _), u, frames) ==
  LET Hear(v, i) == Press(v, frames[i].cmd, frames[i].count)
  IN  Hear(Hear(Hear(Hear(Hear(Hear(Hear(u, 1), 2), 3), 4), 5), 6), 7)

Lost(frames, i) == [frames EXCEPT ![i].count = 0]

(* The unit gets the frames, or (as often as the bound allows) all but one.*)
Transmit(Press(_, _, _), frames) ==
  \/ /\ unit' = Receive(Press, unit, frames)
     /\ clean' = (clean /\ ~WrapsSoon)
     /\ seen' = (seen /\ ~WrapsSoon)
     /\ UNCHANGED troubles
  \/ /\ troubles < MaxTroubles
     /\ troubles' = troubles + 1
     /\ \E i \in DOMAIN frames :
          frames[i].count > 0 /\ unit' = Receive(Press, unit, Lost(frames, i))
     /\ clean' = FALSE /\ seen' = FALSE

(* A reading from before the change may still come.                        *)
Outdates(readings) ==
  IF unit' # unit THEN stale' \in readings \cup {"between"} /\ age' = 0
                  ELSE UNCHANGED <<stale, age>>

(* Somebody uses the buttons or the remote control of the unit.            *)
Touch(Press(_, _, _), cmds, readings) ==
  /\ troubles < MaxTroubles
  /\ troubles' = troubles + 1
  /\ \E cmd \in cmds : unit' = Press(unit, cmd, 1)
  /\ Outdates(readings)
  /\ clean' = FALSE /\ seen' = FALSE
  /\ UNCHANGED <<belief, last, now, calls>>

(* setup(): the component restarts with what it published last; the        *)
(* counters start at zero.                                                 *)
Reboot ==
  /\ troubles < MaxTroubles
  /\ troubles' = troubles + 1
  /\ action' = "OFF" /\ targetF' = 0 /\ last' = 0 /\ now' = 0
  /\ UNCHANGED <<mode, preset, fan, target, unit, stale, age, clean, seen, calls>>
=============================================================================
