----------------------------- MODULE KenmoreAC -----------------------------
(***************************************************************************)
(* KenmoreACClimate (src/workshop/esphome/my_components/kenmore_ac): power,*)
(* mode, e-save and fan speed of this unit are all toggles.                *)
(***************************************************************************)
EXTENDS ClimateIRPower

CONSTANT Requests    \* the calls of control() that are made, a subset of Calls

Fans == {"LOW", "HIGH"}
Calls == [mode : Modes \cup {Unset}, preset : Presets \cup {Unset},
          temp : Temps \cup {0}, fan : Fans \cup {Unset}]

Commands == {"POWER", "MODE", "ESAVE", "TEMP_UP", "TEMP_DOWN", "FAN_SPEED"}

-----------------------------------------------------------------------------
(* The unit (external): what the component assumes of it.  Off, it only    *)
(* hears POWER; on again it is in the mode it had, without e-save.         *)

Units == [on : BOOLEAN, cools : BOOLEAN, eco : BOOLEAN, temp : Temps, fan : Fans]

Press(u, cmd, n) ==
  CASE n = 0 -> u
    [] n > 0 /\ cmd = "POWER" -> [u EXCEPT !.on = ~@, !.eco = FALSE, !.temp = PowerOnTemp]
    [] n > 0 /\ cmd = "MODE" /\ u.on ->
         [u EXCEPT !.cools = ~@, !.eco = FALSE, !.temp = PowerOnTemp]
    [] n > 0 /\ cmd = "ESAVE" /\ u.on /\ u.cools -> [u EXCEPT !.eco = ~@]
    [] n > 0 /\ cmd \in {"TEMP_UP", "TEMP_DOWN"} /\ u.on /\ u.cools -> TempPress(u, cmd, n)
    [] n > 0 /\ cmd = "FAN_SPEED" /\ u.on ->
         [u EXCEPT !.fan = IF @ = "LOW" THEN "HIGH" ELSE "LOW"]
    [] OTHER -> u

(* The power it draws, by the ranges the component tells apart; whether the*)
(* compressor runs is up to the room.                                      *)
Readings(u) ==
  IF ~u.on THEN {"off"}
  ELSE {u.fan} \cup (IF u.cools THEN {"cool"} ELSE {})
               \cup (IF u.cools /\ u.eco THEN {"esave"} ELSE {})

-----------------------------------------------------------------------------

(* Mistake: e-save is not left on the way to plain cooling.                *)
KeepsEco(c) == FALSE
LeavesEco(c) == mode # "OFF" /\ preset = "ECO"

(* The commands for a new mode or preset.  After POWER the component takes *)
(* the unit to be cooling.                                                 *)
ModeFrames(c) ==
  LET m == NewMode(c)
      believed == IF mode = "OFF" THEN "COOL" ELSE mode
      eco == mode # "OFF" /\ preset = "ECO"
      power == FrameIf(mode = "OFF", "POWER")
  IN  CASE ~Switches(c) -> <<Silent, Silent, Silent>>
        [] Switches(c) /\ NewPreset(c) = "ECO" ->
             <<power, FrameIf(believed # "COOL", "MODE"), FrameIf(~eco, "ESAVE")>>
        [] Switches(c) /\ NewPreset(c) # "ECO" /\ m = "COOL" ->
             <<power, FrameIf(believed # "COOL", "MODE"), FrameIf(LeavesEco(c), "ESAVE")>>
        [] Switches(c) /\ NewPreset(c) # "ECO" /\ m = "FAN_ONLY" ->
             <<power, FrameIf(believed # "FAN_ONLY", "MODE"), Silent>>
        [] Switches(c) /\ NewPreset(c) # "ECO" /\ m = "OFF" ->
             <<power, FrameIf(believed = "FAN_ONLY", "MODE"), Frame("POWER", 1)>>

FanFrames(c) == <<FrameIf(c.fan # Unset /\ c.fan # fan, "FAN_SPEED"), Silent>>

Control(c) ==
  /\ calls < MaxCalls
  /\ calls' = calls + 1
  /\ Believe(c)
  /\ Transmit(Press, AllFrames(ModeFrames(c), TempFrames(c), FanFrames(c)))
  /\ Outdates(Readings(unit))

(* The callback of the power sensor, for one reading.                      *)
Learn(p, update) ==
  /\ action' = CASE p = "cool" -> "COOLING"
                 [] p \in Fans -> "FAN"
                 [] p = "off" -> "OFF"
                 [] p = "esave" -> "IDLE"
                 [] OTHER -> action
  /\ mode' = CASE update /\ p \in {"cool", "esave"} -> "COOL"
               [] update /\ p = "off" -> "OFF"
               [] update /\ p \in Fans /\ mode = "OFF" -> "FAN_ONLY"
               [] OTHER -> mode
  /\ preset' = CASE update /\ p = "off" -> "NONE"
                 [] update /\ p = "esave" -> "ECO"
                 [] OTHER -> preset
  /\ fan' = IF update /\ p \in Fans /\ preset # "ECO" THEN p ELSE fan
  /\ UNCHANGED <<target, targetF>>

Sense ==
  /\ now' = (now + 1) % Wrap
  /\ age' = IF age <= Lag THEN age + 1 ELSE age
  /\ \/ /\ \E p \in Readings(unit) : Learn(p, UpdateMode(now'))
        /\ seen' = (seen \/ (UpdateMode(now') /\ age' > Lag))
     \/ /\ age' <= Lag
        /\ Learn(stale, UpdateMode(now'))
        /\ UNCHANGED seen
  /\ UNCHANGED <<last, unit, stale, clean, calls, troubles>>

Init ==
  /\ \E u \in Units :
       /\ u.cools /\ ~u.eco /\ unit = u
       /\ mode = IF u.on THEN "COOL" ELSE "OFF"
       /\ fan = u.fan
  /\ preset = "NONE" /\ action = "OFF"
  /\ target \in Temps /\ targetF = 0
  /\ last = 0 /\ now = 0
  /\ stale = "between" /\ age = Lag + 1
  /\ clean = TRUE /\ seen = TRUE
  /\ calls = 0 /\ troubles = 0

Next == \/ \E c \in Requests : Control(c)
        \/ Sense
        \/ Touch(Press, Commands, Readings(unit))
        \/ Reboot

Spec == Init /\ [][Next]_vars
(* The power sensor has a period of its own.                               *)
FairSpec == Spec /\ WF_vars(Sense)

-----------------------------------------------------------------------------
(* Properties.                                                             *)

TypeOK ==
  /\ mode \in Modes /\ preset \in Presets /\ action \in Actions /\ fan \in Fans
  /\ target \in Temps /\ targetF \in Temps \cup {0}
  /\ last \in 0..(Wrap - 1) /\ now \in 0..(Wrap - 1)
  /\ unit \in Units
  /\ stale \in Fans \cup {"off", "esave", "cool", "between"} /\ age \in 0..(Lag + 1)
  /\ clean \in BOOLEAN /\ seen \in BOOLEAN
  /\ calls \in 0..MaxCalls /\ troubles \in 0..MaxTroubles

(* As long as every frame arrives, nobody touches the unit and no settling *)
(* time spans the wrap of millis(), the toggles never get out of step with *)
(* the unit: power, mode and e-save are what the component believes, in    *)
(* spite of stale readings and reboots.                                    *)
InStep ==
  clean => /\ mode = "OFF" <=> ~unit.on
           /\ mode = "COOL" => unit.cools
           /\ mode = "FAN_ONLY" => ~unit.cools
           /\ mode # "OFF" => (preset = "ECO" <=> unit.eco)

(* So is the temperature, once it was sent: relative steps add up.         *)
TempInStep == clean /\ mode = "COOL" /\ targetF > 0 => unit.temp = targetF

(* Whatever was lost or pressed: after one fresh reading outside a settling*)
(* time the component knows whether the unit is on, and commands sent from *)
(* then on keep it so (POWER is never sent the wrong way round).           *)
PowerKnown == seen => (mode = "OFF" <=> ~unit.on)

(* That reading comes when the calls and the troubles end, unless the last *)
(* command was sent at the one instant from which millis() never exceeds   *)
(* the end of the settling time.                                           *)
Learns == <>[](seen \/ Blind)
=============================================================================
