---------------------------- MODULE FrigidaireAC ----------------------------
(***************************************************************************)
(* FrigidaireACClimate (src/workshop/esphome/my_components/frigidaire_ac): *)
(* only power is a toggle here; modes have commands of their own, and the  *)
(* fan speed is set by steps that stop at the ends.  The power readings do *)
(* not tell a unit that is off from one that idles.                        *)
(***************************************************************************)
EXTENDS ClimateIRPower

CONSTANT Requests    \* the calls of control() that are made, a subset of Calls

Speeds == <<"LOW", "MEDIUM", "HIGH">>
Fans == {"AUTO", "LOW", "MEDIUM", "HIGH"}
Calls == [mode : Modes \cup {Unset}, preset : Presets \cup {Unset},
          temp : Temps \cup {0}, fan : Fans \cup {Unset}]

Commands == {"POWER", "MODE_ESAVE", "MODE_FAN", "MODE_COOL", "TEMP_UP", "TEMP_DOWN",
             "FAN_UP", "FAN_DOWN", "FAN_AUTO"}

-----------------------------------------------------------------------------
(* The unit (external): what the component assumes of it.  Off, it only    *)
(* hears POWER.  A step of the fan leaves the automatic speed at its end.  *)

Units == [on : BOOLEAN, cools : BOOLEAN, eco : BOOLEAN, temp : Temps,
          speed : 1..3, auto : BOOLEAN]

Press(u, cmd, n) ==
  CASE n = 0 -> u
    [] n > 0 /\ cmd = "POWER" -> [u EXCEPT !.on = ~@, !.temp = PowerOnTemp]
    [] n > 0 /\ cmd = "MODE_COOL" /\ u.on ->
         [u EXCEPT !.cools = TRUE, !.eco = FALSE,
                   !.temp = IF u.cools THEN @ ELSE PowerOnTemp]
    [] n > 0 /\ cmd = "MODE_ESAVE" /\ u.on ->
         [u EXCEPT !.cools = TRUE, !.eco = TRUE,
                   !.temp = IF u.cools THEN @ ELSE PowerOnTemp]
    [] n > 0 /\ cmd = "MODE_FAN" /\ u.on -> [u EXCEPT !.cools = FALSE, !.eco = FALSE]
    [] n > 0 /\ cmd \in {"TEMP_UP", "TEMP_DOWN"} /\ u.on /\ u.cools -> TempPress(u, cmd, n)
    [] n > 0 /\ cmd = "FAN_UP" /\ u.on ->
         [u EXCEPT !.speed = IF @ + n > 3 THEN 3 ELSE @ + n, !.auto = FALSE]
    [] n > 0 /\ cmd = "FAN_DOWN" /\ u.on ->
         [u EXCEPT !.speed = IF @ - n < 1 THEN 1 ELSE @ - n, !.auto = FALSE]
    [] n > 0 /\ cmd = "FAN_AUTO" /\ u.on -> [u EXCEPT !.auto = TRUE]
    [] OTHER -> u

(* The power it draws, by the ranges the component tells apart.            *)
Readings(u) ==
  CASE ~u.on -> {"standby"}
    [] u.on /\ ~u.cools -> {"fan"}
    [] u.on /\ u.cools /\ ~u.eco -> {"fan", "cool"}
    [] u.on /\ u.cools /\ u.eco -> {"standby", "fan", "cool"}

-----------------------------------------------------------------------------

(* Mistake: POWER switches the unit off only, never on.                    *)
NeverOn(c) == Silent
PowerOn(c) == FrameIf(mode = "OFF", "POWER")

(* The commands for a new mode or preset.                                  *)
ModeFrames(c) ==
  LET command == CASE NewPreset(c) = "ECO" -> "MODE_ESAVE"
                   [] NewPreset(c) # "ECO" /\ NewMode(c) = "COOL" -> "MODE_COOL"
                   [] NewPreset(c) # "ECO" /\ NewMode(c) = "FAN_ONLY" -> "MODE_FAN"
                   [] NewPreset(c) # "ECO" /\ NewMode(c) = "OFF" -> "POWER"
  IN  IF Switches(c) THEN <<PowerOn(c), Frame(command, 1), Silent>>
      ELSE <<Silent, Silent, Silent>>

(* Mistake: one step short of the end.                                     *)
FewSteps == Len(Speeds) - 2
(* Enough steps to reach the end from anywhere.                            *)
AllSteps == Len(Speeds)

FanFrames(c) ==
  CASE c.fan = "AUTO" -> <<Frame("FAN_DOWN", 1), Frame("FAN_AUTO", 1)>>
    [] c.fan = "HIGH" -> <<Frame("FAN_UP", AllSteps), Silent>>
    [] c.fan = "MEDIUM" -> <<Frame("FAN_DOWN", AllSteps), Frame("FAN_UP", 1)>>
    [] c.fan = "LOW" -> <<Frame("FAN_DOWN", AllSteps), Silent>>
    [] OTHER -> <<Silent, Silent>>

Control(c) ==
  /\ calls < MaxCalls
  /\ calls' = calls + 1
  /\ Believe(c)
  /\ Transmit(Press, AllFrames(ModeFrames(c), TempFrames(c), FanFrames(c)))
  /\ Outdates(Readings(unit))

(* The front button of livingroom-ac.yaml.                                 *)
Button == Control([mode |-> IF mode # "OFF" THEN "OFF" ELSE "COOL",
                   preset |-> Unset, temp |-> 0, fan |-> Unset])

(* The callback of the power sensor, for one reading.  A unit that draws   *)
(* little is off or idle, whatever the component believes.                 *)
Learn(p, update) ==
  /\ action' = CASE p = "cool" -> "COOLING"
                 [] p = "fan" -> "FAN"
                 [] p = "standby" /\ mode = "OFF" -> "OFF"
                 [] p = "standby" /\ mode # "OFF" -> "IDLE"
  /\ mode' = CASE update /\ p = "cool" -> "COOL"
               [] update /\ p = "fan" /\ mode = "OFF" -> "FAN_ONLY"
               [] OTHER -> mode
  /\ UNCHANGED <<preset, fan, target, targetF>>

(* A reading that shows that the unit is on counts.                        *)
Sense ==
  /\ now' = (now + 1) % Wrap
  /\ age' = IF age <= Lag THEN age + 1 ELSE age
  /\ \/ \E p \in Readings(unit) :
          /\ Learn(p, UpdateMode(now'))
          /\ seen' = (seen \/ (UpdateMode(now') /\ age' > Lag /\ p # "standby"))
     \/ /\ age' <= Lag
        /\ \E p \in {stale} \ {"between"} : Learn(p, UpdateMode(now'))
        /\ UNCHANGED seen
  /\ UNCHANGED <<last, unit, stale, clean, calls, troubles>>

Init ==
  /\ \E u \in Units :
       /\ u.cools /\ ~u.eco /\ u.temp = PowerOnTemp /\ ~u.auto /\ unit = u
       /\ mode = IF u.on THEN "COOL" ELSE "OFF"
       /\ fan = Speeds[u.speed]
  /\ preset = "NONE" /\ action = "OFF"
  /\ target \in Temps /\ targetF = 0
  /\ last = 0 /\ now = 0
  /\ stale = "between" /\ age = Lag + 1
  /\ clean = TRUE /\ seen = TRUE
  /\ calls = 0 /\ troubles = 0

Next == \/ \E c \in Requests : Control(c)
        \/ Button
        \/ Sense
        \/ Touch(Press, Commands, Readings(unit))
        \/ Reboot

Spec == Init /\ [][Next]_vars
(* The power sensor has a period of its own.                               *)
FairSpec == Spec /\ WF_vars(Sense)

-----------------------------------------------------------------------------
(* Properties.                                                             *)

TypeOK ==
  /\ mode \in Modes /\ preset \in Presets /\ action \in Actions /\ fan \in Fans
  /\ target \in Temps /\ targetF \in Temps \cup {0}
  /\ last \in 0..(Wrap - 1) /\ now \in 0..(Wrap - 1)
  /\ unit \in Units
  /\ stale \in {"standby", "fan", "cool", "between"} /\ age \in 0..(Lag + 1)
  /\ clean \in BOOLEAN /\ seen \in BOOLEAN
  /\ calls \in 0..MaxCalls /\ troubles \in 0..MaxTroubles

(* As long as every frame arrives, nobody touches the unit and no settling *)
(* time spans the wrap of millis(), the unit is in the mode and at the     *)
(* temperature the component believes, in spite of stale readings and      *)
(* reboots; so a toggle of POWER never goes the wrong way.                 *)
InStep ==
  clean => /\ mode = "OFF" <=> ~unit.on
           /\ mode = "COOL" => unit.cools /\ (preset = "ECO" <=> unit.eco)
           /\ mode = "FAN_ONLY" => ~unit.cools
           /\ mode = "COOL" /\ targetF > 0 => unit.temp = targetF

(* A new fan speed asked for while the unit is on is the speed of the unit:*)
(* counted steps from an unknown speed end where the component says.       *)
FanArrives ==
  clean' /\ mode' # "OFF" /\ fan' # fan
    => IF fan' = "AUTO" THEN unit'.auto ELSE Speeds[unit'.speed] = fan'
FanReached == [][FanArrives]_vars

(* After one fresh reading outside a settling time that shows the unit     *)
(* running, the component knows whether it is on, through all its later    *)
(* commands, until a frame is lost or somebody touches the unit.           *)
PowerKnown == seen => (mode = "OFF" <=> ~unit.on)

(* When calls and troubles end, that reading comes, if the unit is on and  *)
(* not in e-save.  (No reading ever tells the component that it is off.)   *)
Unknowable == ~unit.on \/ unit.eco
Learns == <>[](seen \/ Blind \/ Unknowable)
=============================================================================
