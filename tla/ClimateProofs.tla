---------------------------- MODULE ClimateProofs ----------------------------
(***************************************************************************)
(* Proofs about the two air conditioner components (KenmoreAC and          *)
(* FrigidaireAC), for any range of temperatures, settling time, lag, wrap  *)
(* of millis(), and any number of calls and troubles.                      *)
(*                                                                         *)
(* What both take over from ClimateIRPower comes first: the belief a call  *)
(* leaves, the commands for the temperature, and the clock, which tells why*)
(* a reading that lags is not taken at its word.  Then, for each component,*)
(* what its toggles do to the unit, one place of a call's frames at a time.*)
(***************************************************************************)
EXTENDS Climates, TLAPS

(* What the component believes.  Only what cools saves energy.             *)
Belief ==
  /\ mode \in Modes /\ preset \in Presets /\ action \in Actions
  /\ target \in Temps /\ targetF \in Temps \cup {0}
  /\ preset = "ECO" => mode = "COOL"

(* While a reading may be an old one, less time has passed since the last  *)
(* command than since the unit changed, and the settling time ends before  *)
(* millis() wraps.                                                         *)
Timely == (clean \/ seen) /\ age <= Lag => /\ last + Settle < Wrap
                                           /\ last <= now /\ now - last <= age
Clock ==
  /\ last \in 0..(Wrap - 1) /\ now \in 0..(Wrap - 1) /\ age \in 0..(Lag + 1)
  /\ clean \in BOOLEAN /\ seen \in BOOLEAN
  /\ Timely

Counts(max) == calls \in 0..max /\ troubles \in 0..MaxTroubles

(* The unit is on or off as the component takes it to be.                  *)
Powered(m, u) == m = "OFF" <=> ~u.on

AnyCall(fans) == [mode : Modes \cup {Unset}, preset : Presets \cup {Unset},
                  temp : Temps \cup {0}, fan : fans \cup {Unset}]

-----------------------------------------------------------------------------
(* What a call leaves in the component.                                    *)

LEMMA CallGoals ==
  ASSUME Belief, NEW F, NEW c \in AnyCall(F)
  PROVE  /\ NewMode(c) \in Modes /\ NewPreset(c) \in Presets
         /\ NewPreset(c) = "ECO" => NewMode(c) = "COOL"
         /\ Goal(c) \in Temps /\ KnownTemp(c) \in Temps \cup {0}
         /\ ~Switches(c) => NewMode(c) = mode /\ NewPreset(c) = preset /\ KnownTemp(c) = targetF
         /\ KnownTemp(c) > 0 => KnownTemp(c) = targetF
         /\ KnownTemp(c) > 0 /\ Switches(c) => mode # "OFF"
<1>1. /\ c.mode \in Modes \cup {Unset} /\ c.preset \in Presets \cup {Unset}
      /\ c.temp \in Temps \cup {0}
  BY DEF AnyCall
<1>2. NewMode(c) \in Modes /\ NewPreset(c) \in Presets
  BY <1>1 DEF Belief, NewMode, NewPreset, Modes, Presets, Unset
<1>3. NewPreset(c) = "ECO" => NewMode(c) = "COOL"
  BY <1>1 DEF Belief, NewMode, NewPreset, Modes, Presets, Unset
<1>4. Goal(c) \in Temps /\ KnownTemp(c) \in Temps \cup {0}
  BY <1>1 DEF Belief, Goal, KnownTemp
<1>5. ~Switches(c) => NewMode(c) = mode /\ NewPreset(c) = preset /\ KnownTemp(c) = targetF
  BY DEF Switches, KnownTemp
<1>6. KnownTemp(c) > 0 => KnownTemp(c) = targetF /\ (Switches(c) => mode # "OFF")
  BY DEF KnownTemp
<1> QED
  BY <1>2, <1>3, <1>4, <1>5, <1>6

(* A call leaves a belief of the right types, and e-save only with cooling.*)
LEMMA BelieveKeeps ==
  ASSUME Belief, NEW F, NEW c \in AnyCall(F), Believe(c), fan \in F
  PROVE  Belief' /\ fan' \in F
<1>1. /\ mode' = NewMode(c) /\ preset' = NewPreset(c) /\ target' = Goal(c) /\ action' = action
      /\ targetF' \in {Goal(c), KnownTemp(c)} /\ fan' \in {fan, c.fan}
      /\ fan' = c.fan => c.fan # Unset \/ fan' = fan
  BY DEF Believe
<1>2. fan' \in F
  BY <1>1 DEF AnyCall
<1> QED
  BY <1>1, <1>2, CallGoals DEF Belief

-----------------------------------------------------------------------------
(* The commands for the temperature.                                       *)

Frames(cmds) == [cmd : cmds, count : Nat] \cup {Silent}
TempCommands == {"TEMP_UP", "TEMP_DOWN"}

(* What one of them does to the temperature of a unit that cools.          *)
Warmed(t, f) == IF f.count = 0 THEN t
                ELSE Clamp(IF f.cmd = "TEMP_UP" THEN t + f.count ELSE t - f.count)

(* The two places for the temperature hold temperature commands or nothing;*)
(* nothing if none is sent.                                                *)
LEMMA TempFrameTypes ==
  ASSUME Belief, NEW F, NEW c \in AnyCall(F)
  PROVE  /\ TempFrames(c)[1] \in Frames(TempCommands) /\ TempFrames(c)[2] \in Frames(TempCommands)
         /\ ~SendsTemp(c) => TempFrames(c)[1].count = 0 /\ TempFrames(c)[2].count = 0
<1>1. Goal(c) \in Temps /\ KnownTemp(c) \in Temps \cup {0}
  BY CallGoals
<1> DEFINE goal == Goal(c)
           known == KnownTemp(c)
<1>0. known \in Int /\ goal \in Int
  BY <1>1, TempAssumption DEF Temps
<1>2. CASE ~SendsTemp(c)
  <2>1. TempFrames(c) = <<Silent, Silent>>
    BY <1>2 DEF TempFrames
  <2> QED
    BY <1>2, <2>1 DEF Silent, Frame, Frames
<1>3. CASE SendsTemp(c) /\ known > 0 /\ goal > known
  <2>1. TempFrames(c) = <<Frame("TEMP_UP", goal - known), Silent>>
    BY <1>0, <1>3 DEF TempFrames
  <2>2. goal - known \in Nat
    BY <1>1, <1>3, TempAssumption DEF Temps
  <2> QED
    BY <1>3, <2>1, <2>2 DEF Silent, Frame, Frames, TempCommands
<1>4. CASE SendsTemp(c) /\ known > 0 /\ goal < known
  <2>1. TempFrames(c) = <<Frame("TEMP_DOWN", known - goal), Silent>>
    BY <1>0, <1>4 DEF TempFrames
  <2>2. known - goal \in Nat
    BY <1>1, <1>4, TempAssumption DEF Temps
  <2> QED
    BY <1>4, <2>1, <2>2 DEF Silent, Frame, Frames, TempCommands
<1>5. CASE SendsTemp(c) /\ known = 0
  <2>1. TempFrames(c) \in
           {<<Frame("TEMP_DOWN", TempMax - TempMin), Frame("TEMP_UP", goal - TempMin)>>,
            <<Frame("TEMP_UP", TempMax - TempMin), Frame("TEMP_DOWN", TempMax - goal)>>}
    BY <1>5 DEF TempFrames
  <2>2. TempMax - TempMin \in Nat /\ goal - TempMin \in Nat /\ TempMax - goal \in Nat
    BY <1>1, TempAssumption DEF Temps
  <2> QED
    BY <1>5, <2>1, <2>2 DEF Frame, Frames, TempCommands
<1>6. SendsTemp(c) => goal # known
  BY DEF SendsTemp
<1>7. known = 0 \/ known > 0
  BY <1>1, TempAssumption DEF Temps
<1>8. goal > known \/ goal < known \/ goal = known
  BY <1>1, TempAssumption DEF Temps
<1> QED
  BY <1>2, <1>3, <1>4, <1>5, <1>6, <1>7, <1>8

(* From the temperature that is known, or from any, the unit gets to the   *)
(* one that was asked for.                                                 *)
LEMMA TempArrives ==
  ASSUME Belief, NEW F, NEW c \in AnyCall(F), NEW t \in Temps,
         SendsTemp(c), KnownTemp(c) > 0 => t = KnownTemp(c)
  PROVE  Warmed(Warmed(t, TempFrames(c)[1]), TempFrames(c)[2]) = Goal(c)
<1>1. Goal(c) \in Temps /\ KnownTemp(c) \in Temps \cup {0} /\ Goal(c) # KnownTemp(c)
  BY CallGoals DEF SendsTemp
<1> DEFINE goal == Goal(c)
           known == KnownTemp(c)
<1>2. /\ goal \in Int /\ known \in Int /\ t \in Int /\ TempMin \in Int /\ TempMax \in Int
      /\ TempMin <= goal /\ goal <= TempMax /\ TempMin <= t /\ t <= TempMax
      /\ TempMin < TempMax
      /\ known = 0 \/ (known > 0 /\ t = known)
  BY <1>1, TempAssumption DEF Temps
<1>3. CASE known > 0 /\ goal > known
  <2>1. TempFrames(c) = <<Frame("TEMP_UP", goal - known), Silent>>
    BY <1>2, <1>3 DEF TempFrames
  <2>2. Warmed(t, TempFrames(c)[1]) = Clamp(t + (goal - known))
    BY <1>2, <1>3, <2>1 DEF Frame, Warmed
  <2>3. Clamp(t + (goal - known)) = goal
    BY <1>2, <1>3 DEF Clamp
  <2> QED
    BY <2>1, <2>2, <2>3 DEF Silent, Frame, Warmed
<1>4. CASE known > 0 /\ goal < known
  <2>1. TempFrames(c) = <<Frame("TEMP_DOWN", known - goal), Silent>>
    BY <1>2, <1>4 DEF TempFrames
  <2>2. Warmed(t, TempFrames(c)[1]) = Clamp(t - (known - goal))
    BY <1>2, <1>4, <2>1 DEF Frame, Warmed
  <2>3. Clamp(t - (known - goal)) = goal
    BY <1>2, <1>4 DEF Clamp
  <2> QED
    BY <2>1, <2>2, <2>3 DEF Silent, Frame, Warmed
<1>5. CASE known = 0 /\ action = "COOLING"
  <2>1. TempFrames(c) = <<Frame("TEMP_DOWN", TempMax - TempMin), Frame("TEMP_UP", goal - TempMin)>>
    BY <1>5 DEF TempFrames
  <2>2. Warmed(t, TempFrames(c)[1]) = Clamp(t - (TempMax - TempMin))
    BY <1>2, <2>1 DEF Frame, Warmed
  <2>3. Clamp(t - (TempMax - TempMin)) = TempMin
    BY <1>2 DEF Clamp
  <2>4. CASE goal = TempMin
    BY <1>2, <2>1, <2>2, <2>3, <2>4 DEF Frame, Warmed
  <2>5. CASE goal # TempMin
    <3>1. Warmed(TempMin, TempFrames(c)[2]) = Clamp(TempMin + (goal - TempMin))
      BY <1>2, <2>1, <2>5 DEF Frame, Warmed
    <3>2. Clamp(TempMin + (goal - TempMin)) = goal
      BY <1>2 DEF Clamp
    <3> QED
      BY <2>2, <2>3, <3>1, <3>2
  <2> QED
    BY <2>4, <2>5
<1>6. CASE known = 0 /\ action # "COOLING"
  <2>1. TempFrames(c) = <<Frame("TEMP_UP", TempMax - TempMin), Frame("TEMP_DOWN", TempMax - goal)>>
    BY <1>6 DEF TempFrames
  <2>2. Warmed(t, TempFrames(c)[1]) = Clamp(t + (TempMax - TempMin))
    BY <1>2, <2>1 DEF Frame, Warmed
  <2>3. Clamp(t + (TempMax - TempMin)) = TempMax
    BY <1>2 DEF Clamp
  <2>4. CASE goal = TempMax
    BY <1>2, <2>1, <2>2, <2>3, <2>4 DEF Frame, Warmed
  <2>5. CASE goal # TempMax
    <3>1. Warmed(TempMax, TempFrames(c)[2]) = Clamp(TempMax - (TempMax - goal))
      BY <1>2, <2>1, <2>5 DEF Frame, Warmed
    <3>2. Clamp(TempMax - (TempMax - goal)) = goal
      BY <1>2 DEF Clamp
    <3> QED
      BY <2>2, <2>3, <3>1, <3>2
  <2> QED
    BY <2>4, <2>5
<1>7. goal > known \/ goal < known
  BY <1>1, <1>2
<1> QED
  BY <1>2, <1>3, <1>4, <1>5, <1>6, <1>7

-----------------------------------------------------------------------------
(* The clock.                                                              *)

LEMMA Mods ==
  /\ \A a \in 0..(Wrap - 1) : a % Wrap = a
  /\ \A a \in Nat : a % Wrap \in 0..(Wrap - 1)
<1>1. Wrap \in Nat /\ Wrap > 0
  BY TimeAssumption
<1> QED
  BY <1>1

(* A command starts a settling time.                                       *)
LEMMA ClockCommand ==
  ASSUME Clock, now' = now, clean' \in BOOLEAN, seen' \in BOOLEAN,
         clean' \/ seen' => (clean \/ seen) /\ ~WrapsSoon,
         last' \in {last, now}, age' \in {age, 0},
         clean' \/ seen' => last' = now \/ age' = age
  PROVE  Clock'
<1>1. /\ last \in Int /\ now \in Int /\ age \in Int /\ Wrap \in Int /\ Settle \in Int /\ Lag \in Int
      /\ 0 <= last /\ last < Wrap /\ 0 <= now /\ now < Wrap /\ 0 <= age /\ Lag >= 0
  BY TimeAssumption DEF Clock
<1>2. last' \in 0..(Wrap - 1) /\ now' \in 0..(Wrap - 1) /\ age' \in 0..(Lag + 1)
  BY <1>1 DEF Clock
<1>3. ASSUME clean' \/ seen', age' <= Lag
      PROVE  last' + Settle < Wrap /\ last' <= now' /\ now' - last' <= age'
  <2>1. clean \/ seen
    BY <1>3
  <2>2. now + Settle < Wrap
    BY <1>1, <1>3 DEF WrapsSoon
  <2>3. CASE last' = now
    BY <1>1, <2>2, <2>3
  <2>4. CASE last' = last /\ age' = age
    <3>1. last + Settle < Wrap /\ last <= now /\ now - last <= age
      BY <1>3, <2>1, <2>4 DEF Clock, Timely
    <3> QED
      BY <2>4, <3>1
  <2> QED
    BY <1>3, <2>3, <2>4
<1> QED
  BY <1>2, <1>3 DEF Clock, Timely

(* Time passes: until the unit's last change is old news, nothing that the *)
(* sensor says changes the mode.                                           *)
LEMMA ClockTicks ==
  ASSUME Clock, now' = (now + 1) % Wrap, age' = IF age <= Lag THEN age + 1 ELSE age,
         last' = last, clean' = clean, seen' \in BOOLEAN, seen' => seen \/ age' > Lag
  PROVE  /\ Clock'
         /\ (clean \/ seen) /\ age' <= Lag => ~UpdateMode(now')
<1>1. /\ last \in Int /\ now \in Int /\ age \in Int /\ Wrap \in Int /\ Settle \in Int /\ Lag \in Int
      /\ 0 <= last /\ last < Wrap /\ 0 <= now /\ now < Wrap /\ 0 <= age /\ age <= Lag + 1
      /\ Lag >= 0 /\ Lag <= Settle
  BY TimeAssumption DEF Clock
<1>2. last' \in 0..(Wrap - 1) /\ now' \in 0..(Wrap - 1) /\ age' \in 0..(Lag + 1)
  <2>1. now + 1 \in Nat
    BY <1>1
  <2>2. now' \in 0..(Wrap - 1)
    BY <2>1, Mods
  <2> QED
    BY <1>1, <2>2 DEF Clock
<1>3. ASSUME clean \/ seen, age' <= Lag
      PROVE  /\ last' + Settle < Wrap /\ last' <= now' /\ now' - last' <= age'
             /\ ~UpdateMode(now')
  <2>1. age' = age + 1 /\ age <= Lag
    BY <1>1, <1>3
  <2>2. last + Settle < Wrap /\ last <= now /\ now - last <= age
    BY <1>3, <2>1 DEF Clock, Timely
  <2>3. now + 1 \in 0..(Wrap - 1) /\ last + Settle \in 0..(Wrap - 1)
    BY <1>1, <1>3, <2>1, <2>2, TimeAssumption
  <2>4. now' = now + 1 /\ (last + Settle) % Wrap = last + Settle
    BY <2>3, Mods
  <2>5. ~(now' > last + Settle)
    BY <1>1, <1>3, <2>1, <2>2, <2>4
  <2> QED
    BY <1>1, <2>1, <2>2, <2>4, <2>5 DEF UpdateMode
<1>4. ASSUME clean' \/ seen', age' <= Lag
      PROVE  last' + Settle < Wrap /\ last' <= now' /\ now' - last' <= age'
  <2>1. clean \/ seen
    BY <1>1, <1>2, <1>4
  <2> QED
    BY <1>3, <1>4, <2>1
<1>5. clean' \in BOOLEAN
  BY DEF Clock
<1> QED
  BY <1>2, <1>3, <1>4, <1>5 DEF Clock, Timely

(* A component that restarts has sent nothing, and its time starts anew.   *)
LEMMA ClockReboot ==
  ASSUME Clock, last' = 0, now' = 0, UNCHANGED <<age, clean, seen>>
  PROVE  Clock'
<1>1. Wrap \in Nat /\ Settle \in Nat /\ Settle < Wrap /\ Lag \in Nat
  BY TimeAssumption
<1>2. age' \in 0..(Lag + 1)
  BY DEF Clock
<1> QED
  BY <1>1, <1>2 DEF Clock, Timely

-----------------------------------------------------------------------------
(* The Kenmore.  What it takes over is what ClimateIRPower defines.        *)

LEMMA KenmoreShares ==
  /\ Kenmore!Temps = Temps /\ Kenmore!Modes = Modes /\ Kenmore!Presets = Presets
  /\ Kenmore!Actions = Actions /\ Kenmore!Unset = Unset /\ Kenmore!Silent = Silent
  /\ Kenmore!WrapsSoon = WrapsSoon
  /\ \A cmd, n : Kenmore!Frame(cmd, n) = Frame(cmd, n)
  /\ \A cond, cmd : Kenmore!FrameIf(cond, cmd) = FrameIf(cond, cmd)
  /\ \A t : Kenmore!Clamp(t) = Clamp(t) /\ Kenmore!UpdateMode(t) = UpdateMode(t)
  /\ \A c : /\ Kenmore!NewMode(c) = NewMode(c) /\ Kenmore!NewPreset(c) = NewPreset(c)
            /\ Kenmore!Switches(c) = Switches(c) /\ Kenmore!Goal(c) = Goal(c)
            /\ Kenmore!KnownTemp(c) = KnownTemp(c) /\ Kenmore!SendsTemp(c) = SendsTemp(c)
            /\ Kenmore!TempFrames(c) = TempFrames(c)
BY DEF Temps, Modes, Presets, Actions, Unset, Silent, WrapsSoon, Frame, FrameIf, Clamp,
   UpdateMode, NewMode, NewPreset, Switches, Goal, KnownTemp, SendsTemp, TempFrames,
   Kenmore!Temps, Kenmore!Modes, Kenmore!Presets, Kenmore!Actions, Kenmore!Unset,
   Kenmore!Silent, Kenmore!WrapsSoon, Kenmore!Frame, Kenmore!FrameIf, Kenmore!Clamp,
   Kenmore!UpdateMode, Kenmore!NewMode, Kenmore!NewPreset, Kenmore!Switches, Kenmore!Goal,
   Kenmore!KnownTemp, Kenmore!SendsTemp, Kenmore!TempFrames

(* What the unit does with a frame, and with the frames of a call.         *)
KHear(u, f) == Kenmore!Press(u, f.cmd, f.count)
KModed(c) == LET f == Kenmore!ModeFrames(c)
             IN  KHear(KHear(KHear(unit, f[1]), f[2]), f[3])
KWarmed(c) == KHear(KHear(KModed(c), TempFrames(c)[1]), TempFrames(c)[2])
KFanned(c) == KHear(KHear(KWarmed(c), Kenmore!FanFrames(c)[1]), Kenmore!FanFrames(c)[2])

(* What the unit makes of all seven frames is what it makes of the three   *)
(* groups in turn.                                                         *)
LEMMA KHeard ==
  ASSUME NEW c
  PROVE  Kenmore!Receive(Kenmore!Press, unit,
           Kenmore!AllFrames(Kenmore!ModeFrames(c), Kenmore!TempFrames(c), Kenmore!FanFrames(c)))
         = KFanned(c)
<1>1. Kenmore!TempFrames(c) = TempFrames(c)
  BY KenmoreShares
<1> QED
  BY <1>1 DEF Kenmore!Receive, Kenmore!AllFrames, KModed, KWarmed, KFanned, KHear

(* A place without a frame changes nothing.                                *)
LEMMA KSilent == ASSUME NEW u, NEW f, f.count = 0 PROVE KHear(u, f) = u
BY DEF KHear, Kenmore!Press

(* POWER toggles the power, and the unit forgets e-save and its            *)
(* temperature.                                                            *)
LEMMA KPower ==
  ASSUME NEW u \in Kenmore!Units
  PROVE  KHear(u, Frame("POWER", 1))
           = [u EXCEPT !.on = ~u.on, !.eco = FALSE, !.temp = PowerOnTemp]
BY DEF KHear, Frame, Kenmore!Press

(* MODE toggles between cooling and fan, and the unit forgets as much.     *)
LEMMA KMode ==
  ASSUME NEW u \in Kenmore!Units, u.on
  PROVE  KHear(u, Frame("MODE", 1))
           = [u EXCEPT !.cools = ~u.cools, !.eco = FALSE, !.temp = PowerOnTemp]
BY DEF KHear, Frame, Kenmore!Press

(* ESAVE toggles e-save of a unit that cools.                              *)
LEMMA KEsave ==
  ASSUME NEW u \in Kenmore!Units, u.on, u.cools
  PROVE  KHear(u, Frame("ESAVE", 1)) = [u EXCEPT !.eco = ~u.eco]
BY DEF KHear, Frame, Kenmore!Press

(* Only POWER switches on or off, whatever else the unit makes of a frame. *)
LEMMA KPressType ==
  ASSUME NEW u \in Kenmore!Units, NEW cmd, NEW n \in Nat
  PROVE  /\ Kenmore!Press(u, cmd, n) \in Kenmore!Units
         /\ cmd # "POWER" => Kenmore!Press(u, cmd, n).on = u.on
<1>0. /\ u.on \in BOOLEAN /\ u.cools \in BOOLEAN /\ u.eco \in BOOLEAN
      /\ u.temp \in Temps /\ u.fan \in Kenmore!Fans
      /\ u = [on |-> u.on, cools |-> u.cools, eco |-> u.eco, temp |-> u.temp, fan |-> u.fan]
  BY KenmoreShares DEF Kenmore!Units
<1>1. PowerOnTemp \in Temps
  BY TempAssumption DEF Temps
<1>2. CASE n = 0
  BY <1>2 DEF Kenmore!Press
<1>3. CASE n > 0 /\ cmd = "POWER"
  <2>1. Kenmore!Press(u, cmd, n) = [u EXCEPT !.on = ~u.on, !.eco = FALSE, !.temp = PowerOnTemp]
    BY <1>3 DEF Kenmore!Press
  <2> QED
    BY <1>0, <1>1, <1>3, <2>1, KenmoreShares DEF Kenmore!Units
<1>4. CASE n > 0 /\ cmd = "MODE" /\ u.on
  <2>1. Kenmore!Press(u, cmd, n)
          = [u EXCEPT !.cools = ~u.cools, !.eco = FALSE, !.temp = PowerOnTemp]
    BY <1>4 DEF Kenmore!Press
  <2> QED
    BY <1>0, <1>1, <2>1, KenmoreShares DEF Kenmore!Units
<1>5. CASE n > 0 /\ cmd = "ESAVE" /\ u.on /\ u.cools
  <2>1. Kenmore!Press(u, cmd, n) = [u EXCEPT !.eco = ~u.eco]
    BY <1>5 DEF Kenmore!Press
  <2> QED
    BY <1>0, <2>1, KenmoreShares DEF Kenmore!Units
<1>6. CASE n > 0 /\ cmd \in TempCommands /\ u.on /\ u.cools
  <2>1. Kenmore!Press(u, cmd, n) = Kenmore!TempPress(u, cmd, n)
    BY <1>6 DEF Kenmore!Press, TempCommands
  <2> DEFINE t == IF cmd = "TEMP_UP" THEN u.temp + n ELSE u.temp - n
  <2>2. Clamp(t) \in Temps
    BY <1>0, TempAssumption DEF Clamp, Temps
  <2>3. Kenmore!TempPress(u, cmd, n) = [u EXCEPT !.temp = Clamp(t)]
    BY KenmoreShares DEF Kenmore!TempPress
  <2> QED
    BY <1>0, <2>1, <2>2, <2>3, KenmoreShares DEF Kenmore!Units
<1>7. CASE n > 0 /\ cmd = "FAN_SPEED" /\ u.on
  <2>1. Kenmore!Press(u, cmd, n) = [u EXCEPT !.fan = IF u.fan = "LOW" THEN "HIGH" ELSE "LOW"]
    BY <1>7 DEF Kenmore!Press
  <2> QED
    BY <1>0, <2>1, KenmoreShares DEF Kenmore!Units, Kenmore!Fans
<1>8. CASE /\ ~(n = 0) /\ ~(n > 0 /\ cmd = "POWER") /\ ~(n > 0 /\ cmd = "MODE" /\ u.on)
           /\ ~(n > 0 /\ cmd = "ESAVE" /\ u.on /\ u.cools)
           /\ ~(n > 0 /\ cmd \in TempCommands /\ u.on /\ u.cools)
           /\ ~(n > 0 /\ cmd = "FAN_SPEED" /\ u.on)
  <2>1. Kenmore!Press(u, cmd, n) = u
    BY <1>8 DEF Kenmore!Press, TempCommands
  <2> QED
    BY <1>8, <2>1
<1> QED
  BY <1>2, <1>3, <1>4, <1>5, <1>6, <1>7, <1>8

(* The commands for the temperature touch nothing else ...                 *)
LEMMA KTemp ==
  ASSUME NEW u \in Kenmore!Units, NEW f \in Frames(TempCommands)
  PROVE  /\ KHear(u, f) \in Kenmore!Units
         /\ KHear(u, f).on = u.on /\ KHear(u, f).cools = u.cools /\ KHear(u, f).eco = u.eco
         /\ u.on /\ u.cools => KHear(u, f).temp = Warmed(u.temp, f)
<1>0. f.count \in Nat /\ (f.cmd \in TempCommands \/ f.count = 0)
  BY DEF Frames, Silent, Frame
<1>1. KHear(u, f) \in Kenmore!Units
  BY <1>0, KPressType DEF KHear
<1>2. CASE f.count > 0 /\ f.cmd \in TempCommands /\ u.on /\ u.cools
  <2> DEFINE t == IF f.cmd = "TEMP_UP" THEN u.temp + f.count ELSE u.temp - f.count
  <2>1. KHear(u, f) = Kenmore!TempPress(u, f.cmd, f.count)
    BY <1>2 DEF KHear, Kenmore!Press, TempCommands
  <2>2. Kenmore!TempPress(u, f.cmd, f.count) = [u EXCEPT !.temp = Clamp(t)]
    BY KenmoreShares DEF Kenmore!TempPress
  <2>3. Warmed(u.temp, f) = Clamp(t)
    BY <1>2 DEF Warmed
  <2> QED
    BY <1>1, <1>2, <2>1, <2>2, <2>3 DEF Kenmore!Units
<1>3. CASE f.count = 0
  BY <1>1, <1>3, KSilent DEF Warmed
<1>4. CASE f.count > 0 /\ f.cmd \in TempCommands /\ ~(u.on /\ u.cools)
  <2>1. /\ ~(f.count = 0) /\ ~(f.count > 0 /\ f.cmd = "POWER")
        /\ ~(f.count > 0 /\ f.cmd = "MODE" /\ u.on)
        /\ ~(f.count > 0 /\ f.cmd = "ESAVE" /\ u.on /\ u.cools)
        /\ ~(f.count > 0 /\ f.cmd \in TempCommands /\ u.on /\ u.cools)
        /\ ~(f.count > 0 /\ f.cmd = "FAN_SPEED" /\ u.on)
    BY <1>4 DEF TempCommands
  <2>2. KHear(u, f) = u
    BY <2>1 DEF KHear, Kenmore!Press, TempCommands
  <2> QED
    BY <1>1, <1>4, <2>2
<1> QED
  BY <1>0, <1>2, <1>3, <1>4

(* ... nor does the one for the fan.                                       *)
LEMMA KFan ==
  ASSUME NEW u \in Kenmore!Units, NEW f \in {Frame("FAN_SPEED", 1), Silent}
  PROVE  /\ KHear(u, f) \in Kenmore!Units
         /\ KHear(u, f).on = u.on /\ KHear(u, f).cools = u.cools /\ KHear(u, f).eco = u.eco
         /\ KHear(u, f).temp = u.temp
<1>0. f.count \in Nat
  BY DEF Frame, Silent
<1>1. KHear(u, f) \in Kenmore!Units
  BY <1>0, KPressType DEF KHear
<1>2. CASE f = Frame("FAN_SPEED", 1) /\ u.on
  <2>1. KHear(u, f) = [u EXCEPT !.fan = IF u.fan = "LOW" THEN "HIGH" ELSE "LOW"]
    BY <1>2 DEF KHear, Frame, Kenmore!Press
  <2> QED
    BY <1>1, <2>1 DEF Kenmore!Units
<1>3. CASE f = Frame("FAN_SPEED", 1) /\ ~u.on
  <2>1. KHear(u, f) = u
    BY <1>3 DEF KHear, Frame, Kenmore!Press
  <2> QED
    BY <2>1
<1>4. CASE f = Silent
  <2>1. KHear(u, f) = u
    BY <1>4, KSilent DEF Silent, Frame
  <2> QED
    BY <2>1
<1> QED
  BY <1>2, <1>3, <1>4

(* The commands for the mode, place by place: the component thinks of the  *)
(* unit as cooling when it is off.                                         *)
Believed == IF mode = "OFF" THEN "COOL" ELSE mode
SavesEnergy == mode # "OFF" /\ preset = "ECO"
Flips(c) == ~(Believed = "FAN_ONLY" <=> NewMode(c) = "FAN_ONLY")

(* The commands for the mode, place by place: which toggles a call sends.  *)
LEMMA KModeFrames ==
  ASSUME Belief, NEW F, NEW c \in AnyCall(F)
  PROVE  LET f == Kenmore!ModeFrames(c) IN
         /\ ~Switches(c) => f[1] = Silent /\ f[2] = Silent /\ f[3] = Silent
         /\ Switches(c) =>
              /\ f[1] = FrameIf(mode = "OFF", "POWER")
              /\ f[2] = FrameIf(Flips(c), "MODE")
              /\ NewMode(c) = "OFF" => f[3] = Frame("POWER", 1)
              /\ NewMode(c) = "FAN_ONLY" => f[3] = Silent
              /\ NewMode(c) = "COOL" =>
                   f[3] = FrameIf(~(SavesEnergy <=> NewPreset(c) = "ECO"), "ESAVE")
<1>1. /\ NewMode(c) \in Modes /\ mode \in Modes
      /\ NewPreset(c) = "ECO" => NewMode(c) = "COOL"
  BY CallGoals DEF Belief
<1>2. CASE ~Switches(c)
  BY <1>2, KenmoreShares DEF Kenmore!ModeFrames
<1>3. CASE Switches(c) /\ NewPreset(c) = "ECO"
  BY <1>1, <1>3, KenmoreShares
     DEF Kenmore!ModeFrames, Believed, SavesEnergy, Flips, Modes, FrameIf
<1>4. CASE Switches(c) /\ NewPreset(c) # "ECO" /\ NewMode(c) = "COOL"
  BY <1>1, <1>4, KenmoreShares
     DEF Kenmore!ModeFrames, Kenmore!LeavesEco, Believed, SavesEnergy, Flips, Modes, FrameIf
<1>5. CASE Switches(c) /\ NewPreset(c) # "ECO" /\ NewMode(c) = "FAN_ONLY"
  BY <1>1, <1>5, KenmoreShares
     DEF Kenmore!ModeFrames, Believed, SavesEnergy, Flips, Modes, FrameIf
<1>6. CASE Switches(c) /\ NewPreset(c) # "ECO" /\ NewMode(c) = "OFF"
  BY <1>1, <1>6, KenmoreShares
     DEF Kenmore!ModeFrames, Believed, SavesEnergy, Flips, Modes, FrameIf
<1> QED
  BY <1>1, <1>2, <1>3, <1>4, <1>5, <1>6 DEF Modes

(* What every step keeps.  A unit that is off comes back cooling, so it    *)
(* must have been left so; a fan has no temperature.                       *)
KStep(m, p, u) == /\ Powered(m, u)
                  /\ m = "FAN_ONLY" <=> ~u.cools
                  /\ m # "OFF" => (p = "ECO" <=> u.eco)
KInv ==
  /\ Belief /\ Clock /\ Counts(MaxCalls)
  /\ fan \in Kenmore!Fans /\ unit \in Kenmore!Units
  /\ stale \in Kenmore!Fans \cup {"off", "esave", "cool", "between"}
  /\ clean => KStep(mode, preset, unit) /\ (mode = "FAN_ONLY" => targetF = 0)
  /\ Kenmore!TempInStep /\ Kenmore!PowerKnown

(* Power goes the right way, even if nothing else is known of the unit.    *)
LEMMA KModedOn ==
  ASSUME Belief, unit \in Kenmore!Units, NEW F, NEW c \in AnyCall(F)
  PROVE  /\ KModed(c) \in Kenmore!Units
         /\ Powered(mode, unit) => Powered(NewMode(c), KModed(c))
<1> DEFINE f == Kenmore!ModeFrames(c)
           u1 == KHear(unit, f[1])
           u2 == KHear(u1, f[2])
           u3 == KHear(u2, f[3])
<1>0. KModed(c) = u3
  BY DEF KModed
<1>1. NewMode(c) \in Modes /\ mode \in Modes
  BY CallGoals DEF Belief
<1>2. CASE ~Switches(c)
  <2>1. f[1].count = 0 /\ f[2].count = 0 /\ f[3].count = 0
    BY <1>2, KModeFrames DEF Silent, Frame
  <2>2. u1 = unit /\ u2 = u1 /\ u3 = u2
    BY <2>1, KSilent
  <2> QED
    BY <1>0, <1>2, <2>2, CallGoals
<1>3. CASE Switches(c)
  <2>1. /\ f[1] = FrameIf(mode = "OFF", "POWER") /\ f[2] = FrameIf(Flips(c), "MODE")
        /\ NewMode(c) = "OFF" => f[3] = Frame("POWER", 1)
        /\ NewMode(c) = "FAN_ONLY" => f[3] = Silent
        /\ NewMode(c) = "COOL" =>
             f[3] = FrameIf(~(SavesEnergy <=> NewPreset(c) = "ECO"), "ESAVE")
    BY <1>3, KModeFrames
  <2> HIDE DEF f
  <2>2. /\ u1 \in Kenmore!Units
        /\ Powered(mode, unit) => u1.on
    <3>1. CASE mode = "OFF"
      <4>1. u1 = [unit EXCEPT !.on = ~unit.on, !.eco = FALSE, !.temp = PowerOnTemp]
        BY <2>1, <3>1, KPower DEF FrameIf
      <4>2. u1 \in Kenmore!Units
        BY <2>1, <3>1, KPressType DEF FrameIf, Frame, KHear
      <4> QED
        BY <3>1, <4>1, <4>2 DEF Kenmore!Units, Powered
    <3>2. CASE mode # "OFF"
      <4>1. u1 = unit
        BY <2>1, <3>2, KSilent DEF FrameIf, Silent, Frame
      <4> QED
        BY <3>2, <4>1 DEF Powered
    <3> QED
      BY <3>1, <3>2
  <2>3. u2 \in Kenmore!Units /\ u2.on = u1.on
    <3>1. f[2].cmd # "POWER" /\ f[2].count \in Nat
      BY <2>1 DEF FrameIf, Frame, Silent
    <3> QED
      BY <2>2, <3>1, KPressType DEF KHear
  <2>4. CASE NewMode(c) = "OFF"
    <3>1. u3 = [u2 EXCEPT !.on = ~u2.on, !.eco = FALSE, !.temp = PowerOnTemp]
      BY <2>1, <2>3, <2>4, KPower
    <3>2. u3 \in Kenmore!Units
      BY <2>1, <2>3, <2>4, KPressType DEF Frame, KHear
    <3>3. u3.on = ~u2.on
      BY <2>3, <3>1 DEF Kenmore!Units
    <3> QED
      BY <1>0, <2>2, <2>3, <2>4, <3>2, <3>3 DEF Powered
  <2>5. CASE NewMode(c) # "OFF"
    <3>1. f[3].cmd # "POWER" /\ f[3].count \in Nat
      BY <1>1, <2>1, <2>5 DEF FrameIf, Frame, Silent, Modes
    <3>2. u3 \in Kenmore!Units /\ u3.on = u2.on
      BY <2>3, <3>1, KPressType DEF KHear
    <3> QED
      BY <1>0, <2>2, <2>3, <2>5, <3>2 DEF Powered
  <2> QED
    BY <2>4, <2>5
<1> QED
  BY <1>2, <1>3

(* From a unit in step, the toggles bring it in step with the new mode.    *)
LEMMA KModedInStep ==
  ASSUME KInv, clean, NEW F, NEW c \in AnyCall(F)
  PROVE  /\ KModed(c) \in Kenmore!Units
         /\ KStep(NewMode(c), NewPreset(c), KModed(c))
         /\ NewMode(c) = "COOL" /\ KnownTemp(c) > 0 => KModed(c).temp = KnownTemp(c)
<1> DEFINE f == Kenmore!ModeFrames(c)
           u1 == KHear(unit, f[1])
           u2 == KHear(u1, f[2])
           u3 == KHear(u2, f[3])
<1>0. /\ KModed(c) = u3 /\ Belief /\ unit \in Kenmore!Units /\ mode \in Modes
      /\ KStep(mode, preset, unit) /\ (mode = "FAN_ONLY" => targetF = 0)
      /\ mode = "COOL" /\ targetF > 0 => unit.temp = targetF
      /\ unit.on \in BOOLEAN /\ unit.cools \in BOOLEAN /\ unit.eco \in BOOLEAN
  BY DEF KModed, KInv, Kenmore!TempInStep, Kenmore!Units, Belief
<1>1. /\ NewMode(c) \in Modes
      /\ NewPreset(c) = "ECO" => NewMode(c) = "COOL"
      /\ preset = "ECO" => mode = "COOL"
      /\ KnownTemp(c) > 0 => KnownTemp(c) = targetF
      /\ KnownTemp(c) > 0 /\ Switches(c) => mode # "OFF"
  BY <1>0, CallGoals DEF Belief
<1>2. CASE ~Switches(c)
  <2>1. f[1].count = 0 /\ f[2].count = 0 /\ f[3].count = 0
    BY <1>0, <1>2, KModeFrames DEF Silent, Frame
  <2>2. u1 = unit /\ u2 = u1 /\ u3 = u2
    BY <2>1, KSilent
  <2>3. NewMode(c) = mode /\ NewPreset(c) = preset
    BY <1>2 DEF Switches
  <2> QED
    BY <1>0, <1>1, <2>2, <2>3
<1>3. CASE Switches(c)
  <2>1. /\ f[1] = FrameIf(mode = "OFF", "POWER") /\ f[2] = FrameIf(Flips(c), "MODE")
        /\ NewMode(c) = "OFF" => f[3] = Frame("POWER", 1)
        /\ NewMode(c) = "FAN_ONLY" => f[3] = Silent
        /\ NewMode(c) = "COOL" =>
             f[3] = FrameIf(~(SavesEnergy <=> NewPreset(c) = "ECO"), "ESAVE")
    BY <1>0, <1>3, KModeFrames
  <2> HIDE DEF f
  <2>2. /\ u1 \in Kenmore!Units /\ u1.on
        /\ Believed = "FAN_ONLY" <=> ~u1.cools
        /\ u1.eco <=> SavesEnergy
        /\ mode # "OFF" => u1 = unit
    <3>1. CASE mode = "OFF"
      <4>1. u1 = [unit EXCEPT !.on = ~unit.on, !.eco = FALSE, !.temp = PowerOnTemp]
        BY <1>0, <2>1, <3>1, KPower DEF FrameIf
      <4>2. u1 \in Kenmore!Units
        BY <1>0, <2>1, <3>1, KPressType DEF FrameIf, Frame, KHear
      <4>3. u1.on = ~unit.on /\ u1.eco = FALSE /\ u1.cools = unit.cools
        BY <1>0, <4>1 DEF Kenmore!Units
      <4> QED
        BY <1>0, <3>1, <4>2, <4>3 DEF KStep, Powered, Believed, SavesEnergy
    <3>2. CASE mode # "OFF"
      <4>1. u1 = unit
        BY <2>1, <3>2, KSilent DEF FrameIf, Silent, Frame
      <4> QED
        BY <1>0, <3>2, <4>1 DEF KStep, Powered, Believed, SavesEnergy
    <3> QED
      BY <3>1, <3>2
  <2>3. /\ u2 \in Kenmore!Units /\ u2.on
        /\ NewMode(c) = "FAN_ONLY" <=> ~u2.cools
        /\ u2.eco <=> SavesEnergy /\ ~Flips(c)
        /\ ~Flips(c) => u2 = u1
    <3>1. CASE Flips(c)
      <4>1. u2 = [u1 EXCEPT !.cools = ~u1.cools, !.eco = FALSE, !.temp = PowerOnTemp]
        BY <2>1, <2>2, <3>1, KMode DEF FrameIf
      <4>2. u2 \in Kenmore!Units
        BY <2>1, <2>2, <3>1, KPressType DEF FrameIf, Frame, KHear
      <4>3. u2.on = u1.on /\ u2.eco = FALSE /\ u2.cools = ~u1.cools
        BY <2>2, <4>1 DEF Kenmore!Units
      <4> QED
        BY <2>2, <3>1, <4>2, <4>3 DEF Flips
    <3>2. CASE ~Flips(c)
      <4>1. u2 = u1
        BY <2>1, <3>2, KSilent DEF FrameIf, Silent, Frame
      <4> QED
        BY <2>2, <3>2, <4>1 DEF Flips
    <3> QED
      BY <3>1, <3>2
  <2>4. Flips(c) => ~SavesEnergy \/ NewMode(c) = "FAN_ONLY"
    BY <1>1 DEF Flips, SavesEnergy, Believed
  <2>5. CASE NewMode(c) = "OFF"
    <3>1. u3 = [u2 EXCEPT !.on = ~u2.on, !.eco = FALSE, !.temp = PowerOnTemp]
      BY <2>1, <2>3, <2>5, KPower
    <3>2. u3 \in Kenmore!Units
      BY <2>1, <2>3, <2>5, KPressType DEF Frame, KHear
    <3>3. u3.on = ~u2.on /\ u3.cools = u2.cools
      BY <2>3, <3>1 DEF Kenmore!Units
    <3> QED
      BY <1>0, <2>3, <2>5, <3>2, <3>3 DEF KStep, Powered
  <2>6. CASE NewMode(c) = "FAN_ONLY"
    <3>1. u3 = u2
      BY <2>1, <2>6, KSilent DEF Silent, Frame
    <3>2. ~u2.eco
      BY <1>1, <2>3, <2>6 DEF Flips, SavesEnergy, Believed
    <3>3. NewPreset(c) # "ECO"
      BY <1>1, <2>6
    <3> QED
      BY <1>0, <2>3, <2>6, <3>1, <3>2, <3>3 DEF KStep, Powered
  <2>7. CASE NewMode(c) = "COOL"
    <3>1. KnownTemp(c) > 0 => ~Flips(c) /\ u2.temp = KnownTemp(c)
      <4>1. SUFFICES ASSUME KnownTemp(c) > 0 PROVE ~Flips(c) /\ u2.temp = KnownTemp(c)
        OBVIOUS
      <4>2. targetF > 0 /\ mode # "OFF" /\ mode # "FAN_ONLY"
        BY <1>0, <1>1, <1>3, <4>1
      <4>3. mode = "COOL"
        BY <1>0, <4>2 DEF Modes
      <4> QED
        BY <1>0, <1>1, <2>2, <2>3, <2>7, <4>1, <4>2, <4>3 DEF Flips, Believed
    <3>2. u2.eco <=> SavesEnergy
      BY <2>3, <2>4, <2>7
    <3>3. CASE SavesEnergy <=> NewPreset(c) = "ECO"
      <4>1. u3 = u2
        BY <2>1, <2>7, <3>3, KSilent DEF FrameIf, Silent, Frame
      <4> QED
        BY <1>0, <2>3, <2>7, <3>1, <3>2, <3>3, <4>1 DEF KStep, Powered
    <3>4. CASE ~(SavesEnergy <=> NewPreset(c) = "ECO")
      <4>1. f[3] = Frame("ESAVE", 1)
        BY <2>1, <2>7, <3>4 DEF FrameIf
      <4>2. u3 = [u2 EXCEPT !.eco = ~u2.eco]
        BY <2>3, <2>7, <4>1, KEsave
      <4>3. u3 \in Kenmore!Units
        BY <2>3, <4>1, KPressType DEF Frame, KHear
      <4>4. u3.on = u2.on /\ u3.cools = u2.cools /\ u3.eco = ~u2.eco /\ u3.temp = u2.temp
        BY <2>3, <4>2 DEF Kenmore!Units
      <4> QED
        BY <1>0, <2>3, <2>7, <3>1, <3>2, <3>4, <4>3, <4>4 DEF KStep, Powered
    <3> QED
      BY <3>3, <3>4
  <2> QED
    BY <1>1, <2>5, <2>6, <2>7 DEF Modes
<1> QED
  BY <1>2, <1>3

(* The rest of the frames change neither power, mode nor e-save.           *)
LEMMA KRest ==
  ASSUME Belief, NEW F, NEW c \in AnyCall(F), KModed(c) \in Kenmore!Units
  PROVE  /\ KFanned(c) \in Kenmore!Units
         /\ KFanned(c).on = KModed(c).on /\ KFanned(c).cools = KModed(c).cools
         /\ KFanned(c).eco = KModed(c).eco
         /\ KFanned(c).temp = KWarmed(c).temp
         /\ KModed(c).on /\ KModed(c).cools =>
              KWarmed(c).temp = Warmed(Warmed(KModed(c).temp, TempFrames(c)[1]),
                                       TempFrames(c)[2])
         /\ ~SendsTemp(c) => KWarmed(c) = KModed(c)
<1> DEFINE f == Kenmore!FanFrames(c)
           w == KHear(KModed(c), TempFrames(c)[1])
           v == KHear(KWarmed(c), f[1])
<1>0. KWarmed(c) = KHear(w, TempFrames(c)[2]) /\ KFanned(c) = KHear(v, f[2])
  BY DEF KWarmed, KFanned
<1>1. /\ TempFrames(c)[1] \in Frames(TempCommands) /\ TempFrames(c)[2] \in Frames(TempCommands)
      /\ ~SendsTemp(c) => TempFrames(c)[1].count = 0 /\ TempFrames(c)[2].count = 0
  BY TempFrameTypes
<1>2. /\ w \in Kenmore!Units
      /\ w.on = KModed(c).on /\ w.cools = KModed(c).cools /\ w.eco = KModed(c).eco
      /\ KModed(c).on /\ KModed(c).cools => w.temp = Warmed(KModed(c).temp, TempFrames(c)[1])
  BY <1>1, KTemp
<1>3. /\ KWarmed(c) \in Kenmore!Units
      /\ KWarmed(c).on = w.on /\ KWarmed(c).cools = w.cools /\ KWarmed(c).eco = w.eco
      /\ w.on /\ w.cools => KWarmed(c).temp = Warmed(w.temp, TempFrames(c)[2])
  BY <1>0, <1>1, <1>2, KTemp
<1>4. f[1] \in {Frame("FAN_SPEED", 1), Silent} /\ f[2] = Silent
  BY KenmoreShares DEF Kenmore!FanFrames, FrameIf
<1>5. /\ v \in Kenmore!Units
      /\ v.on = KWarmed(c).on /\ v.cools = KWarmed(c).cools /\ v.eco = KWarmed(c).eco
      /\ v.temp = KWarmed(c).temp
  BY <1>3, <1>4, KFan
<1>6. KFanned(c) = v
  BY <1>0, <1>4, KSilent DEF Silent, Frame
<1>7. ~SendsTemp(c) => KWarmed(c) = KModed(c)
  BY <1>0, <1>1, KSilent
<1> QED
  BY <1>2, <1>3, <1>5, <1>6, <1>7

(* Without a command there is no frame.                                    *)
LEMMA KNothingSent ==
  ASSUME Belief, NEW F, NEW c \in AnyCall(F),
         ~(Switches(c) \/ c.temp # 0 \/ SendsTemp(c) \/ c.fan # Unset)
  PROVE  KFanned(c) = unit
<1> DEFINE f == Kenmore!ModeFrames(c)
           g == Kenmore!FanFrames(c)
<1>1. f[1].count = 0 /\ f[2].count = 0 /\ f[3].count = 0
  BY KModeFrames DEF Silent, Frame
<1>2. TempFrames(c)[1].count = 0 /\ TempFrames(c)[2].count = 0
  BY TempFrameTypes
<1>3. g[1].count = 0 /\ g[2].count = 0
  BY KenmoreShares DEF Kenmore!FanFrames, FrameIf, Silent, Frame
<1>4. KModed(c) = unit
  BY <1>1, KSilent DEF KModed
<1>5. KWarmed(c) = unit
  BY <1>2, <1>4, KSilent DEF KWarmed
<1> QED
  BY <1>3, <1>5, KSilent DEF KFanned

(* A call with a frame lost leaves a unit in some state.                   *)
LEMMA KLost ==
  ASSUME NEW u \in Kenmore!Units, NEW fs, NEW i \in DOMAIN fs, NEW W,
         fs = <<fs[1], fs[2], fs[3], fs[4], fs[5], fs[6], fs[7]>>,
         \A j \in 1..7 : fs[j] \in [cmd : W, count : Nat]
  PROVE  Kenmore!Receive(Kenmore!Press, u, Kenmore!Lost(fs, i)) \in Kenmore!Units
<1> DEFINE g == Kenmore!Lost(fs, i)
<1>1. \A j \in 1..7 : g[j].count \in Nat
  <2>1. DOMAIN fs = 1..7
    OBVIOUS
  <2>2. \A j \in 1..7 : g[j] = fs[j] \/ g[j] = [fs[j] EXCEPT !.count = 0]
    BY <2>1 DEF Kenmore!Lost
  <2> QED
    BY <2>2
<1> HIDE DEF g
<1> DEFINE h(v, j) == Kenmore!Press(v, g[j].cmd, g[j].count)
<1>2. \A v \in Kenmore!Units, j \in 1..7 : h(v, j) \in Kenmore!Units
  BY <1>1, KPressType
<1>3. Kenmore!Receive(Kenmore!Press, u, g) = h(h(h(h(h(h(h(u, 1), 2), 3), 4), 5), 6), 7)
  BY DEF Kenmore!Receive
<1> HIDE DEF h
<1> QED
  <2>1. h(h(h(u, 1), 2), 3) \in Kenmore!Units
    BY <1>2
  <2>2. h(h(h(h(h(h(h(u, 1), 2), 3), 4), 5), 6), 7) \in Kenmore!Units
    BY <1>2, <2>1
  <2> QED
    BY <1>3, <2>2 DEF g

(* What a call does to the two of them.                                    *)
LEMMA KCalls ==
  ASSUME Belief, unit \in Kenmore!Units, NEW c \in Kenmore!Calls, Kenmore!Control(c)
  PROVE  /\ c \in AnyCall(Kenmore!Fans) /\ Believe(c)
         /\ calls < MaxCalls /\ calls' = calls + 1
         /\ \/ /\ unit' = KFanned(c) /\ UNCHANGED troubles
               /\ clean' = (clean /\ ~WrapsSoon) /\ seen' = (seen /\ ~WrapsSoon)
            \/ /\ unit' \in Kenmore!Units /\ troubles < MaxTroubles /\ troubles' = troubles + 1
               /\ clean' = FALSE /\ seen' = FALSE
         /\ \/ unit' # unit /\ stale' \in Kenmore!Readings(unit) \cup {"between"} /\ age' = 0
            \/ unit' = unit /\ UNCHANGED <<stale, age>>
<1> DEFINE f == Kenmore!AllFrames(Kenmore!ModeFrames(c), Kenmore!TempFrames(c),
                                  Kenmore!FanFrames(c))
<1>1. c \in AnyCall(Kenmore!Fans)
  BY KenmoreShares DEF Kenmore!Calls, AnyCall
<1>2. Believe(c)
  <2>1. Kenmore!Believe(c)
    BY DEF Kenmore!Control
  <2> QED
    BY <2>1, KenmoreShares DEF Kenmore!Believe, Believe
<1>3. calls < MaxCalls /\ calls' = calls + 1
  BY DEF Kenmore!Control
<1>4. \/ unit' # unit /\ stale' \in Kenmore!Readings(unit) \cup {"between"} /\ age' = 0
      \/ unit' = unit /\ UNCHANGED <<stale, age>>
  BY DEF Kenmore!Control, Kenmore!Outdates
<1>5. Kenmore!Transmit(Kenmore!Press, f)
  BY DEF Kenmore!Control
<1>6. CASE /\ unit' = Kenmore!Receive(Kenmore!Press, unit, f)
           /\ clean' = (clean /\ ~Kenmore!WrapsSoon) /\ seen' = (seen /\ ~Kenmore!WrapsSoon)
           /\ UNCHANGED troubles
  <2>1. unit' = KFanned(c)
    BY <1>6, KHeard
  <2> QED
    BY <1>1, <1>2, <1>3, <1>4, <1>6, <2>1, KenmoreShares
<1>7. CASE /\ troubles < MaxTroubles /\ troubles' = troubles + 1
           /\ clean' = FALSE /\ seen' = FALSE
           /\ \E i \in DOMAIN f : unit' = Kenmore!Receive(Kenmore!Press, unit, Kenmore!Lost(f, i))
  <2>1. PICK i \in DOMAIN f : unit' = Kenmore!Receive(Kenmore!Press, unit, Kenmore!Lost(f, i))
    BY <1>7
  <2>2. f = <<f[1], f[2], f[3], f[4], f[5], f[6], f[7]>>
    BY DEF Kenmore!AllFrames
  <2> DEFINE W == {"NONE", "POWER", "MODE", "ESAVE", "TEMP_UP", "TEMP_DOWN", "FAN_SPEED"}
  <2>3. \A j \in 1..7 : f[j] \in [cmd : W, count : Nat]
    <3> DEFINE S == [cmd : W, count : Nat]
               m == Kenmore!ModeFrames(c)
               t == Kenmore!TempFrames(c)
               n == Kenmore!FanFrames(c)
    <3>1. Silent \in S /\ \A cmd \in W : Frame(cmd, 1) \in S
      BY DEF Silent, Frame
    <3>2. \A cond : \A cmd \in W : FrameIf(cond, cmd) \in S
      BY <3>1 DEF FrameIf
    <3> HIDE DEF S
    <3>3. m[1] \in S /\ m[2] \in S /\ m[3] \in S
      <4>1. NewMode(c) \in Modes
        BY <1>1, CallGoals
      <4> QED
        BY <1>1, <3>1, <3>2, <4>1, KModeFrames DEF Modes
    <3>4. t[1] \in S /\ t[2] \in S
      <4>1. t = TempFrames(c)
        BY KenmoreShares
      <4>2. t[1] \in Frames(TempCommands) /\ t[2] \in Frames(TempCommands)
        BY <1>1, <4>1, TempFrameTypes
      <4> QED
        BY <3>1, <4>2 DEF Frames, TempCommands, S
    <3>5. n[1] \in S /\ n[2] \in S
      BY <3>1, <3>2, KenmoreShares DEF Kenmore!FanFrames
    <3>6. f = <<m[1], m[2], m[3], t[1], t[2], n[1], n[2]>>
      BY DEF Kenmore!AllFrames
    <3> HIDE DEF f, m, t, n
    <3> QED
      BY <3>3, <3>4, <3>5, <3>6 DEF S
  <2>4. unit' \in Kenmore!Units
    BY <2>1, <2>2, <2>3, KLost
  <2> QED
    BY <1>1, <1>2, <1>3, <1>4, <1>7, <2>4
<1> QED
  BY <1>5, <1>6, <1>7 DEF Kenmore!Transmit

(* A call keeps what is certain about the Kenmore.                         *)
LEMMA KControls ==
  ASSUME KInv, NEW c \in Kenmore!Calls, Kenmore!Control(c)
  PROVE  KInv'
<1>0. /\ Belief /\ Clock /\ Counts(MaxCalls) /\ fan \in Kenmore!Fans /\ unit \in Kenmore!Units
      /\ stale \in Kenmore!Fans \cup {"off", "esave", "cool", "between"}
  BY DEF KInv
<1>1. /\ c \in AnyCall(Kenmore!Fans) /\ Believe(c)
      /\ calls < MaxCalls /\ calls' = calls + 1
      /\ \/ /\ unit' = KFanned(c) /\ UNCHANGED troubles
            /\ clean' = (clean /\ ~WrapsSoon) /\ seen' = (seen /\ ~WrapsSoon)
         \/ /\ unit' \in Kenmore!Units /\ troubles < MaxTroubles /\ troubles' = troubles + 1
            /\ clean' = FALSE /\ seen' = FALSE
      /\ \/ unit' # unit /\ stale' \in Kenmore!Readings(unit) \cup {"between"} /\ age' = 0
         \/ unit' = unit /\ UNCHANGED <<stale, age>>
  BY <1>0, KCalls
<1>2. Belief' /\ fan' \in Kenmore!Fans
  BY <1>0, <1>1, BelieveKeeps
<1>3. Counts(MaxCalls)'
  BY <1>0, <1>1, BoundsAssumption DEF Counts
<1>4. KModed(c) \in Kenmore!Units /\ (Powered(mode, unit) => Powered(NewMode(c), KModed(c)))
  BY <1>0, <1>1, KModedOn
<1>5. /\ KFanned(c) \in Kenmore!Units
      /\ KFanned(c).on = KModed(c).on /\ KFanned(c).cools = KModed(c).cools
      /\ KFanned(c).eco = KModed(c).eco
      /\ KFanned(c).temp = KWarmed(c).temp
      /\ KModed(c).on /\ KModed(c).cools =>
           KWarmed(c).temp = Warmed(Warmed(KModed(c).temp, TempFrames(c)[1]), TempFrames(c)[2])
      /\ ~SendsTemp(c) => KWarmed(c) = KModed(c)
  BY <1>0, <1>1, <1>4, KRest
<1>6. unit' \in Kenmore!Units
  BY <1>1, <1>5
<1>7. stale' \in Kenmore!Fans \cup {"off", "esave", "cool", "between"}
  <2>1. Kenmore!Readings(unit) \subseteq Kenmore!Fans \cup {"off", "esave", "cool"}
    BY <1>0 DEF Kenmore!Readings, Kenmore!Units
  <2> QED
    BY <1>0, <1>1, <2>1
<1>8. clean' \in BOOLEAN /\ seen' \in BOOLEAN
  BY <1>1
<1>9. clean' \/ seen' => (clean \/ seen) /\ ~WrapsSoon /\ unit' = KFanned(c)
  BY <1>1
<1>10. /\ mode' = NewMode(c) /\ preset' = NewPreset(c) /\ now' = now /\ last' \in {last, now}
       /\ targetF' = IF SendsTemp(c) THEN Goal(c) ELSE KnownTemp(c)
       /\ Switches(c) \/ c.temp # 0 \/ SendsTemp(c) \/ c.fan # Unset => last' = now
  BY <1>1 DEF Believe
<1>11. Clock'
  <2>1. clean' \/ seen' => last' = now \/ age' = age
    BY <1>0, <1>1, <1>9, <1>10, KNothingSent
  <2>2. age' \in {age, 0}
    BY <1>1
  <2> QED
    BY <1>0, <1>8, <1>9, <1>10, <2>1, <2>2, ClockCommand
<1>12. ASSUME clean'
       PROVE  /\ KStep(mode', preset', unit')
              /\ mode' = "FAN_ONLY" => targetF' = 0
              /\ mode' = "COOL" /\ targetF' > 0 => unit'.temp = targetF'
  <2>0. clean /\ unit' = KFanned(c)
    BY <1>1, <1>12
  <2>1. /\ KStep(NewMode(c), NewPreset(c), KModed(c))
        /\ NewMode(c) = "COOL" /\ KnownTemp(c) > 0 => KModed(c).temp = KnownTemp(c)
    BY <1>1, <2>0, KModedInStep
  <2>2. KStep(mode', preset', unit')
    BY <1>5, <1>10, <2>0, <2>1 DEF KStep, Powered
  <2>3. ASSUME mode' = "FAN_ONLY" PROVE targetF' = 0
    <3>1. ~SendsTemp(c) /\ NewMode(c) = "FAN_ONLY" /\ NewPreset(c) # "ECO"
      BY <1>0, <1>1, <1>10, <2>3, CallGoals DEF SendsTemp
    <3>2. NewPreset(c) = "NONE"
      BY <1>0, <1>1, <3>1, CallGoals DEF Presets
    <3>3. CASE Switches(c)
      BY <1>10, <3>1, <3>2, <3>3 DEF KnownTemp
    <3>4. CASE ~Switches(c)
      BY <1>10, <2>0, <3>1, <3>4 DEF KnownTemp, Switches, KInv
    <3> QED
      BY <3>3, <3>4
  <2>4. ASSUME mode' = "COOL", targetF' > 0 PROVE unit'.temp = targetF'
    <3>1. KModed(c).on /\ KModed(c).cools /\ KModed(c).temp \in Temps
      BY <1>4, <1>10, <2>1, <2>4, KenmoreShares DEF KStep, Powered, Kenmore!Units
    <3>2. CASE SendsTemp(c)
      <4>1. KnownTemp(c) > 0 => KModed(c).temp = KnownTemp(c)
        BY <1>10, <2>1, <2>4
      <4>2. KWarmed(c).temp = Goal(c)
        BY <1>0, <1>1, <1>5, <3>1, <3>2, <4>1, TempArrives
      <4> QED
        BY <1>5, <1>10, <2>0, <3>2, <4>2
    <3>3. CASE ~SendsTemp(c)
      BY <1>5, <1>10, <2>0, <2>1, <2>4, <3>3
    <3> QED
      BY <3>2, <3>3
  <2> QED
    BY <2>2, <2>3, <2>4
<1>13. ASSUME seen' PROVE Powered(mode', unit')
  <2>1. seen /\ unit' = KFanned(c)
    BY <1>1, <1>13
  <2>2. Powered(mode, unit)
    BY <2>1 DEF KInv, Kenmore!PowerKnown, Powered
  <2> QED
    BY <1>4, <1>5, <1>10, <2>1, <2>2 DEF Powered
<1> QED
  BY <1>2, <1>3, <1>6, <1>7, <1>11, <1>12, <1>13
     DEF KInv, Kenmore!TempInStep, Kenmore!PowerKnown, Powered

-----------------------------------------------------------------------------
(* What the Kenmore component makes of a reading.                          *)

KReadings == Kenmore!Fans \cup {"off", "esave", "cool", "between"}

(* A reading leaves a belief of the right types, and outside of an update  *)
(* the mode and preset as they were.                                       *)
LEMMA KLearns ==
  ASSUME Belief, fan \in Kenmore!Fans, NEW p \in KReadings, NEW up, Kenmore!Learn(p, up)
  PROVE  /\ Belief' /\ fan' \in Kenmore!Fans /\ targetF' = targetF
         /\ ~up => mode' = mode /\ preset' = preset
<1>1. mode' \in {mode, "COOL", "OFF", "FAN_ONLY"} /\ preset' \in {preset, "NONE", "ECO"}
  BY DEF Kenmore!Learn
<1>2. mode' \in Modes /\ preset' \in Presets
  BY <1>1 DEF Belief, Modes, Presets
<1>3. action' \in Actions
  BY DEF Kenmore!Learn, Belief, Actions
<1>4. fan' \in Kenmore!Fans
  BY DEF Kenmore!Learn
<1>5. UNCHANGED <<target, targetF>>
  BY DEF Kenmore!Learn
<1>6. ~up => mode' = mode /\ preset' = preset
  BY DEF Kenmore!Learn
<1>7. ASSUME preset' = "ECO" PROVE mode' = "COOL"
  BY <1>7 DEF Kenmore!Learn, Belief, KReadings, Kenmore!Fans
<1> QED
  BY <1>2, <1>3, <1>4, <1>5, <1>6, <1>7 DEF Belief

(* A reading of the unit as it is tells nothing new to a component that is *)
(* in step with it, and the power to any.                                  *)
LEMMA KTruth ==
  ASSUME Belief, unit \in Kenmore!Units, NEW p \in Kenmore!Readings(unit), NEW up,
         Kenmore!Learn(p, up)
  PROVE  /\ KStep(mode, preset, unit) => mode' = mode /\ (mode # "OFF" => preset' = preset)
         /\ Powered(mode, unit) => Powered(mode', unit)
         /\ up => Powered(mode', unit)
<1>0. unit.on \in BOOLEAN /\ unit.cools \in BOOLEAN /\ unit.eco \in BOOLEAN
      /\ unit.fan \in Kenmore!Fans /\ mode \in Modes
  BY DEF Kenmore!Units, Belief
<1>1. CASE p = "off"
  <2>1. ~unit.on
    BY <1>0, <1>1 DEF Kenmore!Readings, Kenmore!Fans
  <2>2. /\ mode' = IF up THEN "OFF" ELSE mode
    BY <1>1 DEF Kenmore!Learn, Kenmore!Fans
  <2> QED
    BY <2>1, <2>2 DEF KStep, Powered
<1>2. CASE p \in Kenmore!Fans
  <2>1. unit.on
    BY <1>0, <1>2 DEF Kenmore!Readings, Kenmore!Fans
  <2>2. /\ mode' = IF up /\ mode = "OFF" THEN "FAN_ONLY" ELSE mode
        /\ preset' = preset
    BY <1>2 DEF Kenmore!Learn, Kenmore!Fans
  <2> QED
    BY <2>1, <2>2 DEF KStep, Powered
<1>3. CASE p = "cool"
  <2>1. unit.on /\ unit.cools
    BY <1>0, <1>3 DEF Kenmore!Readings, Kenmore!Fans
  <2>2. /\ mode' = IF up THEN "COOL" ELSE mode
        /\ preset' = preset
    BY <1>3 DEF Kenmore!Learn, Kenmore!Fans
  <2> QED
    BY <1>0, <2>1, <2>2 DEF KStep, Powered, Modes
<1>4. CASE p = "esave"
  <2>1. unit.on /\ unit.cools /\ unit.eco
    BY <1>0, <1>4 DEF Kenmore!Readings, Kenmore!Fans
  <2>2. /\ mode' = IF up THEN "COOL" ELSE mode
        /\ preset' = IF up THEN "ECO" ELSE preset
    BY <1>4 DEF Kenmore!Learn, Kenmore!Fans
  <2> QED
    BY <1>0, <2>1, <2>2 DEF KStep, Powered, Modes
<1>5. p \in Kenmore!Fans \cup {"off", "cool", "esave"}
  BY <1>0 DEF Kenmore!Readings
<1> QED
  BY <1>1, <1>2, <1>3, <1>4, <1>5

(* A reading, fresh or old, changes nothing that is certain.               *)
LEMMA KSenses ==
  ASSUME KInv, Kenmore!Sense
  PROVE  KInv'
<1>0. /\ Belief /\ Clock /\ Counts(MaxCalls) /\ fan \in Kenmore!Fans /\ unit \in Kenmore!Units
      /\ stale \in KReadings
  BY DEF KInv, KReadings
<1> DEFINE up == Kenmore!UpdateMode(now')
<1>1. /\ now' = (now + 1) % Wrap /\ age' = (IF age <= Lag THEN age + 1 ELSE age)
      /\ UNCHANGED <<last, unit, stale, clean, calls, troubles>>
      /\ \/ /\ \E p \in Kenmore!Readings(unit) : Kenmore!Learn(p, up)
            /\ seen' = (seen \/ (up /\ age' > Lag))
         \/ age' <= Lag /\ Kenmore!Learn(stale, up) /\ UNCHANGED seen
  BY DEF Kenmore!Sense
<1>2. PICK p \in KReadings :
        /\ Kenmore!Learn(p, up)
        /\ \/ p \in Kenmore!Readings(unit) /\ seen' = (seen \/ (up /\ age' > Lag))
           \/ p = stale /\ age' <= Lag /\ seen' = seen
  <2>1. Kenmore!Readings(unit) \subseteq KReadings
    BY <1>0 DEF Kenmore!Readings, Kenmore!Units, KReadings
  <2> QED
    BY <1>0, <1>1, <2>1
<1>3. up = UpdateMode(now')
  BY KenmoreShares
<1> HIDE DEF up
<1>4. /\ Clock'
      /\ (clean \/ seen) /\ age' <= Lag => ~up
  <2>1. seen \in BOOLEAN
    BY <1>0 DEF Clock
  <2>2. CASE seen' = (seen \/ (up /\ age' > Lag))
    <3>1. seen' \in BOOLEAN /\ (seen' => seen \/ age' > Lag)
      BY <2>2
    <3> QED
      BY <1>0, <1>1, <1>3, <3>1, ClockTicks
  <2>3. CASE seen' = seen
    <3>1. seen' \in BOOLEAN /\ (seen' => seen \/ age' > Lag)
      BY <2>1, <2>3
    <3> QED
      BY <1>0, <1>1, <1>3, <3>1, ClockTicks
  <2> QED
    BY <1>2, <2>2, <2>3
<1>5. Belief' /\ fan' \in Kenmore!Fans /\ targetF' = targetF
      /\ (~up => mode' = mode /\ preset' = preset)
  BY <1>0, <1>2, KLearns
<1>6. p \in Kenmore!Readings(unit) =>
        /\ KStep(mode, preset, unit) => mode' = mode /\ (mode # "OFF" => preset' = preset)
        /\ Powered(mode, unit) => Powered(mode', unit)
        /\ up => Powered(mode', unit)
  BY <1>0, <1>2, KTruth
<1>7. ASSUME clean'
      PROVE  /\ KStep(mode', preset', unit')
             /\ mode' = "FAN_ONLY" => targetF' = 0
             /\ mode' = "COOL" /\ targetF' > 0 => unit'.temp = targetF'
  <2>1. /\ clean /\ KStep(mode, preset, unit) /\ (mode = "FAN_ONLY" => targetF = 0)
        /\ mode = "COOL" /\ targetF > 0 => unit.temp = targetF
    BY <1>1, <1>7 DEF KInv, Kenmore!TempInStep
  <2>2. mode' = mode /\ (mode # "OFF" => preset' = preset)
    BY <1>2, <1>4, <1>5, <1>6, <2>1
  <2> QED
    BY <1>1, <1>5, <2>1, <2>2 DEF KStep
<1>8. ASSUME seen' PROVE Powered(mode', unit')
  <2>1. seen => Powered(mode, unit)
    BY DEF KInv, Kenmore!PowerKnown, Powered
  <2>2. Powered(mode', unit)
    BY <1>2, <1>4, <1>5, <1>6, <1>8, <2>1
  <2> QED
    BY <1>1, <2>2
<1>9. Counts(MaxCalls)' /\ unit' \in Kenmore!Units /\ stale' \in KReadings
  BY <1>0, <1>1 DEF Counts
<1> QED
  BY <1>4, <1>5, <1>7, <1>8, <1>9
     DEF KInv, KReadings, Kenmore!TempInStep, Kenmore!PowerKnown, Powered

(* Somebody presses a button: from then on nothing is certain.             *)
LEMMA KTouches ==
  ASSUME KInv, Kenmore!Touch(Kenmore!Press, Kenmore!Commands, Kenmore!Readings(unit))
  PROVE  KInv'
<1>0. /\ Belief /\ Clock /\ Counts(MaxCalls) /\ fan \in Kenmore!Fans /\ unit \in Kenmore!Units
      /\ stale \in KReadings
  BY DEF KInv, KReadings
<1>1. /\ troubles < MaxTroubles /\ troubles' = troubles + 1
      /\ clean' = FALSE /\ seen' = FALSE
      /\ UNCHANGED <<mode, preset, action, fan, target, targetF, last, now, calls>>
      /\ \E cmd \in Kenmore!Commands : unit' = Kenmore!Press(unit, cmd, 1)
      /\ \/ stale' \in Kenmore!Readings(unit) \cup {"between"} /\ age' = 0
         \/ UNCHANGED <<stale, age>>
  BY DEF Kenmore!Touch, Kenmore!Outdates, Kenmore!belief
<1>2. unit' \in Kenmore!Units
  BY <1>0, <1>1, KPressType
<1>3. stale' \in KReadings
  <2>1. Kenmore!Readings(unit) \subseteq KReadings
    BY <1>0 DEF Kenmore!Readings, Kenmore!Units, KReadings
  <2> QED
    BY <1>0, <1>1, <2>1 DEF KReadings
<1>4. Clock'
  <2>1. age \in 0..(Lag + 1) /\ 0 \in 0..(Lag + 1)
    BY <1>0, TimeAssumption DEF Clock
  <2> QED
    BY <1>0, <1>1, <2>1 DEF Clock, Timely
<1>5. Belief'
  BY <1>0, <1>1 DEF Belief
<1>6. Counts(MaxCalls)'
  BY <1>0, <1>1, BoundsAssumption DEF Counts
<1> QED
  BY <1>0, <1>1, <1>2, <1>3, <1>4, <1>5, <1>6
     DEF KInv, KReadings, Kenmore!TempInStep, Kenmore!PowerKnown

(* A component that restarts keeps the mode, and knows no temperature.     *)
LEMMA KReboots ==
  ASSUME KInv, Kenmore!Reboot
  PROVE  KInv'
<1>0. /\ Belief /\ Clock /\ Counts(MaxCalls) /\ fan \in Kenmore!Fans /\ unit \in Kenmore!Units
      /\ stale \in KReadings
  BY DEF KInv, KReadings
<1>1. /\ troubles < MaxTroubles /\ troubles' = troubles + 1
      /\ action' = "OFF" /\ targetF' = 0 /\ last' = 0 /\ now' = 0
      /\ UNCHANGED <<mode, preset, fan, target, unit, stale, age, clean, seen, calls>>
  BY DEF Kenmore!Reboot
<1>2. Belief' /\ Counts(MaxCalls)'
  BY <1>0, <1>1, BoundsAssumption DEF Belief, Counts, Actions
<1>3. Clock'
  BY <1>0, <1>1, ClockReboot
<1>4. /\ clean' => KStep(mode', preset', unit')
      /\ seen' => Powered(mode', unit')
  BY <1>1 DEF KInv, Kenmore!PowerKnown, Powered, KStep
<1> QED
  BY <1>0, <1>1, <1>2, <1>3, <1>4
     DEF KInv, KReadings, Kenmore!TempInStep, Kenmore!PowerKnown, Powered

(* The component starts in step with the unit.                             *)
LEMMA KInits == ASSUME Kenmore!Init PROVE KInv
<1>1. PICK u \in Kenmore!Units : /\ u.cools /\ ~u.eco /\ unit = u
                                 /\ mode = (IF u.on THEN "COOL" ELSE "OFF") /\ fan = u.fan
  BY DEF Kenmore!Init
<1>2. /\ preset = "NONE" /\ action = "OFF" /\ target \in Temps /\ targetF = 0
      /\ last = 0 /\ now = 0 /\ stale = "between" /\ age = Lag + 1
      /\ clean = TRUE /\ seen = TRUE /\ calls = 0 /\ troubles = 0
  BY KenmoreShares DEF Kenmore!Init
<1>3. Belief
  BY <1>1, <1>2 DEF Belief, Modes, Presets, Actions
<1>4. Clock
  BY <1>2, TimeAssumption DEF Clock, Timely
<1>5. Counts(MaxCalls)
  BY <1>2, BoundsAssumption DEF Counts
<1>6. /\ unit \in Kenmore!Units /\ fan \in Kenmore!Fans
      /\ KStep(mode, preset, unit) /\ (mode = "OFF" <=> ~unit.on) /\ mode # "FAN_ONLY"
  BY <1>1, <1>2 DEF Kenmore!Units, KStep, Powered
<1> QED
  BY <1>2, <1>3, <1>4, <1>5, <1>6 DEF KInv, Kenmore!TempInStep, Kenmore!PowerKnown

(* Every step keeps what is certain.                                       *)
LEMMA KNext ==
  ASSUME KInv, [Kenmore!Next]_(Kenmore!vars)
  PROVE  KInv'
<1>1. CASE UNCHANGED Kenmore!vars
  BY <1>1 DEF Kenmore!vars, KInv, Belief, Clock, Timely, Counts, KStep, Powered,
     Kenmore!TempInStep, Kenmore!PowerKnown
<1>2. CASE \E c \in KenmoreRequests : Kenmore!Control(c)
  BY <1>2, KControls, RequestsAssumption
<1> QED
  BY <1>1, <1>2, KSenses, KTouches, KReboots DEF Kenmore!Next

(* The properties of the Kenmore are parts of what every step keeps.       *)
LEMMA KMeans ==
  ASSUME KInv
  PROVE  Kenmore!TypeOK /\ Kenmore!InStep /\ Kenmore!TempInStep /\ Kenmore!PowerKnown
<1>1. Kenmore!TypeOK
  BY KenmoreShares DEF KInv, Belief, Clock, Counts, Kenmore!TypeOK
<1>2. Kenmore!InStep
  BY DEF KInv, Belief, Modes, Kenmore!InStep, KStep, Powered
<1> QED
  BY <1>1, <1>2 DEF KInv

-----------------------------------------------------------------------------
(* The Frigidaire.                                                         *)

LEMMA FrigidaireShares ==
  /\ Frigidaire!Temps = Temps /\ Frigidaire!Modes = Modes /\ Frigidaire!Presets = Presets
  /\ Frigidaire!Actions = Actions /\ Frigidaire!Unset = Unset /\ Frigidaire!Silent = Silent
  /\ Frigidaire!WrapsSoon = WrapsSoon
  /\ \A cmd, n : Frigidaire!Frame(cmd, n) = Frame(cmd, n)
  /\ \A cond, cmd : Frigidaire!FrameIf(cond, cmd) = FrameIf(cond, cmd)
  /\ \A t : Frigidaire!Clamp(t) = Clamp(t) /\ Frigidaire!UpdateMode(t) = UpdateMode(t)
  /\ \A c : /\ Frigidaire!NewMode(c) = NewMode(c) /\ Frigidaire!NewPreset(c) = NewPreset(c)
            /\ Frigidaire!Switches(c) = Switches(c) /\ Frigidaire!Goal(c) = Goal(c)
            /\ Frigidaire!KnownTemp(c) = KnownTemp(c)
            /\ Frigidaire!SendsTemp(c) = SendsTemp(c)
            /\ Frigidaire!TempFrames(c) = TempFrames(c)
BY DEF Temps, Modes, Presets, Actions, Unset, Silent, WrapsSoon, Frame, FrameIf, Clamp,
   UpdateMode, NewMode, NewPreset, Switches, Goal, KnownTemp, SendsTemp, TempFrames,
   Frigidaire!Temps, Frigidaire!Modes, Frigidaire!Presets, Frigidaire!Actions,
   Frigidaire!Unset, Frigidaire!Silent, Frigidaire!WrapsSoon, Frigidaire!Frame,
   Frigidaire!FrameIf, Frigidaire!Clamp, Frigidaire!UpdateMode, Frigidaire!NewMode,
   Frigidaire!NewPreset, Frigidaire!Switches, Frigidaire!Goal, Frigidaire!KnownTemp,
   Frigidaire!SendsTemp, Frigidaire!TempFrames

FHear(u, f) == Frigidaire!Press(u, f.cmd, f.count)
FModed(c) == LET f == Frigidaire!ModeFrames(c)
             IN  FHear(FHear(FHear(unit, f[1]), f[2]), f[3])
FWarmed(c) == FHear(FHear(FModed(c), TempFrames(c)[1]), TempFrames(c)[2])
FFanned(c) == FHear(FHear(FWarmed(c), Frigidaire!FanFrames(c)[1]), Frigidaire!FanFrames(c)[2])

(* What the unit makes of all seven frames is what it makes of the three   *)
(* groups in turn.                                                         *)
LEMMA FHeard ==
  ASSUME NEW c
  PROVE  Frigidaire!Receive(Frigidaire!Press, unit,
           Frigidaire!AllFrames(Frigidaire!ModeFrames(c), Frigidaire!TempFrames(c),
                                Frigidaire!FanFrames(c)))
         = FFanned(c)
<1>1. Frigidaire!TempFrames(c) = TempFrames(c)
  BY FrigidaireShares
<1> QED
  BY <1>1 DEF Frigidaire!Receive, Frigidaire!AllFrames, FModed, FWarmed, FFanned, FHear

(* A place without a frame changes nothing.                                *)
LEMMA FSilent == ASSUME NEW u, NEW f, f.count = 0 PROVE FHear(u, f) = u
BY DEF FHear, Frigidaire!Press

(* POWER toggles the power, and the unit forgets its temperature.          *)
LEMMA FPower ==
  ASSUME NEW u \in Frigidaire!Units
  PROVE  FHear(u, Frame("POWER", 1)) = [u EXCEPT !.on = ~u.on, !.temp = PowerOnTemp]
BY DEF FHear, Frame, Frigidaire!Press

(* The commands for the modes, to a unit that is on.                       *)
LEMMA FMode ==
  ASSUME NEW u \in Frigidaire!Units, u.on
  PROVE  /\ FHear(u, Frame("MODE_COOL", 1))
              = [u EXCEPT !.cools = TRUE, !.eco = FALSE,
                          !.temp = IF u.cools THEN u.temp ELSE PowerOnTemp]
         /\ FHear(u, Frame("MODE_ESAVE", 1))
              = [u EXCEPT !.cools = TRUE, !.eco = TRUE,
                          !.temp = IF u.cools THEN u.temp ELSE PowerOnTemp]
         /\ FHear(u, Frame("MODE_FAN", 1)) = [u EXCEPT !.cools = FALSE, !.eco = FALSE]
BY DEF FHear, Frame, Frigidaire!Press

FanCommands == {"FAN_UP", "FAN_DOWN", "FAN_AUTO"}
Up(speed, n) == IF speed + n > 3 THEN 3 ELSE speed + n
Down(speed, n) == IF speed - n < 1 THEN 1 ELSE speed - n

(* Only POWER switches on or off, whatever else the unit makes of a frame. *)
LEMMA FPressType ==
  ASSUME NEW u \in Frigidaire!Units, NEW cmd, NEW n \in Nat
  PROVE  /\ Frigidaire!Press(u, cmd, n) \in Frigidaire!Units
         /\ cmd # "POWER" => Frigidaire!Press(u, cmd, n).on = u.on
<1>0. /\ u.on \in BOOLEAN /\ u.cools \in BOOLEAN /\ u.eco \in BOOLEAN
      /\ u.temp \in Temps /\ u.speed \in 1..3 /\ u.auto \in BOOLEAN
      /\ u = [on |-> u.on, cools |-> u.cools, eco |-> u.eco, temp |-> u.temp,
              speed |-> u.speed, auto |-> u.auto]
  BY FrigidaireShares DEF Frigidaire!Units
<1>1. PowerOnTemp \in Temps
  BY TempAssumption DEF Temps
<1>2. CASE n = 0
  BY <1>2 DEF Frigidaire!Press
<1>3. CASE n > 0 /\ cmd = "POWER"
  <2>1. Frigidaire!Press(u, cmd, n) = [u EXCEPT !.on = ~u.on, !.temp = PowerOnTemp]
    BY <1>3 DEF Frigidaire!Press
  <2> QED
    BY <1>0, <1>1, <1>3, <2>1, FrigidaireShares DEF Frigidaire!Units
<1>4. CASE n > 0 /\ cmd \in {"MODE_COOL", "MODE_ESAVE"} /\ u.on
  <2>1. \E b \in BOOLEAN, t \in Temps :
          Frigidaire!Press(u, cmd, n) = [u EXCEPT !.cools = TRUE, !.eco = b, !.temp = t]
    <3>1. CASE cmd = "MODE_COOL"
      <4>1. Frigidaire!Press(u, cmd, n)
              = [u EXCEPT !.cools = TRUE, !.eco = FALSE,
                          !.temp = IF u.cools THEN u.temp ELSE PowerOnTemp]
        BY <1>4, <3>1 DEF Frigidaire!Press
      <4> QED
        BY <1>0, <1>1, <4>1
    <3>2. CASE cmd = "MODE_ESAVE"
      <4>1. Frigidaire!Press(u, cmd, n)
              = [u EXCEPT !.cools = TRUE, !.eco = TRUE,
                          !.temp = IF u.cools THEN u.temp ELSE PowerOnTemp]
        BY <1>4, <3>2 DEF Frigidaire!Press
      <4> QED
        BY <1>0, <1>1, <4>1
    <3> QED
      BY <1>4, <3>1, <3>2
  <2> QED
    BY <1>0, <2>1, FrigidaireShares DEF Frigidaire!Units
<1>5. CASE n > 0 /\ cmd = "MODE_FAN" /\ u.on
  <2>1. Frigidaire!Press(u, cmd, n) = [u EXCEPT !.cools = FALSE, !.eco = FALSE]
    BY <1>5 DEF Frigidaire!Press
  <2> QED
    BY <1>0, <2>1, FrigidaireShares DEF Frigidaire!Units
<1>6. CASE n > 0 /\ cmd \in TempCommands /\ u.on /\ u.cools
  <2>1. Frigidaire!Press(u, cmd, n) = Frigidaire!TempPress(u, cmd, n)
    BY <1>6 DEF Frigidaire!Press, TempCommands
  <2> DEFINE t == IF cmd = "TEMP_UP" THEN u.temp + n ELSE u.temp - n
  <2>2. Clamp(t) \in Temps
    BY <1>0, TempAssumption DEF Clamp, Temps
  <2>3. Frigidaire!TempPress(u, cmd, n) = [u EXCEPT !.temp = Clamp(t)]
    BY FrigidaireShares DEF Frigidaire!TempPress
  <2> QED
    BY <1>0, <2>1, <2>2, <2>3, FrigidaireShares DEF Frigidaire!Units
<1>7. CASE n > 0 /\ cmd \in FanCommands /\ u.on
  <2>1. \E k \in 1..3, b \in BOOLEAN :
          Frigidaire!Press(u, cmd, n) = [u EXCEPT !.speed = k, !.auto = b]
    <3>1. Up(u.speed, n) \in 1..3 /\ Down(u.speed, n) \in 1..3
      BY <1>0 DEF Up, Down
    <3>2. CASE cmd = "FAN_UP"
      <4>1. Frigidaire!Press(u, cmd, n) = [u EXCEPT !.speed = Up(u.speed, n), !.auto = FALSE]
        BY <1>7, <3>2 DEF Frigidaire!Press, Up
      <4> QED
        BY <3>1, <4>1
    <3>3. CASE cmd = "FAN_DOWN"
      <4>1. Frigidaire!Press(u, cmd, n) = [u EXCEPT !.speed = Down(u.speed, n), !.auto = FALSE]
        BY <1>7, <3>3 DEF Frigidaire!Press, Down
      <4> QED
        BY <3>1, <4>1
    <3>4. CASE cmd = "FAN_AUTO"
      <4>1. Frigidaire!Press(u, cmd, n) = [u EXCEPT !.auto = TRUE]
        BY <1>7, <3>4 DEF Frigidaire!Press
      <4>2. [u EXCEPT !.auto = TRUE] = [u EXCEPT !.speed = u.speed, !.auto = TRUE]
        BY <1>0
      <4> QED
        BY <1>0, <4>1, <4>2
    <3> QED
      BY <1>7, <3>2, <3>3, <3>4 DEF FanCommands
  <2> QED
    BY <1>0, <2>1, FrigidaireShares DEF Frigidaire!Units
<1>8. CASE /\ ~(n = 0) /\ ~(n > 0 /\ cmd = "POWER")
           /\ ~(n > 0 /\ cmd \in {"MODE_COOL", "MODE_ESAVE"} /\ u.on)
           /\ ~(n > 0 /\ cmd = "MODE_FAN" /\ u.on)
           /\ ~(n > 0 /\ cmd \in TempCommands /\ u.on /\ u.cools)
           /\ ~(n > 0 /\ cmd \in FanCommands /\ u.on)
  <2>1. Frigidaire!Press(u, cmd, n) = u
    BY <1>8 DEF Frigidaire!Press, TempCommands, FanCommands
  <2> QED
    BY <1>8, <2>1
<1> QED
  BY <1>2, <1>3, <1>4, <1>5, <1>6, <1>7, <1>8

(* A command for the temperature changes the temperature only, and only of *)
(* a unit that cools.                                                      *)
LEMMA FTemp ==
  ASSUME NEW u \in Frigidaire!Units, NEW f \in Frames(TempCommands)
  PROVE  /\ FHear(u, f) \in Frigidaire!Units
         /\ FHear(u, f).on = u.on /\ FHear(u, f).cools = u.cools /\ FHear(u, f).eco = u.eco
         /\ u.on /\ u.cools => FHear(u, f).temp = Warmed(u.temp, f)
<1>0. f.count \in Nat /\ (f.cmd \in TempCommands \/ f.count = 0)
  BY DEF Frames, Silent, Frame
<1>1. FHear(u, f) \in Frigidaire!Units
  BY <1>0, FPressType DEF FHear
<1>2. CASE f.count > 0 /\ f.cmd \in TempCommands /\ u.on /\ u.cools
  <2> DEFINE t == IF f.cmd = "TEMP_UP" THEN u.temp + f.count ELSE u.temp - f.count
  <2>1. FHear(u, f) = Frigidaire!TempPress(u, f.cmd, f.count)
    BY <1>2 DEF FHear, Frigidaire!Press, TempCommands
  <2>2. Frigidaire!TempPress(u, f.cmd, f.count) = [u EXCEPT !.temp = Clamp(t)]
    BY FrigidaireShares DEF Frigidaire!TempPress
  <2>3. Warmed(u.temp, f) = Clamp(t)
    BY <1>2 DEF Warmed
  <2> QED
    BY <1>1, <1>2, <2>1, <2>2, <2>3 DEF Frigidaire!Units
<1>3. CASE f.count = 0
  BY <1>1, <1>3, FSilent DEF Warmed
<1>4. CASE f.count > 0 /\ f.cmd \in TempCommands /\ ~(u.on /\ u.cools)
  <2>1. /\ ~(f.count = 0) /\ ~(f.count > 0 /\ f.cmd = "POWER")
        /\ ~(f.count > 0 /\ f.cmd = "MODE_COOL" /\ u.on)
        /\ ~(f.count > 0 /\ f.cmd = "MODE_ESAVE" /\ u.on)
        /\ ~(f.count > 0 /\ f.cmd = "MODE_FAN" /\ u.on)
        /\ ~(f.count > 0 /\ f.cmd \in TempCommands /\ u.on /\ u.cools)
        /\ ~(f.count > 0 /\ f.cmd = "FAN_UP" /\ u.on)
        /\ ~(f.count > 0 /\ f.cmd = "FAN_DOWN" /\ u.on)
        /\ ~(f.count > 0 /\ f.cmd = "FAN_AUTO" /\ u.on)
    BY <1>4 DEF TempCommands
  <2>2. FHear(u, f) = u
    BY <2>1 DEF FHear, Frigidaire!Press, TempCommands
  <2> QED
    BY <1>1, <1>4, <2>2
<1> QED
  BY <1>0, <1>2, <1>3, <1>4

(* A step of the fan.                                                      *)
LEMMA FFan ==
  ASSUME NEW u \in Frigidaire!Units, NEW f \in Frames(FanCommands)
  PROVE  /\ FHear(u, f) \in Frigidaire!Units
         /\ FHear(u, f).on = u.on /\ FHear(u, f).cools = u.cools /\ FHear(u, f).eco = u.eco
         /\ FHear(u, f).temp = u.temp
         /\ u.on /\ f.count > 0 =>
              /\ f.cmd = "FAN_UP" => FHear(u, f).speed = Up(u.speed, f.count)
              /\ f.cmd = "FAN_DOWN" => FHear(u, f).speed = Down(u.speed, f.count)
              /\ f.cmd = "FAN_AUTO" => FHear(u, f).auto
<1>0. f.count \in Nat /\ (f.cmd \in FanCommands \/ f.count = 0)
  BY DEF Frames, Silent, Frame
<1>1. FHear(u, f) \in Frigidaire!Units
  BY <1>0, FPressType DEF FHear
<1>2. CASE f.count = 0
  BY <1>1, <1>2, FSilent
<1>3. CASE f.count > 0 /\ f.cmd = "FAN_UP" /\ u.on
  <2>1. FHear(u, f) = [u EXCEPT !.speed = Up(u.speed, f.count), !.auto = FALSE]
    BY <1>3 DEF FHear, Frigidaire!Press, Up
  <2> QED
    BY <1>1, <1>3, <2>1 DEF Frigidaire!Units
<1>4. CASE f.count > 0 /\ f.cmd = "FAN_DOWN" /\ u.on
  <2>1. FHear(u, f) = [u EXCEPT !.speed = Down(u.speed, f.count), !.auto = FALSE]
    BY <1>4 DEF FHear, Frigidaire!Press, Down
  <2> QED
    BY <1>1, <1>4, <2>1 DEF Frigidaire!Units
<1>5. CASE f.count > 0 /\ f.cmd = "FAN_AUTO" /\ u.on
  <2>1. FHear(u, f) = [u EXCEPT !.auto = TRUE]
    BY <1>5 DEF FHear, Frigidaire!Press
  <2> QED
    BY <1>1, <1>5, <2>1 DEF Frigidaire!Units
<1>6. CASE f.count > 0 /\ f.cmd \in FanCommands /\ ~u.on
  <2>1. FHear(u, f) = u
    <3>1. /\ f.cmd # "POWER" /\ ~(f.count = 0)
      BY <1>6 DEF FanCommands
    <3> QED
      BY <1>6, <3>1 DEF FHear, Frigidaire!Press
  <2> QED
    BY <1>1, <1>6, <2>1
<1> QED
  BY <1>0, <1>2, <1>3, <1>4, <1>5, <1>6 DEF FanCommands

(* The commands for the mode, place by place.                              *)
ModeCommand(c) == IF NewPreset(c) = "ECO" THEN "MODE_ESAVE"
                  ELSE IF NewMode(c) = "COOL" THEN "MODE_COOL"
                  ELSE IF NewMode(c) = "FAN_ONLY" THEN "MODE_FAN" ELSE "POWER"

(* POWER first if the unit is off, then the one command for the mode.      *)
LEMMA FModeFrames ==
  ASSUME Belief, NEW F, NEW c \in AnyCall(F)
  PROVE  LET f == Frigidaire!ModeFrames(c) IN
         /\ ~Switches(c) => f[1] = Silent /\ f[2] = Silent /\ f[3] = Silent
         /\ Switches(c) => /\ f[1] = FrameIf(mode = "OFF", "POWER")
                           /\ f[2] = Frame(ModeCommand(c), 1)
                           /\ f[3] = Silent
<1>1. NewMode(c) \in Modes
  BY CallGoals
<1>2. CASE ~Switches(c)
  BY <1>2, FrigidaireShares DEF Frigidaire!ModeFrames
<1>3. CASE Switches(c) /\ NewPreset(c) = "ECO"
  BY <1>3, FrigidaireShares DEF Frigidaire!ModeFrames, Frigidaire!PowerOn, ModeCommand
<1>4. CASE Switches(c) /\ NewPreset(c) # "ECO" /\ NewMode(c) = "COOL"
  BY <1>4, FrigidaireShares DEF Frigidaire!ModeFrames, Frigidaire!PowerOn, ModeCommand
<1>5. CASE Switches(c) /\ NewPreset(c) # "ECO" /\ NewMode(c) = "FAN_ONLY"
  BY <1>5, FrigidaireShares DEF Frigidaire!ModeFrames, Frigidaire!PowerOn, ModeCommand
<1>6. CASE Switches(c) /\ NewPreset(c) # "ECO" /\ NewMode(c) = "OFF"
  BY <1>6, FrigidaireShares DEF Frigidaire!ModeFrames, Frigidaire!PowerOn, ModeCommand
<1> QED
  BY <1>1, <1>2, <1>3, <1>4, <1>5, <1>6 DEF Modes

FStep(m, p, u) == /\ Powered(m, u)
                  /\ m = "COOL" => u.cools /\ (p = "ECO" <=> u.eco)
                  /\ m = "FAN_ONLY" => ~u.cools
FReadings == {"standby", "fan", "cool"}
FInv ==
  /\ Belief /\ Clock /\ Counts(FrigidaireCalls)
  /\ fan \in Frigidaire!Fans /\ unit \in Frigidaire!Units
  /\ stale \in FReadings \cup {"between"}
  /\ clean => /\ FStep(mode, preset, unit)
              /\ mode = "FAN_ONLY" => targetF = 0
              /\ mode = "COOL" /\ targetF > 0 => unit.temp = targetF
  /\ Frigidaire!PowerKnown

(* Power goes the right way; in step, so does the mode.                    *)
LEMMA FModed3 ==
  ASSUME Belief, unit \in Frigidaire!Units, NEW F, NEW c \in AnyCall(F)
  PROVE  /\ FModed(c) \in Frigidaire!Units
         /\ Powered(mode, unit) => Powered(NewMode(c), FModed(c))
         /\ /\ FStep(mode, preset, unit)
            /\ mode = "FAN_ONLY" => targetF = 0
            /\ mode = "COOL" /\ targetF > 0 => unit.temp = targetF
            => /\ FStep(NewMode(c), NewPreset(c), FModed(c))
               /\ NewMode(c) = "COOL" /\ KnownTemp(c) > 0 => FModed(c).temp = KnownTemp(c)
<1> DEFINE f == Frigidaire!ModeFrames(c)
           u1 == FHear(unit, f[1])
           u2 == FHear(u1, f[2])
           u3 == FHear(u2, f[3])
<1>0. /\ FModed(c) = u3 /\ mode \in Modes
      /\ unit.on \in BOOLEAN /\ unit.cools \in BOOLEAN /\ unit.eco \in BOOLEAN
  BY DEF FModed, Frigidaire!Units, Belief
<1>1. /\ NewMode(c) \in Modes
      /\ NewPreset(c) = "ECO" => NewMode(c) = "COOL"
      /\ KnownTemp(c) > 0 => KnownTemp(c) = targetF
      /\ KnownTemp(c) > 0 /\ Switches(c) => mode # "OFF"
  BY <1>0, CallGoals
<1>2. CASE ~Switches(c)
  <2>0. f[1] = Silent /\ f[2] = Silent /\ f[3] = Silent
    BY <1>2, FModeFrames
  <2> HIDE DEF f
  <2>1. f[1].count = 0 /\ f[2].count = 0 /\ f[3].count = 0
    BY <2>0 DEF Silent, Frame
  <2>2. u1 = unit /\ u2 = u1 /\ u3 = u2
    BY <2>1, FSilent
  <2>3. NewMode(c) = mode /\ NewPreset(c) = preset
    BY <1>2 DEF Switches
  <2> QED
    BY <1>0, <1>1, <2>2, <2>3
<1>3. CASE Switches(c)
  <2>1. /\ f[1] = FrameIf(mode = "OFF", "POWER") /\ f[2] = Frame(ModeCommand(c), 1)
        /\ f[3] = Silent
    BY <1>3, FModeFrames
  <2> HIDE DEF f
  <2>2. /\ u1 \in Frigidaire!Units
        /\ Powered(mode, unit) => u1.on
        /\ mode # "OFF" => u1 = unit
    <3>1. CASE mode = "OFF"
      <4>1. u1 = [unit EXCEPT !.on = ~unit.on, !.temp = PowerOnTemp]
        BY <2>1, <3>1, FPower DEF FrameIf
      <4>2. u1 \in Frigidaire!Units
        BY <2>1, <3>1, FPressType DEF FrameIf, Frame, FHear
      <4> QED
        BY <3>1, <4>1, <4>2 DEF Frigidaire!Units, Powered
    <3>2. CASE mode # "OFF"
      <4>1. u1 = unit
        BY <2>1, <3>2, FSilent DEF FrameIf, Silent, Frame
      <4> QED
        BY <3>2, <4>1 DEF Powered
    <3> QED
      BY <3>1, <3>2
  <2>3. u3 = u2
    BY <2>1, FSilent DEF Silent, Frame
  <2>4. u2 \in Frigidaire!Units
    BY <2>1, <2>2, FPressType DEF Frame, FHear
  <2>5. CASE NewMode(c) = "OFF"
    <3>1. u2 = [u1 EXCEPT !.on = ~u1.on, !.temp = PowerOnTemp]
      BY <1>1, <2>1, <2>2, <2>5, FPower DEF ModeCommand
    <3>2. u2.on = ~u1.on
      BY <2>2, <3>1 DEF Frigidaire!Units
    <3> QED
      BY <1>0, <2>2, <2>3, <2>4, <2>5, <3>2 DEF FStep, Powered
  <2>6. CASE NewMode(c) # "OFF"
    <3>1. u2.on = u1.on
      <4>1. ModeCommand(c) # "POWER"
        BY <1>1, <2>6 DEF ModeCommand, Modes
      <4> QED
        BY <2>1, <2>2, <4>1, FPressType DEF Frame, FHear
    <3>2. Powered(mode, unit) => Powered(NewMode(c), u2)
      BY <2>2, <2>6, <3>1 DEF Powered
    <3>3. ASSUME FStep(mode, preset, unit)
          PROVE  FStep(NewMode(c), NewPreset(c), u2)
      <4>1. u1.on /\ Powered(NewMode(c), u2)
        BY <2>2, <3>2, <3>3 DEF FStep
      <4>2. CASE NewMode(c) = "FAN_ONLY"
        <5>1. u2 = [u1 EXCEPT !.cools = FALSE, !.eco = FALSE]
          BY <1>1, <2>1, <2>2, <4>1, <4>2, FMode DEF ModeCommand
        <5> QED
          BY <2>2, <4>1, <4>2, <5>1 DEF FStep, Frigidaire!Units
      <4>3. CASE NewMode(c) = "COOL"
        <5>1. u2 = [u1 EXCEPT !.cools = TRUE, !.eco = (NewPreset(c) = "ECO"),
                              !.temp = IF u1.cools THEN u1.temp ELSE PowerOnTemp]
          BY <2>1, <2>2, <4>1, <4>3, FMode DEF ModeCommand
        <5> QED
          BY <2>2, <4>1, <4>3, <5>1 DEF FStep, Frigidaire!Units
      <4> QED
        BY <1>1, <2>6, <4>2, <4>3 DEF Modes
    <3>4. ASSUME FStep(mode, preset, unit), mode = "FAN_ONLY" => targetF = 0,
                 mode = "COOL" /\ targetF > 0 => unit.temp = targetF,
                 NewMode(c) = "COOL", KnownTemp(c) > 0
          PROVE  u2.temp = KnownTemp(c)
      <4>1. targetF > 0 /\ mode # "OFF" /\ mode # "FAN_ONLY" /\ KnownTemp(c) = targetF
        BY <1>1, <1>3, <3>4
      <4>2. mode = "COOL" /\ u1 = unit /\ unit.cools /\ unit.temp = targetF /\ u1.on
        BY <1>0, <2>2, <3>4, <4>1 DEF Modes, FStep
      <4>3. ModeCommand(c) \in {"MODE_COOL", "MODE_ESAVE"}
        BY <3>4 DEF ModeCommand
      <4>4. u2.temp = u1.temp
        <5> HIDE DEF u1
        <5> DEFINE t == IF u1.cools THEN u1.temp ELSE PowerOnTemp
        <5>1. u1.on /\ u1.cools /\ t = u1.temp
          BY <4>2
        <5>2. CASE ModeCommand(c) = "MODE_COOL"
          <6>1. u2 = [u1 EXCEPT !.cools = TRUE, !.eco = FALSE, !.temp = t]
            BY <2>1, <2>2, <5>1, <5>2, FMode
          <6> QED
            BY <2>2, <5>1, <6>1 DEF Frigidaire!Units
        <5>3. CASE ModeCommand(c) = "MODE_ESAVE"
          <6>1. u2 = [u1 EXCEPT !.cools = TRUE, !.eco = TRUE, !.temp = t]
            BY <2>1, <2>2, <5>1, <5>3, FMode
          <6> QED
            BY <2>2, <5>1, <6>1 DEF Frigidaire!Units
        <5> QED
          BY <4>3, <5>2, <5>3
      <4> QED
        BY <4>1, <4>2, <4>4
    <3> QED
      BY <1>0, <2>3, <2>4, <3>2, <3>3, <3>4
  <2> QED
    BY <2>5, <2>6
<1> QED
  BY <1>2, <1>3

(* The steps for each fan speed, place by place.                           *)
LEMMA FFanFrames ==
  ASSUME NEW c \in AnyCall(Frigidaire!Fans)
  PROVE  LET g == Frigidaire!FanFrames(c) IN
         /\ g[1] \in Frames(FanCommands) /\ g[2] \in Frames(FanCommands)
         /\ c.fan = "AUTO" => g[2] = Frame("FAN_AUTO", 1)
         /\ c.fan = "HIGH" => g[1] = Frame("FAN_UP", 3) /\ g[2] = Silent
         /\ c.fan = "MEDIUM" => g[1] = Frame("FAN_DOWN", 3) /\ g[2] = Frame("FAN_UP", 1)
         /\ c.fan = "LOW" => g[1] = Frame("FAN_DOWN", 3) /\ g[2] = Silent
         /\ c.fan = Unset => g[1] = Silent /\ g[2] = Silent
<1>1. c.fan \in {"AUTO", "LOW", "MEDIUM", "HIGH", Unset}
  BY DEF AnyCall, Frigidaire!Fans
<1>2. Frigidaire!AllSteps = 3
  BY DEF Frigidaire!AllSteps, Frigidaire!Speeds
<1>3. \A cmd \in FanCommands, n \in Nat : Frame(cmd, n) \in Frames(FanCommands)
  BY DEF Frame, Frames
<1>4. Silent \in Frames(FanCommands) /\ 1 \in Nat /\ 3 \in Nat
  BY DEF Frames
<1>5. FanCommands = {"FAN_UP", "FAN_DOWN", "FAN_AUTO"}
  BY DEF FanCommands
<1>6. CASE c.fan = "AUTO"
  <2>1. Frigidaire!FanFrames(c) = <<Frame("FAN_DOWN", 1), Frame("FAN_AUTO", 1)>>
    BY <1>6, FrigidaireShares DEF Frigidaire!FanFrames
  <2> QED
    BY <1>3, <1>4, <1>5, <1>6, <2>1 DEF Unset
<1>7. CASE c.fan = "HIGH"
  <2>1. Frigidaire!FanFrames(c) = <<Frame("FAN_UP", 3), Silent>>
    BY <1>2, <1>7, FrigidaireShares DEF Frigidaire!FanFrames
  <2> QED
    BY <1>3, <1>4, <1>5, <1>7, <2>1 DEF Unset
<1>8. CASE c.fan = "MEDIUM"
  <2>1. Frigidaire!FanFrames(c) = <<Frame("FAN_DOWN", 3), Frame("FAN_UP", 1)>>
    BY <1>2, <1>8, FrigidaireShares DEF Frigidaire!FanFrames
  <2> QED
    BY <1>3, <1>4, <1>5, <1>8, <2>1 DEF Unset
<1>9. CASE c.fan = "LOW"
  <2>1. Frigidaire!FanFrames(c) = <<Frame("FAN_DOWN", 3), Silent>>
    BY <1>2, <1>9, FrigidaireShares DEF Frigidaire!FanFrames
  <2> QED
    BY <1>3, <1>4, <1>5, <1>9, <2>1 DEF Unset
<1>10. CASE c.fan = Unset
  <2>1. Frigidaire!FanFrames(c) = <<Silent, Silent>>
    BY <1>10, FrigidaireShares DEF Frigidaire!FanFrames, Unset
  <2> QED
    BY <1>4, <1>10, <2>1 DEF Unset
<1> QED
  BY <1>1, <1>6, <1>7, <1>8, <1>9, <1>10

(* The rest of the frames; counted steps end where the component says.     *)
LEMMA FRest ==
  ASSUME Belief, NEW c \in AnyCall(Frigidaire!Fans), FModed(c) \in Frigidaire!Units
  PROVE  /\ FFanned(c) \in Frigidaire!Units
         /\ FFanned(c).on = FModed(c).on /\ FFanned(c).cools = FModed(c).cools
         /\ FFanned(c).eco = FModed(c).eco
         /\ FFanned(c).temp = FWarmed(c).temp
         /\ FModed(c).on /\ FModed(c).cools =>
              FWarmed(c).temp = Warmed(Warmed(FModed(c).temp, TempFrames(c)[1]),
                                       TempFrames(c)[2])
         /\ ~SendsTemp(c) => FWarmed(c) = FModed(c)
         /\ FModed(c).on /\ c.fan # Unset =>
              IF c.fan = "AUTO" THEN FFanned(c).auto
              ELSE Frigidaire!Speeds[FFanned(c).speed] = c.fan
<1> DEFINE g == Frigidaire!FanFrames(c)
           w == FHear(FModed(c), TempFrames(c)[1])
           v == FHear(FWarmed(c), g[1])
<1>0. FWarmed(c) = FHear(w, TempFrames(c)[2]) /\ FFanned(c) = FHear(v, g[2])
  BY DEF FWarmed, FFanned
<1>1. /\ TempFrames(c)[1] \in Frames(TempCommands) /\ TempFrames(c)[2] \in Frames(TempCommands)
      /\ ~SendsTemp(c) => TempFrames(c)[1].count = 0 /\ TempFrames(c)[2].count = 0
  BY TempFrameTypes
<1>2. /\ w \in Frigidaire!Units
      /\ w.on = FModed(c).on /\ w.cools = FModed(c).cools /\ w.eco = FModed(c).eco
      /\ FModed(c).on /\ FModed(c).cools => w.temp = Warmed(FModed(c).temp, TempFrames(c)[1])
  BY <1>1, FTemp
<1>3. /\ FWarmed(c) \in Frigidaire!Units
      /\ FWarmed(c).on = w.on /\ FWarmed(c).cools = w.cools /\ FWarmed(c).eco = w.eco
      /\ w.on /\ w.cools => FWarmed(c).temp = Warmed(w.temp, TempFrames(c)[2])
  BY <1>0, <1>1, <1>2, FTemp
<1>4. /\ g[1] \in Frames(FanCommands) /\ g[2] \in Frames(FanCommands)
      /\ c.fan = "AUTO" => g[2] = Frame("FAN_AUTO", 1)
      /\ c.fan = "HIGH" => g[1] = Frame("FAN_UP", 3) /\ g[2] = Silent
      /\ c.fan = "MEDIUM" => g[1] = Frame("FAN_DOWN", 3) /\ g[2] = Frame("FAN_UP", 1)
      /\ c.fan = "LOW" => g[1] = Frame("FAN_DOWN", 3) /\ g[2] = Silent
  BY FFanFrames
<1> HIDE DEF g
<1>5. /\ v \in Frigidaire!Units
      /\ v.on = FWarmed(c).on /\ v.cools = FWarmed(c).cools /\ v.eco = FWarmed(c).eco
      /\ v.temp = FWarmed(c).temp
  BY <1>3, <1>4, FFan
<1>6. /\ FFanned(c) \in Frigidaire!Units
      /\ FFanned(c).on = v.on /\ FFanned(c).cools = v.cools /\ FFanned(c).eco = v.eco
      /\ FFanned(c).temp = v.temp
  BY <1>0, <1>4, <1>5, FFan
<1>7. ~SendsTemp(c) => FWarmed(c) = FModed(c)
  BY <1>0, <1>1, FSilent
<1>8. ASSUME FModed(c).on, c.fan # Unset
      PROVE  IF c.fan = "AUTO" THEN FFanned(c).auto
             ELSE Frigidaire!Speeds[FFanned(c).speed] = c.fan
  <2>1. FWarmed(c).on /\ v.on /\ FWarmed(c).speed \in 1..3
    BY <1>2, <1>3, <1>5, <1>8 DEF Frigidaire!Units
  <2>2. \A k \in 1..3 : Up(k, 3) = 3 /\ Down(k, 3) = 1 /\ Up(1, 1) = 2
    BY DEF Up, Down
  <2>3. c.fan \in {"AUTO", "LOW", "MEDIUM", "HIGH"}
    BY <1>8 DEF AnyCall, Frigidaire!Fans
  <2>4. CASE c.fan = "AUTO"
    <3>1. g[2].cmd = "FAN_AUTO" /\ g[2].count > 0
      BY <1>4, <2>4 DEF Frame
    <3> QED
      BY <1>0, <1>4, <1>5, <2>1, <2>4, <3>1, FFan
  <2>5. CASE c.fan = "HIGH"
    <3>1. g[1].cmd = "FAN_UP" /\ g[1].count = 3 /\ g[2].count = 0
      BY <1>4, <2>5 DEF Frame, Silent
    <3>2. v.speed = Up(FWarmed(c).speed, 3)
      BY <1>3, <1>4, <2>1, <3>1, FFan
    <3>3. FFanned(c).speed = 3
      BY <1>0, <2>1, <2>2, <3>1, <3>2, FSilent
    <3> QED
      BY <2>5, <3>3 DEF Frigidaire!Speeds
  <2>6. CASE c.fan = "MEDIUM"
    <3>1. g[1].cmd = "FAN_DOWN" /\ g[1].count = 3 /\ g[2].cmd = "FAN_UP" /\ g[2].count = 1
      BY <1>4, <2>6 DEF Frame
    <3>2. v.speed = Down(FWarmed(c).speed, 3)
      BY <1>3, <1>4, <2>1, <3>1, FFan
    <3>3. FFanned(c).speed = Up(v.speed, 1)
      BY <1>0, <1>4, <1>5, <2>1, <3>1, FFan
    <3>4. FFanned(c).speed = 2
      BY <2>1, <2>2, <3>2, <3>3
    <3> QED
      BY <2>6, <3>4 DEF Frigidaire!Speeds
  <2>7. CASE c.fan = "LOW"
    <3>1. g[1].cmd = "FAN_DOWN" /\ g[1].count = 3 /\ g[2].count = 0
      BY <1>4, <2>7 DEF Frame, Silent
    <3>2. v.speed = Down(FWarmed(c).speed, 3)
      BY <1>3, <1>4, <2>1, <3>1, FFan
    <3>3. FFanned(c).speed = 1
      BY <1>0, <2>1, <2>2, <3>1, <3>2, FSilent
    <3> QED
      BY <2>7, <3>3 DEF Frigidaire!Speeds
  <2> QED
    BY <2>3, <2>4, <2>5, <2>6, <2>7
<1> QED
  BY <1>2, <1>3, <1>5, <1>6, <1>7, <1>8

-----------------------------------------------------------------------------
(* A call to the Frigidaire.                                               *)

(* Without a command there is no frame.                                    *)
LEMMA FNothingSent ==
  ASSUME Belief, NEW c \in AnyCall(Frigidaire!Fans),
         ~(Switches(c) \/ c.temp # 0 \/ SendsTemp(c) \/ c.fan # Unset)
  PROVE  FFanned(c) = unit
<1> DEFINE f == Frigidaire!ModeFrames(c)
           g == Frigidaire!FanFrames(c)
<1>1. f[1] = Silent /\ f[2] = Silent /\ f[3] = Silent
  BY FModeFrames
<1>2. TempFrames(c)[1].count = 0 /\ TempFrames(c)[2].count = 0
  BY TempFrameTypes
<1>3. g[1] = Silent /\ g[2] = Silent
  BY FFanFrames
<1>4. Silent.count = 0
  BY DEF Silent, Frame
<1>5. FModed(c) = unit
  BY <1>1, <1>4, FSilent DEF FModed
<1>6. FWarmed(c) = unit
  BY <1>2, <1>5, FSilent DEF FWarmed
<1> QED
  BY <1>3, <1>4, <1>6, FSilent DEF FFanned

(* A call with a frame lost leaves a unit in some state.                   *)
LEMMA FLost ==
  ASSUME NEW u \in Frigidaire!Units, NEW fs, NEW i \in DOMAIN fs, NEW W,
         fs = <<fs[1], fs[2], fs[3], fs[4], fs[5], fs[6], fs[7]>>,
         \A j \in 1..7 : fs[j] \in [cmd : W, count : Nat]
  PROVE  Frigidaire!Receive(Frigidaire!Press, u, Frigidaire!Lost(fs, i)) \in Frigidaire!Units
<1> DEFINE g == Frigidaire!Lost(fs, i)
<1>1. \A j \in 1..7 : g[j].count \in Nat
  <2>1. DOMAIN fs = 1..7
    OBVIOUS
  <2>2. \A j \in 1..7 : g[j] = fs[j] \/ g[j] = [fs[j] EXCEPT !.count = 0]
    BY <2>1 DEF Frigidaire!Lost
  <2> QED
    BY <2>2
<1> HIDE DEF g
<1> DEFINE h(v, j) == Frigidaire!Press(v, g[j].cmd, g[j].count)
<1>2. \A v \in Frigidaire!Units, j \in 1..7 : h(v, j) \in Frigidaire!Units
  BY <1>1, FPressType
<1>3. Frigidaire!Receive(Frigidaire!Press, u, g) = h(h(h(h(h(h(h(u, 1), 2), 3), 4), 5), 6), 7)
  BY DEF Frigidaire!Receive
<1> HIDE DEF h
<1> QED
  <2>1. h(h(h(u, 1), 2), 3) \in Frigidaire!Units
    BY <1>2
  <2>2. h(h(h(h(h(h(h(u, 1), 2), 3), 4), 5), 6), 7) \in Frigidaire!Units
    BY <1>2, <2>1
  <2> QED
    BY <1>3, <2>2 DEF g

(* What a call does to the two of them.                                    *)
LEMMA FCalls ==
  ASSUME Belief, unit \in Frigidaire!Units, NEW c \in Frigidaire!Calls, Frigidaire!Control(c)
  PROVE  /\ c \in AnyCall(Frigidaire!Fans) /\ Believe(c)
         /\ calls < FrigidaireCalls /\ calls' = calls + 1
         /\ \/ /\ unit' = FFanned(c) /\ UNCHANGED troubles
               /\ clean' = (clean /\ ~WrapsSoon) /\ seen' = (seen /\ ~WrapsSoon)
            \/ /\ unit' \in Frigidaire!Units /\ troubles < MaxTroubles /\ troubles' = troubles + 1
               /\ clean' = FALSE /\ seen' = FALSE
         /\ \/ unit' # unit /\ stale' \in Frigidaire!Readings(unit) \cup {"between"} /\ age' = 0
            \/ unit' = unit /\ UNCHANGED <<stale, age>>
<1> DEFINE f == Frigidaire!AllFrames(Frigidaire!ModeFrames(c), Frigidaire!TempFrames(c),
                                     Frigidaire!FanFrames(c))
<1>1. c \in AnyCall(Frigidaire!Fans)
  BY FrigidaireShares DEF Frigidaire!Calls, AnyCall
<1>2. Believe(c)
  <2>1. Frigidaire!Believe(c)
    BY DEF Frigidaire!Control
  <2> QED
    BY <2>1, FrigidaireShares DEF Frigidaire!Believe, Believe
<1>3. calls < FrigidaireCalls /\ calls' = calls + 1
  BY DEF Frigidaire!Control
<1>4. \/ unit' # unit /\ stale' \in Frigidaire!Readings(unit) \cup {"between"} /\ age' = 0
      \/ unit' = unit /\ UNCHANGED <<stale, age>>
  BY DEF Frigidaire!Control, Frigidaire!Outdates
<1>5. Frigidaire!Transmit(Frigidaire!Press, f)
  BY DEF Frigidaire!Control
<1>6. CASE /\ unit' = Frigidaire!Receive(Frigidaire!Press, unit, f)
           /\ clean' = (clean /\ ~Frigidaire!WrapsSoon)
           /\ seen' = (seen /\ ~Frigidaire!WrapsSoon)
           /\ UNCHANGED troubles
  <2>1. unit' = FFanned(c)
    BY <1>6, FHeard
  <2> QED
    BY <1>1, <1>2, <1>3, <1>4, <1>6, <2>1, FrigidaireShares
<1>7. CASE /\ troubles < MaxTroubles /\ troubles' = troubles + 1
           /\ clean' = FALSE /\ seen' = FALSE
           /\ \E i \in DOMAIN f :
                unit' = Frigidaire!Receive(Frigidaire!Press, unit, Frigidaire!Lost(f, i))
  <2>1. PICK i \in DOMAIN f :
          unit' = Frigidaire!Receive(Frigidaire!Press, unit, Frigidaire!Lost(f, i))
    BY <1>7
  <2>2. f = <<f[1], f[2], f[3], f[4], f[5], f[6], f[7]>>
    BY DEF Frigidaire!AllFrames
  <2> DEFINE W == {"NONE", "POWER", "MODE_ESAVE", "MODE_FAN", "MODE_COOL", "TEMP_UP",
                   "TEMP_DOWN", "FAN_UP", "FAN_DOWN", "FAN_AUTO"}
  <2>3. \A j \in 1..7 : f[j] \in [cmd : W, count : Nat]
    <3> DEFINE S == [cmd : W, count : Nat]
               m == Frigidaire!ModeFrames(c)
               t == Frigidaire!TempFrames(c)
               n == Frigidaire!FanFrames(c)
    <3>1. Silent \in S /\ \A cmd \in W : Frame(cmd, 1) \in S
      BY DEF Silent, Frame
    <3>2. \A cond : \A cmd \in W : FrameIf(cond, cmd) \in S
      BY <3>1 DEF FrameIf
    <3> HIDE DEF S
    <3>3. m[1] \in S /\ m[2] \in S /\ m[3] \in S
      <4>1. ModeCommand(c) \in W
        BY DEF ModeCommand
      <4>2. \/ m[1] = Silent /\ m[2] = Silent /\ m[3] = Silent
            \/ /\ m[1] = FrameIf(mode = "OFF", "POWER")
               /\ m[2] = Frame(ModeCommand(c), 1) /\ m[3] = Silent
        BY <1>1, FModeFrames
      <4> HIDE DEF m
      <4> QED
        BY <3>1, <3>2, <4>1, <4>2
    <3>4. t[1] \in S /\ t[2] \in S
      <4>1. t = TempFrames(c)
        BY FrigidaireShares
      <4>2. t[1] \in Frames(TempCommands) /\ t[2] \in Frames(TempCommands)
        BY <1>1, <4>1, TempFrameTypes
      <4> QED
        BY <3>1, <4>2 DEF Frames, TempCommands, S
    <3>5. n[1] \in S /\ n[2] \in S
      <4>1. n[1] \in Frames(FanCommands) /\ n[2] \in Frames(FanCommands)
        BY <1>1, FFanFrames
      <4> QED
        BY <3>1, <4>1 DEF Frames, FanCommands, S
    <3>6. f = <<m[1], m[2], m[3], t[1], t[2], n[1], n[2]>>
      BY DEF Frigidaire!AllFrames
    <3> HIDE DEF f, m, t, n
    <3> QED
      BY <3>3, <3>4, <3>5, <3>6 DEF S
  <2>4. unit' \in Frigidaire!Units
    BY <2>1, <2>2, <2>3, FLost
  <2> QED
    BY <1>1, <1>2, <1>3, <1>4, <1>7, <2>4
<1> QED
  BY <1>5, <1>6, <1>7 DEF Frigidaire!Transmit

(* The unit draws as much as one of the three ranges.                      *)
LEMMA FReadingTypes ==
  ASSUME NEW u \in Frigidaire!Units
  PROVE  Frigidaire!Readings(u) \subseteq FReadings
<1>1. u.on \in BOOLEAN /\ u.cools \in BOOLEAN /\ u.eco \in BOOLEAN
  BY DEF Frigidaire!Units
<1> QED
  BY <1>1 DEF Frigidaire!Readings, FReadings

(* A call keeps what is certain, and a new fan speed arrives.              *)
LEMMA FControls ==
  ASSUME FInv, NEW c \in Frigidaire!Calls, Frigidaire!Control(c)
  PROVE  FInv' /\ Frigidaire!FanArrives
<1>0. /\ Belief /\ Clock /\ Counts(FrigidaireCalls)
      /\ fan \in Frigidaire!Fans /\ unit \in Frigidaire!Units
      /\ stale \in FReadings \cup {"between"}
  BY DEF FInv
<1>1. /\ c \in AnyCall(Frigidaire!Fans) /\ Believe(c)
      /\ calls < FrigidaireCalls /\ calls' = calls + 1
      /\ \/ /\ unit' = FFanned(c) /\ UNCHANGED troubles
            /\ clean' = (clean /\ ~WrapsSoon) /\ seen' = (seen /\ ~WrapsSoon)
         \/ /\ unit' \in Frigidaire!Units /\ troubles < MaxTroubles /\ troubles' = troubles + 1
            /\ clean' = FALSE /\ seen' = FALSE
      /\ \/ unit' # unit /\ stale' \in Frigidaire!Readings(unit) \cup {"between"} /\ age' = 0
         \/ unit' = unit /\ UNCHANGED <<stale, age>>
  BY <1>0, FCalls
<1>2. Belief' /\ fan' \in Frigidaire!Fans
  BY <1>0, <1>1, BelieveKeeps
<1>3. Counts(FrigidaireCalls)'
  BY <1>0, <1>1, BoundsAssumption, RequestsAssumption DEF Counts
<1>4. /\ FModed(c) \in Frigidaire!Units
      /\ Powered(mode, unit) => Powered(NewMode(c), FModed(c))
      /\ /\ FStep(mode, preset, unit)
         /\ mode = "FAN_ONLY" => targetF = 0
         /\ mode = "COOL" /\ targetF > 0 => unit.temp = targetF
         => /\ FStep(NewMode(c), NewPreset(c), FModed(c))
            /\ NewMode(c) = "COOL" /\ KnownTemp(c) > 0 => FModed(c).temp = KnownTemp(c)
  BY <1>0, <1>1, FModed3
<1>5. /\ FFanned(c) \in Frigidaire!Units
      /\ FFanned(c).on = FModed(c).on /\ FFanned(c).cools = FModed(c).cools
      /\ FFanned(c).eco = FModed(c).eco
      /\ FFanned(c).temp = FWarmed(c).temp
      /\ FModed(c).on /\ FModed(c).cools =>
           FWarmed(c).temp = Warmed(Warmed(FModed(c).temp, TempFrames(c)[1]), TempFrames(c)[2])
      /\ ~SendsTemp(c) => FWarmed(c) = FModed(c)
      /\ FModed(c).on /\ c.fan # Unset =>
           IF c.fan = "AUTO" THEN FFanned(c).auto
           ELSE Frigidaire!Speeds[FFanned(c).speed] = c.fan
  BY <1>0, <1>1, <1>4, FRest
<1>6. unit' \in Frigidaire!Units
  BY <1>1, <1>5
<1>7. stale' \in FReadings \cup {"between"}
  BY <1>0, <1>1, FReadingTypes
<1>8. clean' \in BOOLEAN /\ seen' \in BOOLEAN
  BY <1>1
<1>9. clean' \/ seen' => (clean \/ seen) /\ ~WrapsSoon /\ unit' = FFanned(c)
  BY <1>1
<1>10. /\ mode' = NewMode(c) /\ preset' = NewPreset(c) /\ now' = now /\ last' \in {last, now}
       /\ targetF' = IF SendsTemp(c) THEN Goal(c) ELSE KnownTemp(c)
       /\ fan' = IF c.fan # Unset THEN c.fan ELSE fan
       /\ Switches(c) \/ c.temp # 0 \/ SendsTemp(c) \/ c.fan # Unset => last' = now
  BY <1>1 DEF Believe
<1>11. Clock'
  <2>1. clean' \/ seen' => last' = now \/ age' = age
    BY <1>0, <1>1, <1>9, <1>10, FNothingSent
  <2>2. age' \in {age, 0}
    BY <1>1
  <2> QED
    BY <1>0, <1>8, <1>9, <1>10, <2>1, <2>2, ClockCommand
<1>12. ASSUME clean'
       PROVE  /\ FStep(NewMode(c), NewPreset(c), FModed(c))
              /\ NewMode(c) = "COOL" /\ KnownTemp(c) > 0 => FModed(c).temp = KnownTemp(c)
              /\ unit' = FFanned(c) /\ clean
  <2>1. clean /\ unit' = FFanned(c)
    BY <1>1, <1>12
  <2>2. /\ FStep(mode, preset, unit)
        /\ mode = "FAN_ONLY" => targetF = 0
        /\ mode = "COOL" /\ targetF > 0 => unit.temp = targetF
    BY <2>1 DEF FInv
  <2> QED
    BY <1>4, <2>1, <2>2
<1>13. ASSUME clean'
       PROVE  /\ FStep(mode', preset', unit')
              /\ mode' = "FAN_ONLY" => targetF' = 0
              /\ mode' = "COOL" /\ targetF' > 0 => unit'.temp = targetF'
  <2>1. FStep(mode', preset', unit')
    BY <1>5, <1>10, <1>12, <1>13 DEF FStep, Powered
  <2>2. ASSUME mode' = "FAN_ONLY" PROVE targetF' = 0
    <3>1. ~SendsTemp(c) /\ NewMode(c) = "FAN_ONLY" /\ NewPreset(c) # "ECO"
      BY <1>0, <1>1, <1>10, <2>2, CallGoals DEF SendsTemp
    <3>2. NewPreset(c) = "NONE"
      BY <1>0, <1>1, <3>1, CallGoals DEF Presets
    <3>3. CASE Switches(c)
      BY <1>10, <3>1, <3>2, <3>3 DEF KnownTemp
    <3>4. CASE ~Switches(c)
      BY <1>10, <1>12, <1>13, <3>1, <3>4 DEF KnownTemp, Switches, FInv
    <3> QED
      BY <3>3, <3>4
  <2>3. ASSUME mode' = "COOL", targetF' > 0 PROVE unit'.temp = targetF'
    <3>1. FModed(c).on /\ FModed(c).cools /\ FModed(c).temp \in Temps
      <4>1. FModed(c).temp \in Temps /\ FModed(c).on \in BOOLEAN
        BY <1>4, FrigidaireShares DEF Frigidaire!Units
      <4> QED
        BY <1>10, <1>12, <1>13, <2>3, <4>1 DEF FStep, Powered
    <3>2. CASE SendsTemp(c)
      <4>1. KnownTemp(c) > 0 => FModed(c).temp = KnownTemp(c)
        BY <1>10, <1>12, <1>13, <2>3
      <4>2. FWarmed(c).temp = Goal(c)
        BY <1>0, <1>1, <1>5, <3>1, <3>2, <4>1, TempArrives
      <4> QED
        BY <1>5, <1>10, <1>12, <1>13, <3>2, <4>2
    <3>3. CASE ~SendsTemp(c)
      BY <1>5, <1>10, <1>12, <1>13, <2>3, <3>3
    <3> QED
      BY <3>2, <3>3
  <2> QED
    BY <2>1, <2>2, <2>3
<1>14. ASSUME seen' PROVE Powered(mode', unit')
  <2>1. seen /\ unit' = FFanned(c)
    BY <1>1, <1>14
  <2>2. Powered(mode, unit)
    BY <2>1 DEF FInv, Frigidaire!PowerKnown, Powered
  <2> QED
    BY <1>4, <1>5, <1>10, <2>1, <2>2 DEF Powered
<1>15. Frigidaire!FanArrives
  <2> SUFFICES ASSUME clean', mode' # "OFF", fan' # fan
               PROVE  IF fan' = "AUTO" THEN unit'.auto
                      ELSE Frigidaire!Speeds[unit'.speed] = fan'
    BY DEF Frigidaire!FanArrives
  <2>1. c.fan # Unset /\ fan' = c.fan
    BY <1>10
  <2>2. unit' = FFanned(c) /\ FStep(NewMode(c), NewPreset(c), FModed(c))
    BY <1>12
  <2>3. FModed(c).on
    BY <1>4, <1>10, <2>2 DEF FStep, Powered, Frigidaire!Units
  <2> QED
    BY <1>5, <2>1, <2>2, <2>3
<1> QED
  BY <1>2, <1>3, <1>6, <1>7, <1>11, <1>13, <1>14, <1>15
     DEF FInv, Frigidaire!PowerKnown, Powered

(* The front button asks for what a call may ask for.                      *)
LEMMA FButton ==
  ASSUME FInv, Frigidaire!Button
  PROVE  FInv' /\ Frigidaire!FanArrives
<1> DEFINE b == [mode |-> IF mode # "OFF" THEN "OFF" ELSE "COOL",
                 preset |-> Frigidaire!Unset, temp |-> 0, fan |-> Frigidaire!Unset]
<1>1. b \in Frigidaire!Calls
  BY FrigidaireShares DEF Frigidaire!Calls, Modes
<1>2. Frigidaire!Control(b)
  BY DEF Frigidaire!Button
<1> HIDE DEF b
<1> QED
  BY <1>1, <1>2, FControls

-----------------------------------------------------------------------------
(* What the Frigidaire component makes of a reading.                       *)

LEMMA FLearns ==
  ASSUME Belief, NEW p \in FReadings, NEW up, Frigidaire!Learn(p, up)
  PROVE  /\ Belief' /\ fan' = fan /\ preset' = preset /\ targetF' = targetF
         /\ ~up => mode' = mode
<1>1. mode' \in {mode, "COOL", "FAN_ONLY"} /\ (~up => mode' = mode)
  BY DEF Frigidaire!Learn
<1>2. mode' \in Modes /\ mode \in Modes
  BY <1>1 DEF Belief, Modes
<1>3. action' \in Actions
  BY <1>2 DEF Frigidaire!Learn, Actions, FReadings
<1>4. UNCHANGED <<preset, fan, target, targetF>>
  BY DEF Frigidaire!Learn
<1>5. mode = "COOL" => mode' = "COOL"
  BY DEF Frigidaire!Learn
<1> QED
  BY <1>1, <1>2, <1>3, <1>4, <1>5 DEF Belief

(* A reading of the unit as it is tells nothing new to a component that is *)
(* in step with it, and, if the unit runs, the power to any.               *)
LEMMA FTruth ==
  ASSUME Belief, unit \in Frigidaire!Units, NEW p \in Frigidaire!Readings(unit), NEW up,
         Frigidaire!Learn(p, up)
  PROVE  /\ FStep(mode, preset, unit) => mode' = mode
         /\ Powered(mode, unit) => Powered(mode', unit)
         /\ up /\ p # "standby" => Powered(mode', unit)
<1>0. unit.on \in BOOLEAN /\ unit.cools \in BOOLEAN /\ unit.eco \in BOOLEAN /\ mode \in Modes
  BY DEF Frigidaire!Units, Belief
<1>1. CASE p = "standby"
  <2>1. mode' = mode
    BY <1>1 DEF Frigidaire!Learn
  <2> QED
    BY <1>1, <2>1
<1>2. CASE p = "fan"
  <2>1. unit.on
    BY <1>0, <1>2 DEF Frigidaire!Readings
  <2>2. mode' = IF up /\ mode = "OFF" THEN "FAN_ONLY" ELSE mode
    BY <1>2 DEF Frigidaire!Learn
  <2> QED
    BY <2>1, <2>2 DEF FStep, Powered
<1>3. CASE p = "cool"
  <2>1. unit.on /\ unit.cools
    BY <1>0, <1>3 DEF Frigidaire!Readings
  <2>2. mode' = IF up THEN "COOL" ELSE mode
    BY <1>3 DEF Frigidaire!Learn
  <2> QED
    BY <1>0, <2>1, <2>2 DEF FStep, Powered, Modes
<1>4. p \in FReadings
  BY FReadingTypes
<1> QED
  BY <1>1, <1>2, <1>3, <1>4 DEF FReadings

(* A reading, fresh or old, changes nothing that is certain.               *)
LEMMA FSenses ==
  ASSUME FInv, Frigidaire!Sense
  PROVE  FInv' /\ Frigidaire!FanArrives
<1>0. /\ Belief /\ Clock /\ Counts(FrigidaireCalls)
      /\ fan \in Frigidaire!Fans /\ unit \in Frigidaire!Units
      /\ stale \in FReadings \cup {"between"}
  BY DEF FInv
<1> DEFINE up == Frigidaire!UpdateMode(now')
<1>1. /\ now' = (now + 1) % Wrap /\ age' = (IF age <= Lag THEN age + 1 ELSE age)
      /\ UNCHANGED <<last, unit, stale, clean, calls, troubles>>
      /\ \/ \E p \in Frigidaire!Readings(unit) :
              /\ Frigidaire!Learn(p, up)
              /\ seen' = (seen \/ (up /\ age' > Lag /\ p # "standby"))
         \/ /\ age' <= Lag /\ UNCHANGED seen
            /\ \E p \in {stale} \ {"between"} : Frigidaire!Learn(p, up)
  BY DEF Frigidaire!Sense
<1>2. PICK p \in FReadings :
        /\ Frigidaire!Learn(p, up)
        /\ \/ /\ p \in Frigidaire!Readings(unit)
              /\ seen' = (seen \/ (up /\ age' > Lag /\ p # "standby"))
           \/ age' <= Lag /\ seen' = seen
  BY <1>0, <1>1, FReadingTypes
<1>3. up = UpdateMode(now')
  BY FrigidaireShares
<1> HIDE DEF up
<1>4. /\ Clock'
      /\ (clean \/ seen) /\ age' <= Lag => ~up
  <2>0. seen \in BOOLEAN
    BY <1>0 DEF Clock
  <2>1. seen' \in BOOLEAN /\ (seen' => seen \/ age' > Lag)
    <3>1. CASE seen' = (seen \/ (up /\ age' > Lag /\ p # "standby"))
      BY <2>0, <3>1
    <3>2. CASE seen' = seen
      BY <2>0, <3>2
    <3> QED
      BY <1>2, <3>1, <3>2
  <2> QED
    BY <1>0, <1>1, <1>3, <2>1, ClockTicks
<1>5. Belief' /\ fan' = fan /\ preset' = preset /\ targetF' = targetF /\ (~up => mode' = mode)
  BY <1>0, <1>2, FLearns
<1>6. p \in Frigidaire!Readings(unit) =>
        /\ FStep(mode, preset, unit) => mode' = mode
        /\ Powered(mode, unit) => Powered(mode', unit)
        /\ up /\ p # "standby" => Powered(mode', unit)
  BY <1>0, <1>2, FTruth
<1>7. ASSUME clean'
      PROVE  /\ FStep(mode', preset', unit')
             /\ mode' = "FAN_ONLY" => targetF' = 0
             /\ mode' = "COOL" /\ targetF' > 0 => unit'.temp = targetF'
  <2>1. /\ clean /\ FStep(mode, preset, unit) /\ (mode = "FAN_ONLY" => targetF = 0)
        /\ mode = "COOL" /\ targetF > 0 => unit.temp = targetF
    BY <1>1, <1>7 DEF FInv
  <2>2. mode' = mode
    BY <1>2, <1>4, <1>5, <1>6, <2>1
  <2> QED
    BY <1>1, <1>5, <2>1, <2>2 DEF FStep
<1>8. ASSUME seen' PROVE Powered(mode', unit')
  <2>1. seen => Powered(mode, unit)
    BY DEF FInv, Frigidaire!PowerKnown, Powered
  <2>2. Powered(mode', unit)
    BY <1>2, <1>4, <1>5, <1>6, <1>8, <2>1
  <2> QED
    BY <1>1, <2>2
<1>9. /\ Counts(FrigidaireCalls)' /\ unit' \in Frigidaire!Units
      /\ stale' \in FReadings \cup {"between"}
  BY <1>0, <1>1 DEF Counts
<1> QED
  BY <1>0, <1>4, <1>5, <1>7, <1>8, <1>9
     DEF FInv, Frigidaire!PowerKnown, Powered, Frigidaire!FanArrives

(* Somebody presses a button: from then on nothing is certain.             *)
LEMMA FTouches ==
  ASSUME FInv, Frigidaire!Touch(Frigidaire!Press, Frigidaire!Commands, Frigidaire!Readings(unit))
  PROVE  FInv' /\ Frigidaire!FanArrives
<1>0. /\ Belief /\ Clock /\ Counts(FrigidaireCalls)
      /\ fan \in Frigidaire!Fans /\ unit \in Frigidaire!Units
      /\ stale \in FReadings \cup {"between"}
  BY DEF FInv
<1>1. /\ troubles < MaxTroubles /\ troubles' = troubles + 1
      /\ clean' = FALSE /\ seen' = FALSE
      /\ UNCHANGED <<mode, preset, action, fan, target, targetF, last, now, calls>>
      /\ \E cmd \in Frigidaire!Commands : unit' = Frigidaire!Press(unit, cmd, 1)
      /\ \/ stale' \in Frigidaire!Readings(unit) \cup {"between"} /\ age' = 0
         \/ UNCHANGED <<stale, age>>
  BY DEF Frigidaire!Touch, Frigidaire!Outdates, Frigidaire!belief
<1>2. unit' \in Frigidaire!Units
  BY <1>0, <1>1, FPressType
<1>3. stale' \in FReadings \cup {"between"}
  BY <1>0, <1>1, FReadingTypes
<1>4. Clock'
  <2>1. age \in 0..(Lag + 1) /\ 0 \in 0..(Lag + 1)
    BY <1>0, TimeAssumption DEF Clock
  <2>2. age' \in 0..(Lag + 1)
    BY <1>1, <2>1
  <2> QED
    BY <1>0, <1>1, <2>2 DEF Clock, Timely
<1>5. Belief'
  BY <1>0, <1>1 DEF Belief
<1>6. Counts(FrigidaireCalls)'
  BY <1>0, <1>1, BoundsAssumption, RequestsAssumption DEF Counts
<1> QED
  BY <1>0, <1>1, <1>2, <1>3, <1>4, <1>5, <1>6
     DEF FInv, Frigidaire!PowerKnown, Frigidaire!FanArrives

(* A component that restarts keeps the mode, and the unit knows nothing.   *)
LEMMA FReboots ==
  ASSUME FInv, Frigidaire!Reboot
  PROVE  FInv' /\ Frigidaire!FanArrives
<1>0. /\ Belief /\ Clock /\ Counts(FrigidaireCalls)
      /\ fan \in Frigidaire!Fans /\ unit \in Frigidaire!Units
      /\ stale \in FReadings \cup {"between"}
  BY DEF FInv
<1>1. /\ troubles < MaxTroubles /\ troubles' = troubles + 1
      /\ action' = "OFF" /\ targetF' = 0 /\ last' = 0 /\ now' = 0
      /\ UNCHANGED <<mode, preset, fan, target, unit, stale, age, clean, seen, calls>>
  BY DEF Frigidaire!Reboot
<1>2. Belief' /\ Counts(FrigidaireCalls)'
  BY <1>0, <1>1, BoundsAssumption, RequestsAssumption DEF Belief, Counts, Actions
<1>3. Clock'
  BY <1>0, <1>1, ClockReboot
<1>4. /\ clean' => FStep(mode', preset', unit')
      /\ seen' => Powered(mode', unit')
  BY <1>1 DEF FInv, Frigidaire!PowerKnown, Powered, FStep
<1> QED
  BY <1>0, <1>1, <1>2, <1>3, <1>4
     DEF FInv, Frigidaire!PowerKnown, Powered, Frigidaire!FanArrives

(* The component starts in step with the unit.                             *)
LEMMA FInits == ASSUME Frigidaire!Init PROVE FInv
<1>1. PICK u \in Frigidaire!Units :
        /\ u.cools /\ ~u.eco /\ unit = u
        /\ mode = (IF u.on THEN "COOL" ELSE "OFF") /\ fan = Frigidaire!Speeds[u.speed]
  BY DEF Frigidaire!Init
<1>2. /\ preset = "NONE" /\ action = "OFF" /\ target \in Temps /\ targetF = 0
      /\ last = 0 /\ now = 0 /\ stale = "between" /\ age = Lag + 1
      /\ clean = TRUE /\ seen = TRUE /\ calls = 0 /\ troubles = 0
  BY FrigidaireShares DEF Frigidaire!Init
<1>3. Belief
  BY <1>1, <1>2 DEF Belief, Modes, Presets, Actions
<1>4. Clock
  BY <1>2, TimeAssumption DEF Clock, Timely
<1>5. Counts(FrigidaireCalls)
  BY <1>2, BoundsAssumption, RequestsAssumption DEF Counts
<1>6. fan \in Frigidaire!Fans
  <2>1. unit.speed \in 1..3
    BY <1>1 DEF Frigidaire!Units
  <2>2. unit.speed = 1 \/ unit.speed = 2 \/ unit.speed = 3
    BY <2>1
  <2> QED
    BY <1>1, <2>2 DEF Frigidaire!Speeds, Frigidaire!Fans
<1>7. /\ unit \in Frigidaire!Units
      /\ FStep(mode, preset, unit) /\ (mode = "OFF" <=> ~unit.on) /\ mode # "FAN_ONLY"
  BY <1>1, <1>2 DEF Frigidaire!Units, FStep, Powered
<1> QED
  BY <1>2, <1>3, <1>4, <1>5, <1>6, <1>7 DEF FInv, Frigidaire!PowerKnown

(* Every step keeps what is certain, and every fan speed arrives.          *)
LEMMA FNext ==
  ASSUME FInv, [Frigidaire!Next]_(Frigidaire!vars)
  PROVE  FInv' /\ [Frigidaire!FanArrives]_(Frigidaire!vars)
<1>1. CASE UNCHANGED Frigidaire!vars
  BY <1>1 DEF Frigidaire!vars, FInv, Belief, Clock, Timely, Counts, FStep, Powered,
     Frigidaire!PowerKnown
<1>2. CASE \E c \in FrigidaireRequests : Frigidaire!Control(c)
  BY <1>2, FControls, RequestsAssumption
<1> QED
  BY <1>1, <1>2, FButton, FSenses, FTouches, FReboots DEF Frigidaire!Next

(* The properties of the Frigidaire are parts of what every step keeps.    *)
LEMMA FMeans ==
  ASSUME FInv
  PROVE  Frigidaire!TypeOK /\ Frigidaire!InStep /\ Frigidaire!PowerKnown
<1>1. Frigidaire!TypeOK
  <2>1. stale \in {"standby", "fan", "cool", "between"}
    BY DEF FInv, FReadings
  <2> QED
    BY <2>1, FrigidaireShares DEF FInv, Belief, Clock, Counts, Frigidaire!TypeOK
<1>2. Frigidaire!InStep
  BY DEF FInv, Belief, Frigidaire!InStep, FStep, Powered
<1> QED
  BY <1>1, <1>2 DEF FInv

-----------------------------------------------------------------------------
(* The theorems: of whichever of the two is the one.                       *)

CInv == /\ place \in {"kenmore", "frigidaire"}
        /\ place = "kenmore" => KInv
        /\ place = "frigidaire" => FInv

(* Both start with what is certain.                                        *)
LEMMA ClimatesStart == ASSUME ClimatesInit PROVE CInv
BY KInits, FInits DEF ClimatesInit, CInv

(* Both keep it, and the one with fan speeds reaches them.                 *)
LEMMA ClimatesStep ==
  ASSUME CInv, [ClimatesNext]_<<place, vars>>
  PROVE  CInv' /\ [place = "frigidaire" => Frigidaire!FanArrives]_vars
<1>1. place' = place
  BY DEF ClimatesNext, KenmoreNext, FrigidaireNext
<1>2. /\ vars = Kenmore!vars /\ vars = Frigidaire!vars
      /\ vars' = Kenmore!vars' /\ vars' = Frigidaire!vars'
  BY DEF vars, Kenmore!vars, Frigidaire!vars
<1>3. CASE place = "kenmore"
  <2>1. [Kenmore!Next]_(Kenmore!vars)
    BY <1>2, <1>3 DEF ClimatesNext, KenmoreNext, FrigidaireNext
  <2> QED
    BY <1>1, <1>3, <2>1, KNext DEF CInv
<1>4. CASE place = "frigidaire"
  <2>1. [Frigidaire!Next]_(Frigidaire!vars)
    BY <1>2, <1>4 DEF ClimatesNext, KenmoreNext, FrigidaireNext
  <2>2. FInv' /\ [Frigidaire!FanArrives]_(Frigidaire!vars)
    BY <1>4, <2>1, FNext DEF CInv
  <2> QED
    BY <1>1, <1>2, <1>4, <2>2 DEF CInv
<1> QED
  BY <1>3, <1>4 DEF CInv

(* The properties are parts of it.                                         *)
LEMMA ClimatesMean ==
  ASSUME CInv
  PROVE  TypeOK /\ InStep /\ TempInStep /\ PowerKnown
BY KMeans, FMeans DEF CInv, TypeOK, InStep, TempInStep, PowerKnown

(* It holds throughout.                                                    *)
LEMMA ClimatesAlways == ClimatesSpec => []CInv
<1>1. CInv /\ [ClimatesNext]_<<place, vars>> => CInv'
  BY ClimatesStep
<1> QED
  BY <1>1, ClimatesStart, PTL DEF ClimatesSpec

(* The state of either component, of its unit and of the link between them *)
(* keep their types: no frame sends a temperature or a fan speed out of the*)
(* unit's range, no reading leaves the modes and presets of                *)
(* climate::Climate.                                                       *)
THEOREM ClimatesTyped == ClimatesSpec => []TypeOK
BY ClimatesAlways, ClimatesMean, PTL

(* While every frame that control() sends arrives and nobody touches the   *)
(* unit, its toggles leave the unit in the mode and with the preset the    *)
(* component believes (the Frigidaire also at the temperature), in spite of*)
(* old readings and restarts: POWER is never sent the wrong way round.     *)
THEOREM ClimatesInStep == ClimatesSpec => []InStep
BY ClimatesAlways, ClimatesMean, PTL

(* Meanwhile the temperature kenmore_ac sent last (target_temperature_f_)  *)
(* is the one the unit cools to.                                           *)
THEOREM KenmoreTempInStep == ClimatesSpec => []TempInStep
BY ClimatesAlways, ClimatesMean, PTL

(* One fresh reading after the settling time (for the Frigidaire, of a unit*)
(* that runs) tells the component whether the unit is on, and no later     *)
(* command of its own loses that.                                          *)
THEOREM ClimatesPowerKnown == ClimatesSpec => []PowerKnown
BY ClimatesAlways, ClimatesMean, PTL

(* The counted steps of frigidaire_ac reach the fan speed asked for from   *)
(* any speed the unit had.                                                 *)
THEOREM FrigidaireFanReached == ClimatesSpec => FanReached
<1>1. CInv /\ [ClimatesNext]_<<place, vars>>
        => [place = "frigidaire" => Frigidaire!FanArrives]_vars
  BY ClimatesStep
<1> QED
  BY <1>1, ClimatesAlways, PTL DEF ClimatesSpec, FanReached
=============================================================================
