------------------------------- MODULE MCHome -------------------------------
(***************************************************************************)
(* What hangs on the walls of the house: the air conditioners of KenmoreAC *)
(* and FrigidaireAC, the e-paper display of Meteogram with the drawing of  *)
(* its picture (Annotations, LineWalk), and the power gate whose lines the *)
(* PwrgateLogger reads.  They share no state and send each other nothing,  *)
(* so a behaviour is one of one of them: place says which, and the         *)
(* variables of the others keep their first value.                         *)
(***************************************************************************)
EXTENDS Climates, Meteogram, Annotations, LineWalk

VARIABLES device, fd, cancelled, closer, pinger, reader, buffered

gate == <<device, fd, cancelled, closer, pinger, reader, buffered>>
allVars == <<place, vars, lineVars, displayVars, drawingVars, gate>>

(* The gate's device goes twice; a read returns two lines at most.         *)
Gate == INSTANCE PwrgateLogger WITH MaxUnplugs <- 2, MaxChunk <- 2

-----------------------------------------------------------------------------
(* One field at a time, or a mode with a temperature.                      *)
Call(m, q, t, f) == [mode |-> m, preset |-> q, temp |-> t, fan |-> f]
CallsWith(fans) ==
  {Call(m, Unset, 0, Unset) : m \in Modes}
  \cup {Call(Unset, q, 0, Unset) : q \in Presets}
  \cup {Call(Unset, Unset, TempMax, Unset)}
  \cup {Call(Unset, Unset, 0, f) : f \in fans}
MCKenmoreRequests == CallsWith({"HIGH"}) \cup {Call("COOL", Unset, TempMin, Unset)}
MCFrigidaireRequests == CallsWith({"AUTO", "MEDIUM", "HIGH"})

(* A size that shrinks when it is drawn, and a new grapher's.              *)
MCLayouts == {<<2, 2>>, <<5, 4>>}
MCDefault == <<9, 1>>

(* Texts that stick out at every edge; icons of two widths.                *)
Icon(left, width) == [left |-> left, right |-> left + width]
MCFigures == [width : {4, 6, 7}, height : {4, 5}]
MCLabels == [x : {0, 1, 3, 5, 6}, y : {0, 1, 3, 5}, width : {2, 4, 8}, height : {1, 2, 3},
             below : BOOLEAN]
MCRows == {<<Icon(0, 3), Icon(b, 1), Icon(a, 4 - a)>> : a \in {1, 3}, b \in {2, 4}}

MCCoords == {-3, 0, 1, 4, 7, 9}

-----------------------------------------------------------------------------
NoClimate ==
  /\ mode = "OFF" /\ preset = "NONE" /\ action = "OFF" /\ fan = "LOW"
  /\ target = TempMin /\ targetF = 0 /\ last = 0 /\ now = 0
  /\ unit = "idle" /\ stale = "between" /\ age = 0 /\ clean = FALSE /\ seen = TRUE
  /\ calls = 0 /\ troubles = 0
NoDisplay ==
  /\ layout = "idle" /\ widget = "idle" /\ retained = "idle" /\ requests = "idle"
  /\ images = "idle" /\ grapher = [pc |-> "idle"] /\ handler = "idle" /\ torn = "idle"
  /\ lost = "idle" /\ changes = "idle" /\ faults = "idle"
NoDrawing ==
  /\ axes = "idle" /\ label = "idle" /\ icons = "idle" /\ halign = "idle"
  /\ valign = "idle" /\ turn = 0 /\ bboxes = <<>>
NoGate ==
  /\ device = "idle" /\ fd = "idle" /\ cancelled = "idle" /\ closer = "idle"
  /\ pinger = "idle" /\ reader = "idle" /\ buffered = "idle"
NoLine ==
  /\ ends = [x0 |-> 0, y0 |-> 0, x1 |-> 0, y1 |-> 0] /\ pen = [x |-> 0, y |-> 0]
  /\ e = 0 /\ walked = 0

(* The climates start with the lowest target and the lowest fan speed: a   *)
(* call, or a press on the unit, is enough to leave them.                  *)
LowestTarget == target = TempMin
Init ==
  \/ ClimatesInit /\ LowestTarget /\ fan = "LOW"
     /\ NoDisplay /\ NoDrawing /\ NoLine /\ NoGate
  \/ place = "display" /\ DisplayInit /\ NoClimate /\ NoDrawing /\ NoLine /\ NoGate
  \/ place = "texts" /\ DrawingInit /\ NoClimate /\ NoDisplay /\ NoLine /\ NoGate
  \/ place = "lines" /\ LineInit /\ NoClimate /\ NoDisplay /\ NoDrawing /\ NoGate
  \/ place = "gate" /\ Gate!Init /\ NoClimate /\ NoDisplay /\ NoDrawing /\ NoLine

CoolingNext == ClimatesNext /\ UNCHANGED <<lineVars, displayVars, drawingVars, gate>>
PictureNext ==
  /\ place = "display" /\ DisplayNext
  /\ UNCHANGED <<place, vars, lineVars, drawingVars, gate>>
TextsNext ==
  /\ place = "texts" /\ DrawingNext
  /\ UNCHANGED <<place, vars, lineVars, displayVars, gate>>
LinesNext ==
  /\ place = "lines" /\ LineNext
  /\ UNCHANGED <<place, vars, displayVars, drawingVars, gate>>
GateNext ==
  /\ place = "gate" /\ Gate!Next
  /\ UNCHANGED <<place, vars, lineVars, displayVars, drawingVars>>

Next == CoolingNext \/ PictureNext \/ TextsNext \/ LinesNext \/ GateNext
Spec == Init /\ [][Next]_allVars

(* The fairness of each, as its module has it.                             *)
Fairness ==
  /\ WF_vars(\/ place = "kenmore" /\ Kenmore!Sense
             \/ place = "frigidaire" /\ Frigidaire!Sense)
  /\ WF_displayVars(place = "display" /\ Draw)
  /\ WF_displayVars(place = "display" /\ UpdateImage)
  /\ WF_displayVars(place = "display" /\ WidgetReconnects)
  /\ WF_displayVars(place = "display" /\ on_message)
  /\ WF_displayVars(place = "display" /\ run_mqtt)
  /\ WF_displayVars(place = "display" /\ GrapherReconnects)
  /\ WF_gate(place = "gate" /\ (Gate!Open \/ Gate!logData))
FairSpec == Spec /\ Fairness

-----------------------------------------------------------------------------
(* The properties are those of the modules (in the places of the others    *)
(* those of the meteogram hold by their first values), and:                *)

(* The display ends up with a picture of the size it has room for; the     *)
(* logger reads from a gate that is there (or hangs, in the one way it can)*)
Converges == <>[](/\ place = "display" => Fits
                  /\ place = "gate" => Gate!ReadsAgain)
=============================================================================
