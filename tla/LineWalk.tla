------------------------------- MODULE LineWalk -------------------------------
(***************************************************************************)
(* _line_points and _lines_points of backend_pil.py (src/workshop/         *)
(* dashboard): the points of a dotted line, by the algorithm of Bresenham. *)
(* Each segment of a polyline is walked from its own first point; its last *)
(* point is left to the next one.                                          *)
(***************************************************************************)
EXTENDS Integers

CONSTANT Coords    \* the coordinates of the polyline: pixels, or beyond the edges

ASSUME CoordsAssumption == Coords \subseteq Int

VARIABLES
  ends,    \* of the segment: [x0, y0, x1, y1]
  pen,     \* the point that is yielded next
  e,       \* the error term
  walked   \* points of the segment yielded so far

lineVars == <<ends, pen, e, walked>>

Abs(n) == IF n < 0 THEN -n ELSE n
Sign(n) == IF n < 0 THEN -1 ELSE 1
Segments == [x0 : Coords, y0 : Coords, x1 : Coords, y1 : Coords]

(* Normalized coordinates.  A line that is not flat is walked along y.     *)
Dx(s) == Abs(s.x1 - s.x0)
Dy(s) == Abs(s.y1 - s.y0)
Flat(s) == Dx(s) > Dy(s)
Long(s) == IF Flat(s) THEN Dx(s) ELSE Dy(s)
Short(s) == IF Flat(s) THEN Dy(s) ELSE Dx(s)

(* Mistake: the error starts at zero.                                      *)
NoError(s) == 0
FirstError(s) == 2 * Short(s) - Long(s)

Begin(s) ==
  /\ ends' = s
  /\ pen' = [x |-> s.x0, y |-> s.y0]
  /\ e' = FirstError(s)
  /\ walked' = 0

(* A point is yielded.  Along the longer side the pen moves every time,    *)
(* along the shorter one when the error says so.  (Vertical and horizontal *)
(* segments have loops of their own, without an error: the shorter side is *)
(* 0, and a negative error stays negative.)                                *)
Walk ==
  LET s == ends
      aside == e >= 0
      across == IF aside THEN 1 ELSE 0
  IN
  /\ walked < Long(s)
  /\ walked' = walked + 1
  /\ pen' = IF Flat(s)
            THEN [x |-> pen.x + Sign(s.x1 - s.x0), y |-> pen.y + across * Sign(s.y1 - s.y0)]
            ELSE [x |-> pen.x + across * Sign(s.x1 - s.x0), y |-> pen.y + Sign(s.y1 - s.y0)]
  /\ e' = (IF aside THEN e - 2 * Long(s) ELSE e) + 2 * Short(s)
  /\ UNCHANGED ends

(* pairwise: the next segment begins where this one ends.                  *)
NextSegment ==
  /\ walked = Long(ends)
  /\ \E x, y \in Coords :
       Begin([x0 |-> ends.x1, y0 |-> ends.y1, x1 |-> x, y1 |-> y])

LineInit ==
  \E s \in Segments :
    /\ ends = s /\ pen = [x |-> s.x0, y |-> s.y0]
    /\ e = FirstError(s) /\ walked = 0

LineNext == Walk \/ NextSegment
LineSpec == LineInit /\ [][LineNext]_lineVars

-----------------------------------------------------------------------------
(* How far the pen has come, along the longer and along the shorter side.  *)
Along == IF Flat(ends) THEN Abs(pen.x - ends.x0) ELSE Abs(pen.y - ends.y0)
Across == IF Flat(ends) THEN Abs(pen.y - ends.y0) ELSE Abs(pen.x - ends.x0)

(* No point is more than half a pixel from the line, and the pen ends up   *)
(* exactly where the next segment begins: errors never add up, in whatever *)
(* direction and however long a line is.                                   *)
NearLine ==
  /\ Along = walked
  /\ 2 * (Across * Long(ends) - Along * Short(ends)) \in -Long(ends)..Long(ends)
  /\ walked = Long(ends) => pen = [x |-> ends.x1, y |-> ends.y1]
=============================================================================
