----------------------------- MODULE Annotations -----------------------------
(***************************************************************************)
(* How the meteogram (graph.py of src/workshop/dashboard) places its texts:*)
(* a temperature is centered at its point and moves to the other side of it*)
(* where it would stick out of the axes; of the weather icons and the wind *)
(* barbs those are left out that overlap one already drawn.                *)
(*                                                                         *)
(* A figure is drawn again and again, in the size that was asked for last. *)
(* Lengths are in half pixels; y goes up.                                  *)
(***************************************************************************)
EXTENDS Integers, Sequences

CONSTANTS
  Figures,    \* [width, height]: the axes a figure may have
  Labels,     \* [x, y, width, height, below]: a temperature, above or below its point
  Rows        \* a row of icons (or of barbs): a sequence of [left, right]

(* Lengths are whole half pixels; an icon may begin anywhere.              *)
Boxes == [left : Int, right : Int]
ASSUME LengthsAssumption ==
  /\ Figures \subseteq [width : Nat, height : Nat]
  /\ Labels \subseteq [x : Nat, y : Nat, width : Nat, height : Nat, below : BOOLEAN]
  /\ Rows \subseteq Seq(Boxes)

VARIABLES
  axes, label, icons,
  halign, valign,   \* of the label: what is set on the Annotation
  turn,             \* the icon that is next
  bboxes            \* of the icons drawn so far

drawingVars == <<axes, label, icons, halign, valign, turn, bboxes>>

-----------------------------------------------------------------------------
(* AutoAnnotation.                                                         *)

Left == CASE halign = "center" -> label.x - label.width \div 2
          [] halign = "left" -> label.x
          [] halign = "right" -> label.x - label.width
Bottom == IF valign = "bottom" THEN label.y ELSE label.y - label.height

default_verticalalignment == IF label.below THEN "top" ELSE "bottom"
AtDefault == halign' = "center" /\ valign' = default_verticalalignment

(* inside: the text and the axes, where it is now.                         *)
Inside ==
  /\ Left >= 0 /\ Left + label.width <= axes.width
  /\ Bottom >= 0 /\ Bottom + label.height <= axes.height

(* _adjust_alignment                                                       *)
TurnedH == IF Left < 0 THEN "left"
           ELSE IF Left + label.width > axes.width THEN "right" ELSE halign
TurnedV == IF Bottom < 0 THEN "bottom"
           ELSE IF Bottom + label.height > axes.height THEN "top" ELSE valign

-----------------------------------------------------------------------------
(* OverlapAnnotations.draw and OverlapBarbs._prepare_points.               *)

Overlap(a, b) == a.left < b.right /\ b.left < a.right

(* Mistake: only the last one that was drawn is looked at.                 *)
AnyOverlap(bbox) == bboxes # <<>> /\ Overlap(bbox, bboxes[Len(bboxes)])
count_overlaps(bbox) == \E k \in DOMAIN bboxes : Overlap(bbox, bboxes[k])

-----------------------------------------------------------------------------
DrawingInit ==
  /\ axes \in Figures /\ label \in Labels /\ icons \in Rows
  /\ label.x \in 0..axes.width /\ label.y \in 0..axes.height
  /\ halign = "center" /\ valign = default_verticalalignment
  /\ turn = 0 /\ bboxes = <<>>

(* update_positions starts from the defaults, whatever the last drawing of *)
(* the figure left ...                                                     *)
Place ==
  /\ turn = 0
  /\ AtDefault
  /\ turn' = 1
  /\ UNCHANGED <<axes, label, icons, bboxes>>

(* ... and adjusts.                                                        *)
Adjust ==
  /\ turn = 1
  /\ IF Inside THEN UNCHANGED <<halign, valign>>
     ELSE halign' = TurnedH /\ valign' = TurnedV
  /\ turn' = 2
  /\ UNCHANGED <<axes, label, icons, bboxes>>

DrawIcon ==
  LET bbox == icons[turn - 1] IN
  /\ turn > 1 /\ turn - 1 <= Len(icons)
  /\ bboxes' = IF count_overlaps(bbox) THEN bboxes ELSE Append(bboxes, bbox)
  /\ turn' = turn + 1
  /\ UNCHANGED <<axes, label, icons, halign, valign>>

(* The next drawing, in another size.                                      *)
Redraw ==
  /\ turn - 1 > Len(icons)
  /\ axes' \in Figures
  /\ label.x <= axes'.width /\ label.y <= axes'.height
  /\ turn' = 0 /\ bboxes' = <<>>
  /\ UNCHANGED <<label, icons, halign, valign>>

DrawingNext == Place \/ Adjust \/ DrawIcon \/ Redraw
DrawingSpec == DrawingInit /\ [][DrawingNext]_drawingVars

-----------------------------------------------------------------------------
(* A text that takes at most two thirds of the width and half of the height*)
(* is never cut off at an edge, wherever its point is.                     *)
LabelInside ==
  (turn > 1 /\ 3 * label.width <= 2 * axes.width /\ 2 * label.height <= axes.height) => Inside

(* What is drawn does not overlap, and what is left out would.             *)
IconsApart ==
  /\ \A i, j \in DOMAIN bboxes : i # j => ~Overlap(bboxes[i], bboxes[j])
  /\ \A k \in 1..(turn - 2) :
       \E j \in DOMAIN bboxes : bboxes[j] = icons[k] \/ Overlap(bboxes[j], icons[k])

(* A drawing can be read, whatever its size and that of the ones before it.*)
Legible == LabelInside /\ IconsApart
=============================================================================
