--------------------------- MODULE MeteogramProofs ---------------------------
(***************************************************************************)
(* Proofs about the meteogram, for any layouts, any number of changes and  *)
(* any number of faults; about the placing of its texts and icons          *)
(* (Annotations), for figures, texts and rows of icons of any size; and    *)
(* about its dotted lines (LineWalk), for every polyline, in whatever      *)
(* direction its segments go and however long they are.                    *)
(***************************************************************************)
EXTENDS Meteogram, Annotations, LineWalk, SequenceTheorems, TLAPS

(* A size that was asked for as a whole, or the default.                   *)
Whole == Layouts \cup {Default}

Graphers == [pc : {"plot", "width", "height", "publish"}, width : Nat, height : Nat,
             drawn : Seq(Nat), deaf : BOOLEAN, online : BOOLEAN]

(* All requests are layouts, wherever they are.                            *)
Requested ==
  /\ layout \in Layouts /\ requests \in Seq(Layouts)
  /\ retained \in [request : Layouts \cup {None}, image : (Int \X Int) \cup {None}]

(* Width and height are of one request, or will be when on_message returns.*)
OneRequest ==
  \/ handler = None /\ <<grapher.width, grapher.height>> \in Whole
  \/ \E h \in Nat : handler = <<h>> /\ <<grapher.width, h>> \in Layouts

(* What was read so far is of one request, unless one came in since.       *)
ReadWhole ==
  /\ grapher.pc = "height" =>
       /\ Len(grapher.drawn) = 1
       /\ torn \/ (handler = None /\ grapher.drawn[1] = grapher.width)
  /\ grapher.pc = "publish" =>
       /\ Len(grapher.drawn) = 2
       /\ torn \/ grapher.drawn \in Whole

IInv == Requested /\ grapher \in Graphers /\ OneRequest /\ ReadWhole

-----------------------------------------------------------------------------
(* A grapher that starts has the default size.                             *)
LEMMA NewGraphers ==
  /\ NewGrapher \in Graphers /\ NewGrapher.pc = "plot"
  /\ <<NewGrapher.width, NewGrapher.height>> = Default
BY LayoutsAssumption DEF NewGrapher, Graphers, None

(* The invariant holds when widget and grapher start.                      *)
LEMMA InitWhole == ASSUME DisplayInit PROVE IInv
<1>1. Requested
  BY DEF DisplayInit, Requested
<1>2. grapher \in Graphers /\ grapher.pc = "plot" /\ <<grapher.width, grapher.height>> = Default
  BY NewGraphers DEF DisplayInit
<1>3. handler = None
  BY DEF DisplayInit
<1> QED
  BY <1>1, <1>2, <1>3 DEF IInv, OneRequest, ReadWhole, Whole

(* The grapher's own steps.                                                *)
LEMMA StartOverType ==
  ASSUME grapher \in Graphers, StartOver
  PROVE  /\ grapher' \in Graphers /\ grapher'.pc = "plot"
         /\ UNCHANGED <<grapher.width, grapher.height>>
<1>1. None \in Seq(Nat)
  BY DEF None
<1>2. grapher' = [grapher EXCEPT !.pc = "plot", !.drawn = None]
  BY DEF StartOver
<1> QED
  BY <1>1, <1>2 DEF Graphers

(* Two numbers read make a size.                                           *)
LEMMA PictureType ==
  ASSUME grapher \in Graphers, Len(grapher.drawn) = 2
  PROVE  Picture(grapher.drawn) \in Int \X Int
<1>1. grapher.drawn \in Seq(Nat)
  BY DEF Graphers
<1>2. grapher.drawn[1] \in Nat /\ grapher.drawn[2] \in Nat
  BY <1>1
<1> QED
  BY <1>2 DEF Picture, Pixels

(* The broker retains at most one request.                                 *)
LEMMA RetainedType ==
  ASSUME Requested PROVE Retained(retained.request) \in Seq(Layouts)
<1>1. CASE retained.request = None
  BY <1>1 DEF Retained
<1>2. CASE retained.request # None
  <2>1. retained.request \in Layouts
    BY <1>2 DEF Requested
  <2> QED
    BY <1>2, <2>1 DEF Retained
<1> QED
  BY <1>1, <1>2

(* Steps of the widget, of its connection and of the layout: all they do to*)
(* the grapher is to send it the layout.                                   *)
LEMMA WidgetSteps ==
  ASSUME IInv, Draw \/ UpdateImage \/ WidgetRestarts \/ WidgetDisconnects \/ WidgetReconnects
               \/ Relayout
  PROVE  IInv'
<1>0. Requested /\ grapher \in Graphers /\ OneRequest /\ ReadWhole
  BY DEF IInv
<1>1. UNCHANGED <<grapher, handler, torn>>
  BY DEF Draw, UpdateImage, WidgetRestarts, WidgetDisconnects, WidgetReconnects, Relayout
<1>2. CASE Draw
  <2>1. ASSUME UNCHANGED <<layout, retained, requests>> PROVE Requested'
    BY <1>0, <2>1 DEF Requested
  <2>2. ASSUME /\ retained' = [retained EXCEPT !.request = layout]
               /\ requests' = Forwarded(requests, layout, grapher.online /\ ~grapher.deaf)
               /\ layout' = layout
        PROVE  Requested'
    <3>1. requests' \in Seq(Layouts)
      BY <1>0, <2>2 DEF Requested, Forwarded
    <3>2. retained' \in [request : Layouts \cup {None}, image : (Int \X Int) \cup {None}]
      BY <1>0, <2>2 DEF Requested
    <3> QED
      BY <1>0, <2>2, <3>1, <3>2 DEF Requested
  <2>3. Requested'
    BY <1>2, <2>1, <2>2 DEF Draw
  <2> QED
    BY <1>0, <1>1, <2>3 DEF IInv, OneRequest, ReadWhole
<1>3. CASE UpdateImage \/ WidgetRestarts \/ WidgetDisconnects \/ WidgetReconnects \/ Relayout
  <2>1. Requested'
    BY <1>0, <1>3 DEF Requested, UpdateImage, WidgetRestarts, WidgetDisconnects,
       WidgetReconnects, Relayout
  <2> QED
    BY <1>0, <1>1, <2>1 DEF IInv, OneRequest, ReadWhole
<1> QED
  BY <1>2, <1>3

(* on_message sets the width and then the height of one request.           *)
LEMMA MessageSteps ==
  ASSUME IInv, on_message
  PROVE  IInv'
<1>0. Requested /\ grapher \in Graphers /\ OneRequest /\ ReadWhole
  BY DEF IInv
<1>1. CASE SetWidth
  <2>1. Head(requests) \in Layouts /\ requests' \in Seq(Layouts)
    BY <1>0, <1>1 DEF SetWidth, Requested
  <2>2. PICK w \in Nat, h \in Nat : Head(requests) = <<w, h>>
    BY <2>1, LayoutsAssumption
  <2>3. /\ grapher' \in Graphers /\ grapher'.width = w
        /\ UNCHANGED <<grapher.pc, grapher.drawn>>
    BY <1>0, <1>1, <2>2 DEF SetWidth, Graphers
  <2>4. handler' = <<h>> /\ torn' = TRUE
    BY <1>1, <2>2 DEF SetWidth
  <2>5. OneRequest'
    BY <2>1, <2>2, <2>3, <2>4 DEF OneRequest
  <2>6. ReadWhole'
    BY <1>0, <2>3, <2>4 DEF ReadWhole
  <2>7. Requested'
    BY <1>0, <1>1, <2>1 DEF SetWidth, Requested
  <2> QED
    BY <2>3, <2>5, <2>6, <2>7 DEF IInv
<1>2. CASE SetHeight
  <2>1. PICK h \in Nat : handler = <<h>> /\ <<grapher.width, h>> \in Layouts
    BY <1>0, <1>2 DEF SetHeight, OneRequest
  <2>2. /\ grapher' \in Graphers /\ grapher'.height = h
        /\ UNCHANGED <<grapher.pc, grapher.drawn, grapher.width>>
    BY <1>0, <1>2, <2>1 DEF SetHeight, NewHeight, Graphers
  <2>3. handler' = None /\ torn' = torn /\ handler # None
    BY <1>2 DEF SetHeight
  <2>4. OneRequest'
    BY <2>1, <2>2, <2>3 DEF OneRequest, Whole
  <2>5. ReadWhole'
    BY <1>0, <2>2, <2>3 DEF ReadWhole
  <2>6. Requested'
    BY <1>0, <1>2 DEF SetHeight, Requested
  <2> QED
    BY <2>2, <2>4, <2>5, <2>6 DEF IInv
<1> QED
  BY <1>1, <1>2 DEF on_message

(* A height to be set is none that is not.                                 *)
LEMMA NoHeight == \A h : None # <<h>>
BY DEF None

(* A width, and the height that is read after it.                          *)
LEMMA Appended ==
  ASSUME NEW q \in Seq(Nat), Len(q) = 1, NEW n \in Nat
  PROVE  /\ Append(q, n) \in Seq(Nat) /\ Append(q, n) = <<q[1], n>>
         /\ Len(Append(q, n)) = 2
<1>1. /\ Append(q, n) \in Seq(Nat)
      /\ Len(Append(q, n)) = Len(q) + 1
      /\ \A i \in 1..Len(q) : Append(q, n)[i] = q[i]
      /\ Append(q, n)[Len(q) + 1] = n
  BY AppendProperties, ZenonT(80)
<1>2. Append(q, n)[1] = q[1] /\ Append(q, n)[2] = n
  BY <1>1
<1>3. q[1] \in Nat
  BY ElementOfSeq
<1>4. <<q[1], n>> \in Seq(Nat) /\ Len(<<q[1], n>>) = 2
  BY <1>3
<1>5. \A i \in 1..2 : Append(q, n)[i] = <<q[1], n>>[i]
  BY <1>2, SMTT(30)
<1> QED
  <2>1. Len(Append(q, n)) = 2
    BY <1>1
  <2> QED
    BY <1>1, <1>4, <1>5, <2>1, SeqEqual

(* The main thread reads the size between them, or not.                    *)
LEMMA DrawingSteps ==
  ASSUME IInv, run_mqtt
  PROVE  IInv'
<1>0. Requested /\ grapher \in Graphers /\ OneRequest /\ ReadWhole
  BY DEF IInv
<1>1. handler' = handler
  BY DEF run_mqtt, Plot, ReadWidth, ReadHeight, Publish
<1>2. ASSUME StartOver, Requested' PROVE IInv'
  BY <1>0, <1>1, <1>2, StartOverType DEF IInv, OneRequest, ReadWhole
<1>3. CASE Plot
  <2>1. Requested'
    BY <1>0, <1>3 DEF Plot, Requested
  <2>2. CASE grapher' = [grapher EXCEPT !.pc = "width"]
    <3>1. /\ grapher' \in Graphers /\ grapher'.pc = "width"
          /\ UNCHANGED <<grapher.width, grapher.height>>
      BY <1>0, <2>2 DEF Graphers
    <3> QED
      BY <1>0, <1>1, <2>1, <3>1 DEF IInv, OneRequest, ReadWhole
  <2> QED
    BY <1>2, <1>3, <2>1, <2>2 DEF Plot
<1>4. CASE ReadWidth
  <2>1. Requested'
    BY <1>0, <1>4 DEF ReadWidth, Requested
  <2>2. <<grapher.width>> \in Seq(Nat)
    BY <1>0 DEF Graphers
  <2>3. /\ grapher' \in Graphers /\ grapher'.pc = "height"
        /\ grapher'.drawn = <<grapher.width>>
        /\ UNCHANGED <<grapher.width, grapher.height>>
    BY <1>0, <1>4, <2>2 DEF ReadWidth, Graphers
  <2>4. torn' = (handler # None)
    BY <1>4 DEF ReadWidth
  <2>5. OneRequest'
    BY <1>0, <1>1, <2>3 DEF OneRequest
  <2>6. Len(<<grapher.width>>) = 1 /\ <<grapher.width>>[1] = grapher.width
    OBVIOUS
  <2>7. Len(grapher'.drawn) = 1 /\ grapher'.drawn[1] = grapher'.width
    BY <2>3, <2>6
  <2>8. ReadWhole'
    BY <1>1, <2>3, <2>4, <2>7 DEF ReadWhole
  <2> QED
    BY <2>1, <2>3, <2>5, <2>8 DEF IInv
<1>5. CASE ReadHeight
  <2>1. Requested' /\ torn' = torn /\ grapher.pc = "height"
    BY <1>0, <1>5 DEF ReadHeight, Requested
  <2>2. grapher.drawn \in Seq(Nat) /\ Len(grapher.drawn) = 1 /\ grapher.height \in Nat
    BY <1>0, <2>1 DEF Graphers, ReadWhole
  <2>3. /\ Append(grapher.drawn, grapher.height) \in Seq(Nat)
        /\ Append(grapher.drawn, grapher.height) = <<grapher.drawn[1], grapher.height>>
        /\ Len(Append(grapher.drawn, grapher.height)) = 2
    BY <2>2, Appended
  <2>4. /\ grapher' \in Graphers /\ grapher'.pc = "publish"
        /\ grapher'.drawn = <<grapher.drawn[1], grapher.height>> /\ Len(grapher'.drawn) = 2
        /\ UNCHANGED <<grapher.width, grapher.height>>
    BY <1>0, <1>5, <2>3 DEF ReadHeight, Graphers
  <2>5. ASSUME ~torn PROVE grapher'.drawn \in Whole
    <3>1. handler = None /\ grapher.drawn[1] = grapher.width
      BY <1>0, <2>1, <2>5 DEF ReadWhole
    <3> QED
      BY <1>0, <2>4, <3>1, NoHeight DEF OneRequest
  <2> QED
    BY <1>0, <1>1, <2>1, <2>4, <2>5 DEF IInv, OneRequest, ReadWhole
<1>6. CASE Publish
  <2>1. StartOver /\ Picture(grapher.drawn) \in Int \X Int
    BY <1>0, <1>6, PictureType DEF Publish, ReadWhole
  <2>2. Requested'
    BY <1>0, <1>6, <2>1 DEF Publish, Requested
  <2> QED
    BY <1>2, <2>1, <2>2
<1> QED
  BY <1>3, <1>4, <1>5, <1>6 DEF run_mqtt

(* Its connection, and a restart.                                          *)
LEMMA GrapherSteps ==
  ASSUME IInv, GrapherDisconnects \/ GrapherReconnects \/ GrapherRestarts
  PROVE  IInv'
<1>0. Requested /\ grapher \in Graphers /\ OneRequest /\ ReadWhole
  BY DEF IInv
<1>1. CASE GrapherDisconnects \/ GrapherReconnects
  <2>1. /\ grapher' \in Graphers
        /\ UNCHANGED <<grapher.width, grapher.height, grapher.pc, grapher.drawn, handler, torn>>
    BY <1>0, <1>1 DEF GrapherDisconnects, GrapherReconnects, Graphers
  <2>2. requests' = <<>> \/ requests' = requests
    BY <1>1 DEF GrapherDisconnects, GrapherReconnects
  <2>3. UNCHANGED <<layout, retained>>
    BY <1>1 DEF GrapherDisconnects, GrapherReconnects
  <2>4. <<>> \in Seq(Layouts)
    OBVIOUS
  <2>5. Requested'
    BY <1>0, <2>2, <2>3, <2>4 DEF Requested
  <2> QED
    BY <1>0, <2>1, <2>5 DEF IInv, OneRequest, ReadWhole
<1>2. CASE GrapherRestarts
  <2>1. Requested'
    BY <1>0, <1>2, RetainedType DEF GrapherRestarts, Requested
  <2>2. handler' = None /\ grapher' = NewGrapher
    BY <1>2 DEF GrapherRestarts
  <2> QED
    BY <2>1, <2>2, NewGraphers DEF IInv, OneRequest, ReadWhole, Whole
<1> QED
  BY <1>1, <1>2

(* Every step keeps it.                                                    *)
LEMMA NextWhole == IInv /\ [DisplayNext]_displayVars => IInv'
<1> SUFFICES ASSUME IInv, [DisplayNext]_displayVars PROVE IInv'
  OBVIOUS
<1>1. CASE UNCHANGED displayVars
  BY <1>1 DEF displayVars, IInv, Requested, OneRequest, ReadWhole
<1> QED
  BY <1>1, WidgetSteps, MessageSteps, DrawingSteps, GrapherSteps DEF DisplayNext

(* The two threads of the grapher share width and height without a lock:   *)
(* still, a picture is of a size that was asked for as a whole, unless a   *)
(* request came in while its size was read.                                *)
THEOREM TornOnlyBetweenAlways == DisplaySpec => []TornOnlyBetween
<1>1. IInv => TornOnlyBetween
  BY DEF IInv, ReadWhole, TornOnlyBetween, Whole
<1>2. DisplayInit => IInv
  BY InitWhole
<1> QED
  BY <1>1, <1>2, NextWhole, PTL DEF DisplaySpec

-----------------------------------------------------------------------------
(* The point of a text is in the axes, whatever their size.                *)
Pointed ==
  /\ axes \in Figures /\ label \in Labels
  /\ label.x <= axes.width /\ label.y <= axes.height
  /\ halign \in {"center", "left", "right"} /\ valign \in {"top", "bottom"}
  /\ turn = 1 => halign = "center" /\ valign = default_verticalalignment
  /\ LabelInside

(* The icons looked at so far are drawn or overlap one that is.            *)
Spread ==
  /\ icons \in Seq(Boxes) /\ bboxes \in Seq(Boxes)
  /\ IconsApart

DInv == turn \in Nat /\ Pointed /\ Spread

(* Adjusting: where the text sticks out of one edge it fits on the other   *)
(* side of its point, for it takes no more than two thirds of the axes.    *)
LEMMA FitsBeside ==
  ASSUME NEW x \in Nat, NEW w \in Nat, NEW W \in Nat, x <= W, 3 * w <= 2 * W
  PROVE  /\ x - w \div 2 < 0 => x + w <= W
         /\ x - w \div 2 + w > W => x - w >= 0
<1>1. w \div 2 \in Nat /\ 2 * (w \div 2) <= w /\ w <= 2 * (w \div 2) + 1
  OBVIOUS
<1> QED
  BY <1>1

(* What does not fit below and takes at most half of the height fits above.*)
LEMMA FitsAbove ==
  ASSUME NEW y \in Nat, NEW h \in Nat, NEW H \in Nat, y <= H, 2 * h <= H
  PROVE  y - h < 0 => y + h <= H
OBVIOUS

(* A label that was adjusted is inside of the axes.                        *)
LEMMA AdjustInside ==
  ASSUME DInv, Adjust
  PROVE  Pointed'
<1>0. Pointed /\ turn = 1 /\ turn' = 2 /\ UNCHANGED <<axes, label>>
  BY DEF DInv, Adjust
<1>1. /\ label.x \in Nat /\ label.y \in Nat /\ label.width \in Nat /\ label.height \in Nat
      /\ label.below \in BOOLEAN /\ axes.width \in Nat /\ axes.height \in Nat
  BY <1>0, LengthsAssumption DEF Pointed
<1>2. halign = "center" /\ valign = default_verticalalignment
  BY <1>0 DEF Pointed
<1>3. CASE Inside
  <2>1. halign' = halign /\ valign' = valign
    BY <1>3 DEF Adjust
  <2>2. Inside'
    BY <1>0, <1>3, <2>1 DEF Inside, Left, Bottom
  <2> QED
    BY <1>0, <2>1, <2>2 DEF Pointed, LabelInside
<1>4. CASE ~Inside
  <2>1. halign' = TurnedH /\ valign' = TurnedV
    BY <1>4 DEF Adjust
  <2>2. halign' \in {"center", "left", "right"} /\ valign' \in {"top", "bottom"}
    BY <1>0, <2>1 DEF Pointed, TurnedH, TurnedV
  <2>3. ASSUME 3 * label.width <= 2 * axes.width
        PROVE  Left' >= 0 /\ Left' + label.width <= axes.width
    <3>1. label.x <= axes.width
      BY <1>0 DEF Pointed
    <3>2. /\ label.x - label.width \div 2 < 0 => label.x + label.width <= axes.width
          /\ label.x - label.width \div 2 + label.width > axes.width
               => label.x - label.width >= 0
      BY <1>1, <2>3, <3>1, FitsBeside
    <3>3. Left = label.x - label.width \div 2
      BY <1>2 DEF Left
    <3>4. label.width \div 2 \in Nat
      BY <1>1
    <3>5. CASE Left < 0
      <4>1. Left' = label.x
        BY <1>0, <2>1, <3>5 DEF TurnedH, Left
      <4> QED
        BY <1>1, <3>2, <3>3, <3>5, <4>1
    <3>6. CASE ~(Left < 0) /\ Left + label.width > axes.width
      <4>1. Left' = label.x - label.width
        BY <1>0, <2>1, <3>6 DEF TurnedH, Left
      <4> QED
        BY <1>1, <3>1, <3>2, <3>3, <3>6, <4>1
    <3>7. CASE ~(Left < 0) /\ ~(Left + label.width > axes.width)
      <4>1. Left' = Left
        BY <1>0, <1>2, <2>1, <3>7 DEF TurnedH, Left
      <4> QED
        BY <1>1, <3>3, <3>4, <3>7, <4>1
    <3> QED
      BY <3>5, <3>6, <3>7
  <2>4. ASSUME 2 * label.height <= axes.height
        PROVE  Bottom' >= 0 /\ Bottom' + label.height <= axes.height
    <3>1. label.y <= axes.height
      BY <1>0 DEF Pointed
    <3>2. label.y - label.height < 0 => label.y + label.height <= axes.height
      BY <1>1, <2>4, <3>1, FitsAbove
    <3>3. Bottom = IF label.below THEN label.y - label.height ELSE label.y
      BY <1>2 DEF Bottom, default_verticalalignment
    <3>4. Bottom' = IF TurnedV = "bottom" THEN label.y ELSE label.y - label.height
      BY <1>0, <2>1 DEF Bottom
    <3> QED
      BY <1>1, <1>2, <2>4, <3>1, <3>2, <3>3, <3>4
         DEF TurnedV, default_verticalalignment
  <2> QED
    BY <1>0, <2>2, <2>3, <2>4 DEF Pointed, LabelInside, Inside
<1> QED
  BY <1>3, <1>4

(* Drawing an icon.                                                        *)
LEMMA DrawSpread ==
  ASSUME DInv, DrawIcon
  PROVE  DInv'
<1>0. /\ turn \in Nat /\ Pointed /\ Spread
      /\ turn > 1 /\ turn - 1 <= Len(icons) /\ turn' = turn + 1
      /\ UNCHANGED <<axes, label, icons, halign, valign>>
  BY DEF DInv, DrawIcon
<1> DEFINE bbox == icons[turn - 1]
<1>1. bbox \in Boxes
  BY <1>0 DEF Spread
<1>2. Pointed'
  BY <1>0 DEF Pointed, LabelInside, Inside, Left, Bottom
<1>3. \A k \in 1..(turn' - 2) : k \in 1..(turn - 2) \/ k = turn - 1
  BY <1>0
<1>4. CASE count_overlaps(bbox)
  <2>1. bboxes' = bboxes
    BY <1>4 DEF DrawIcon
  <2>2. PICK j \in DOMAIN bboxes : Overlap(bboxes[j], bbox)
    BY <1>4 DEF count_overlaps, Overlap
  <2> QED
    BY <1>0, <1>2, <1>3, <2>1, <2>2 DEF DInv, Spread, IconsApart, Overlap
<1>5. CASE ~count_overlaps(bbox)
  <2>1. bboxes' = Append(bboxes, bbox)
    BY <1>5 DEF DrawIcon
  <2>2. /\ bboxes' \in Seq(Boxes) /\ DOMAIN bboxes' = 1..(Len(bboxes) + 1)
        /\ \A j \in DOMAIN bboxes : bboxes'[j] = bboxes[j]
        /\ bboxes'[Len(bboxes) + 1] = bbox
        /\ DOMAIN bboxes = 1..Len(bboxes) /\ Len(bboxes) \in Nat
    BY <1>0, <1>1, <2>1 DEF Spread
  <2>3. ASSUME NEW i \in DOMAIN bboxes', NEW j \in DOMAIN bboxes', i # j
        PROVE  ~Overlap(bboxes'[i], bboxes'[j])
    <3>1. \A l \in DOMAIN bboxes' : l \in DOMAIN bboxes \/ l = Len(bboxes) + 1
      BY <2>2
    <3>2. \A l \in DOMAIN bboxes :
             ~Overlap(bbox, bboxes[l]) /\ ~Overlap(bboxes[l], bbox)
      BY <1>5 DEF count_overlaps, Overlap
    <3>3. i \in DOMAIN bboxes /\ j \in DOMAIN bboxes => ~Overlap(bboxes[i], bboxes[j])
      BY <1>0, <2>3 DEF Spread, IconsApart
    <3> QED
      BY <2>2, <2>3, <3>1, <3>2, <3>3
  <2>4. ASSUME NEW k \in 1..(turn' - 2)
        PROVE  \E j \in DOMAIN bboxes' :
                  bboxes'[j] = icons[k] \/ Overlap(bboxes'[j], icons[k])
    <3>1. CASE k \in 1..(turn - 2)
      <4>1. PICK j \in DOMAIN bboxes :
                bboxes[j] = icons[k] \/ Overlap(bboxes[j], icons[k])
        BY <1>0, <3>1 DEF Spread, IconsApart
      <4>2. j \in DOMAIN bboxes' /\ bboxes'[j] = bboxes[j]
        BY <2>2
      <4> QED
        BY <4>1, <4>2
    <3>2. CASE k = turn - 1
      BY <2>2, <3>2
    <3> QED
      BY <1>3, <3>1, <3>2
  <2>5. Spread'
    BY <1>0, <2>2, <2>3, <2>4 DEF Spread, IconsApart, Overlap
  <2> QED
    BY <1>0, <1>2, <2>5 DEF DInv
<1> QED
  BY <1>4, <1>5

(* Every step of placing and moving keeps the labels pointed and spread.   *)
LEMMA NextLegible == DInv /\ [DrawingNext]_drawingVars => DInv'
<1> SUFFICES ASSUME DInv, [DrawingNext]_drawingVars PROVE DInv'
  OBVIOUS
<1>0. turn \in Nat /\ Pointed /\ Spread
  BY DEF DInv
<1>1. CASE Place
  <2>1. /\ turn' = 1 /\ UNCHANGED <<axes, label, icons, bboxes>> /\ halign' = "center"
        /\ valign' = default_verticalalignment
    BY <1>1 DEF Place, AtDefault
  <2>2. Pointed'
    BY <1>0, <2>1 DEF Pointed, default_verticalalignment, LabelInside
  <2>3. Spread'
    BY <1>0, <2>1 DEF Spread, IconsApart, Overlap
  <2> QED
    BY <2>1, <2>2, <2>3 DEF DInv
<1>2. CASE Adjust
  <2>1. turn = 1 /\ turn' = 2 /\ UNCHANGED <<icons, bboxes>>
    BY <1>2 DEF Adjust
  <2>2. Spread'
    BY <1>0, <2>1 DEF Spread, IconsApart, Overlap
  <2> QED
    BY <1>2, <2>1, <2>2, AdjustInside DEF DInv
<1>3. CASE DrawIcon
  BY <1>3, DrawSpread
<1>4. CASE Redraw
  <2>1. /\ turn' = 0 /\ bboxes' = <<>> /\ UNCHANGED <<label, icons, halign, valign>>
        /\ axes' \in Figures /\ label.x <= axes'.width /\ label.y <= axes'.height
    BY <1>4 DEF Redraw
  <2>2. Pointed'
    BY <1>0, <2>1 DEF Pointed, LabelInside
  <2>3. Spread'
    BY <1>0, <2>1 DEF Spread, IconsApart
  <2> QED
    BY <2>1, <2>2, <2>3 DEF DInv
<1>5. CASE UNCHANGED drawingVars
  BY <1>0, <1>5 DEF DInv, Pointed, Spread, drawingVars, LabelInside, Inside,
     Left, Bottom, IconsApart, Overlap,
     default_verticalalignment
<1> QED
  BY <1>1, <1>2, <1>3, <1>4, <1>5 DEF DrawingNext

(* A drawing can be read, whatever its size and that of the ones before it:*)
(* a text is never cut off at an edge, and of the icons one is left out    *)
(* only where it overlaps one that is drawn.                               *)
THEOREM LegibleAlways == DrawingSpec => []Legible
<1>1. DrawingInit => DInv
  <2> SUFFICES ASSUME DrawingInit PROVE DInv
    OBVIOUS
  <2>1. /\ axes \in Figures /\ label \in Labels /\ icons \in Rows
        /\ label.x \in 0..axes.width /\ label.y \in 0..axes.height
        /\ halign = "center" /\ valign = default_verticalalignment
        /\ turn = 0 /\ bboxes = <<>>
    BY DEF DrawingInit
  <2>2. axes.width \in Nat /\ axes.height \in Nat
    BY <2>1, LengthsAssumption
  <2>3. Pointed
    BY <2>1, <2>2 DEF Pointed, LabelInside, default_verticalalignment
  <2>4. Spread
    BY <2>1, LengthsAssumption DEF Spread, IconsApart
  <2> QED
    BY <2>1, <2>3, <2>4 DEF DInv
<1>2. DInv => Legible
  BY DEF DInv, Pointed, Spread, Legible
<1> QED
  BY <1>1, <1>2, NextLegible, PTL DEF DrawingSpec

-----------------------------------------------------------------------------
(* Dotted lines.  The error term is, exactly, how far the next step along  *)
(* the longer side will take the pen from the line, less half a pixel,     *)
(* times twice the longer side (ErrorOf); and a step keeps it between two  *)
(* bounds that differ by one pixel.  Both are facts about integers         *)
(* (StepKeepsError); the rest is keeping track of directions.              *)

LEMMA NextProduct == \A a, b \in Int : a * (b + 1) = a * b + a
  BY SMT

(* A multiple of long that is no further than half of it from 0 is 0.      *)
LEMMA WholePixels ==
  ASSUME NEW long \in Nat \ {0}, NEW a \in Nat, NEW b \in Nat,
         2 * (a * long - long * b) \in -long..long
  PROVE  a = b
<1>1. a * long = long * a
  BY SMT
<1>2. ASSUME a > b PROVE FALSE
  <2>1. PICK d \in Nat : a = b + 1 + d
    <3>1. a - b - 1 \in Nat /\ a = b + 1 + (a - b - 1)
      BY <1>2, SMT
    <3> QED
      BY <3>1
  <2>2. long * a = long * b + long + long * d
    BY <2>1, SMT
  <2>3. long * d \in Nat /\ long * b \in Nat
    BY <2>1, SMT
  <2> QED
    BY <1>1, <2>2, <2>3, SMT
<1>3. ASSUME b > a PROVE FALSE
  <2>1. PICK d \in Nat : b = a + 1 + d
    <3>1. b - a - 1 \in Nat /\ b = a + 1 + (b - a - 1)
      BY <1>3, SMT
    <3> QED
      BY <3>1
  <2>2. long * b = long * a + long + long * d
    BY <2>1, SMT
  <2>3. long * d \in Nat /\ long * a \in Nat
    BY <2>1, SMT
  <2> QED
    BY <1>1, <2>2, <2>3, SMT
<1> QED
  BY <1>2, <1>3, SMT

(* The error after so many points along and so many pixels across.         *)
ErrorOf(long, short, along, across) ==
  2 * (short * along) + 2 * short - long - 2 * (long * across)
(* What it stays between.                                                  *)
Bounded(long, short, error) == 2 * short - 2 * long <= error /\ error < 2 * short

LEMMA StepKeepsError ==
  ASSUME NEW long \in Nat \ {0}, NEW short \in Nat, short <= long,
         NEW along \in Nat, NEW across \in Nat, NEW error \in Int,
         error = ErrorOf(long, short, along, across), Bounded(long, short, error)
  PROVE  LET step == IF error >= 0 THEN 1 ELSE 0
             next == (IF error >= 0 THEN error - 2 * long ELSE error) + 2 * short
         IN  next = ErrorOf(long, short, along + 1, across + step) /\ Bounded(long, short, next)
<1>1. short * (along + 1) = short * along + short /\ long * (across + 1) = long * across + long
  BY NextProduct
<1>2. short * along \in Int /\ long * across \in Int
  BY SMT
<1>3. CASE error >= 0
  BY <1>1, <1>2, <1>3, SMT DEF ErrorOf, Bounded
<1>4. CASE ~(error >= 0)
  <2>1. across + 0 = across
    BY SMT
  <2> QED
    BY <1>1, <1>2, <1>4, <2>1, SMT DEF ErrorOf, Bounded
<1> QED
  BY <1>3, <1>4

LEMMA FirstErrorBounded ==
  ASSUME NEW long \in Nat \ {0}, NEW short \in Nat, short <= long
  PROVE  /\ 2 * short - long = ErrorOf(long, short, 0, 0)
         /\ Bounded(long, short, 2 * short - long)
  BY SMT DEF ErrorOf, Bounded

-----------------------------------------------------------------------------
(* Segments.                                                               *)

IntSegments == [x0 : Int, y0 : Int, x1 : Int, y1 : Int]

LEMMA Sides ==
  ASSUME NEW s \in IntSegments
  PROVE  /\ s.x0 \in Int /\ s.y0 \in Int /\ s.x1 \in Int /\ s.y1 \in Int
         /\ Dx(s) \in Nat /\ Dy(s) \in Nat
         /\ Long(s) \in Nat /\ Short(s) \in Nat /\ Short(s) <= Long(s)
         /\ FirstError(s) = 2 * Short(s) - Long(s)
<1>1. s.x0 \in Int /\ s.y0 \in Int /\ s.x1 \in Int /\ s.y1 \in Int
  BY DEF IntSegments
<1>2. Dx(s) \in Nat /\ Dy(s) \in Nat
  BY <1>1, SMT DEF Dx, Dy, Abs
<1> QED
  BY <1>1, <1>2, SMT DEF Long, Short, Flat, FirstError

(* A point so far along the longer side and across, in the direction of the*)
(* segment.                                                                *)
PointAt(s, along, across) ==
  IF Flat(s) THEN [x |-> s.x0 + along * Sign(s.x1 - s.x0), y |-> s.y0 + across * Sign(s.y1 - s.y0)]
             ELSE [x |-> s.x0 + across * Sign(s.x1 - s.x0), y |-> s.y0 + along * Sign(s.y1 - s.y0)]

LEMMA StartAndEnd ==
  ASSUME NEW s \in IntSegments
  PROVE  /\ PointAt(s, 0, 0) = [x |-> s.x0, y |-> s.y0]
         /\ PointAt(s, Long(s), Short(s)) = [x |-> s.x1, y |-> s.y1]
<1>1. s.x0 \in Int /\ s.y0 \in Int /\ s.x1 \in Int /\ s.y1 \in Int
  BY Sides
<1>2. \A n \in Int : 0 * Sign(n) = 0 /\ Abs(n) * Sign(n) = n
  BY SMT DEF Sign, Abs
<1>3. s.x1 - s.x0 \in Int /\ s.y1 - s.y0 \in Int
  BY <1>1, SMT
<1>4. s.x0 + (s.x1 - s.x0) = s.x1 /\ s.y0 + (s.y1 - s.y0) = s.y1 /\ s.x0 + 0 = s.x0 /\ s.y0 + 0 = s.y0
  BY <1>1, SMT
<1> QED
  BY <1>2, <1>3, <1>4 DEF PointAt, Long, Short, Dx, Dy

(* How far the pen is, when it is at such a point.                         *)
LEMMA Distances ==
  ASSUME NEW along \in Nat, NEW across \in Nat, ends \in IntSegments,
         pen = PointAt(ends, along, across)
  PROVE  Along = along /\ Across = across
<1>1. ends.x0 \in Int /\ ends.y0 \in Int /\ ends.x1 \in Int /\ ends.y1 \in Int
  BY Sides
<1>2. \A n \in Nat, from, d \in Int : Abs((from + n * Sign(d)) - from) = n
  BY SMT DEF Abs, Sign
<1>3. ends.x1 - ends.x0 \in Int /\ ends.y1 - ends.y0 \in Int
  BY <1>1, SMT
<1>4. CASE Flat(ends)
  <2>1. /\ pen.x = ends.x0 + along * Sign(ends.x1 - ends.x0)
        /\ pen.y = ends.y0 + across * Sign(ends.y1 - ends.y0)
    BY <1>4 DEF PointAt
  <2>2. Abs((ends.x0 + along * Sign(ends.x1 - ends.x0)) - ends.x0) = along
    BY <1>1, <1>2, <1>3
  <2>3. Abs((ends.y0 + across * Sign(ends.y1 - ends.y0)) - ends.y0) = across
    BY <1>1, <1>2, <1>3
  <2> QED
    BY <1>4, <2>1, <2>2, <2>3, Zenon DEF Along, Across
<1>5. CASE ~Flat(ends)
  <2>1. /\ pen.x = ends.x0 + across * Sign(ends.x1 - ends.x0)
        /\ pen.y = ends.y0 + along * Sign(ends.y1 - ends.y0)
    BY <1>5 DEF PointAt
  <2>2. Abs((ends.x0 + across * Sign(ends.x1 - ends.x0)) - ends.x0) = across
    BY <1>1, <1>2, <1>3
  <2>3. Abs((ends.y0 + along * Sign(ends.y1 - ends.y0)) - ends.y0) = along
    BY <1>1, <1>2, <1>3
  <2> QED
    BY <1>5, <2>1, <2>2, <2>3, Zenon DEF Along, Across
<1> QED
  BY <1>4, <1>5

-----------------------------------------------------------------------------
(* The inductive invariant.                                                *)

OnTrack(across) ==
  /\ pen = PointAt(ends, walked, across)
  /\ e = ErrorOf(Long(ends), Short(ends), walked, across)
  /\ Bounded(Long(ends), Short(ends), e)

LineInv ==
  /\ ends \in IntSegments
  /\ walked \in Nat /\ walked <= Long(ends)
  /\ e \in Int
  /\ Long(ends) = 0 => pen = [x |-> ends.x0, y |-> ends.y0]
  /\ Long(ends) > 0 => \E across \in Nat : OnTrack(across)

(* A segment that begins.                                                  *)
LEMMA BeginsOnTrack ==
  ASSUME NEW s \in IntSegments, Begin(s)
  PROVE  LineInv'
<1>1. ends' = s /\ pen' = [x |-> s.x0, y |-> s.y0] /\ e' = FirstError(s) /\ walked' = 0
  BY DEF Begin
<1>2. /\ Long(s) \in Nat /\ Short(s) \in Nat /\ Short(s) <= Long(s)
      /\ FirstError(s) = 2 * Short(s) - Long(s)
  BY Sides
<1>3. FirstError(s) \in Int
  BY <1>2, SMT
<1>4. ASSUME Long(s) > 0 PROVE OnTrack(0)'
  <2>1. Long(s) \in Nat \ {0}
    BY <1>2, <1>4, SMT
  <2>2. /\ FirstError(s) = ErrorOf(Long(s), Short(s), 0, 0)
        /\ Bounded(Long(s), Short(s), FirstError(s))
    BY <1>2, <2>1, FirstErrorBounded
  <2>3. pen' = PointAt(s, 0, 0)
    BY <1>1, StartAndEnd
  <2> QED
    BY <1>1, <2>2, <2>3 DEF OnTrack
<1> QED
  <2>1. (\E across \in Nat : OnTrack(across)') \/ ~(Long(s) > 0)
    BY <1>4, SMT
  <2> QED
    BY <1>1, <1>2, <1>3, <2>1, SMT DEF LineInv

(* A point further along.                                                  *)
LEMMA PointSteps ==
  ASSUME NEW s \in IntSegments, NEW along \in Nat, NEW across \in Nat, NEW step \in {0, 1},
         NEW p, p = PointAt(s, along, across)
  PROVE  PointAt(s, along + 1, across + step) =
           IF Flat(s)
           THEN [x |-> p.x + Sign(s.x1 - s.x0), y |-> p.y + step * Sign(s.y1 - s.y0)]
           ELSE [x |-> p.x + step * Sign(s.x1 - s.x0), y |-> p.y + Sign(s.y1 - s.y0)]
<1>1. s.x0 \in Int /\ s.y0 \in Int /\ s.x1 \in Int /\ s.y1 \in Int
  BY Sides
<1>2. s.x1 - s.x0 \in Int /\ s.y1 - s.y0 \in Int
  BY <1>1, SMT
<1>3. \A n \in Nat, from, d \in Int :
        /\ from + (n + 1) * Sign(d) = (from + n * Sign(d)) + Sign(d)
        /\ from + (n + step) * Sign(d) = (from + n * Sign(d)) + step * Sign(d)
  BY SMT DEF Sign
<1>4. CASE Flat(s)
  <2>1. /\ p.x = s.x0 + along * Sign(s.x1 - s.x0)
        /\ p.y = s.y0 + across * Sign(s.y1 - s.y0)
    BY <1>4 DEF PointAt
  <2> QED
    BY <1>1, <1>2, <1>3, <1>4, <2>1, ZenonT(40) DEF PointAt
<1>5. CASE ~Flat(s)
  <2>1. /\ p.x = s.x0 + across * Sign(s.x1 - s.x0)
        /\ p.y = s.y0 + along * Sign(s.y1 - s.y0)
    BY <1>5 DEF PointAt
  <2> QED
    BY <1>1, <1>2, <1>3, <1>5, <2>1, ZenonT(40) DEF PointAt
<1> QED
  BY <1>4, <1>5

LEMMA WalkStaysOnTrack ==
  ASSUME LineInv, Walk
  PROVE  LineInv'
<1>1. ends' = ends /\ ends \in IntSegments
  BY DEF LineInv, Walk
<1>2. Long(ends) \in Nat /\ Short(ends) \in Nat /\ Short(ends) <= Long(ends)
  BY <1>1, Sides
<1>3. walked \in Nat /\ walked < Long(ends) /\ walked' = walked + 1
  BY DEF LineInv, Walk
<1>4. Long(ends) > 0 /\ Long(ends) \in Nat \ {0}
  BY <1>2, <1>3, SMT
<1>5. PICK across \in Nat : OnTrack(across)
  BY <1>4 DEF LineInv
<1> DEFINE step == IF e >= 0 THEN 1 ELSE 0
<1>6. e \in Int
  BY DEF LineInv
<1>7. step \in {0, 1} /\ across + step \in Nat
  BY <1>6, SMT
<1>8. e' = (IF e >= 0 THEN e - 2 * Long(ends) ELSE e) + 2 * Short(ends)
  BY DEF Walk
<1>9. /\ e' = ErrorOf(Long(ends), Short(ends), walked + 1, across + step)
      /\ Bounded(Long(ends), Short(ends), e')
  BY <1>2, <1>3, <1>4, <1>5, <1>6, <1>8, StepKeepsError DEF OnTrack
<1>10. pen' = PointAt(ends, walked + 1, across + step)
  <2>1. pen = PointAt(ends, walked, across)
    BY <1>5 DEF OnTrack
  <2>2. pen' = IF Flat(ends)
               THEN [x |-> pen.x + Sign(ends.x1 - ends.x0),
                     y |-> pen.y + step * Sign(ends.y1 - ends.y0)]
               ELSE [x |-> pen.x + step * Sign(ends.x1 - ends.x0),
                     y |-> pen.y + Sign(ends.y1 - ends.y0)]
    BY DEF Walk
  <2> QED
    BY <1>1, <1>3, <1>7, <2>1, <2>2, PointSteps
<1>11. PICK next \in Nat : next = across + step
  BY <1>7
<1>12. e' \in Int
  BY <1>2, <1>6, <1>8, SMT
<1> HIDE DEF step
<1>13. OnTrack(next)'
  BY <1>1, <1>3, <1>9, <1>10, <1>11 DEF OnTrack
<1>14. walked' \in Nat /\ walked' <= Long(ends)
  BY <1>2, <1>3, SMT
<1>15. Long(ends') = 0 => pen' = [x |-> ends'.x0, y |-> ends'.y0]
  BY <1>1, <1>4, SMT
<1> QED
  BY <1>1, <1>12, <1>13, <1>14, <1>15 DEF LineInv

LEMMA CoordsAreInts == Segments \subseteq IntSegments
  BY CoordsAssumption DEF Segments, IntSegments

LEMMA InitOnTrack == LineInit => LineInv
<1> SUFFICES ASSUME NEW s \in Segments, ends = s, pen = [x |-> s.x0, y |-> s.y0],
                    e = FirstError(s), walked = 0
             PROVE  LineInv
  BY DEF LineInit
<1>1. s \in IntSegments
  BY CoordsAreInts
<1>2. /\ Long(s) \in Nat /\ Short(s) \in Nat /\ Short(s) <= Long(s)
      /\ FirstError(s) = 2 * Short(s) - Long(s)
  BY <1>1, Sides
<1>3. FirstError(s) \in Int
  BY <1>2, SMT
<1>4. ASSUME Long(s) > 0 PROVE OnTrack(0)
  <2>1. Long(s) \in Nat \ {0}
    BY <1>2, <1>4, SMT
  <2>2. /\ FirstError(s) = ErrorOf(Long(s), Short(s), 0, 0)
        /\ Bounded(Long(s), Short(s), FirstError(s))
    BY <1>2, <2>1, FirstErrorBounded
  <2>3. pen = PointAt(s, 0, 0)
    BY <1>1, StartAndEnd
  <2> QED
    BY <2>2, <2>3 DEF OnTrack
<1>5. (\E across \in Nat : OnTrack(across)) \/ ~(Long(s) > 0)
  BY <1>4, SMT
<1> QED
  BY <1>1, <1>2, <1>3, <1>5, SMT DEF LineInv

LEMMA StaysOnTrack == LineInv /\ [LineNext]_lineVars => LineInv'
<1> SUFFICES ASSUME LineInv, [LineNext]_lineVars PROVE LineInv'
  OBVIOUS
<1>1. CASE Walk
  BY <1>1, WalkStaysOnTrack
<1>2. CASE NextSegment
  <2>1. PICK x \in Coords, y \in Coords :
          Begin([x0 |-> ends.x1, y0 |-> ends.y1, x1 |-> x, y1 |-> y])
    BY <1>2 DEF NextSegment
  <2>2. ends.x1 \in Int /\ ends.y1 \in Int
    BY Sides DEF LineInv
  <2>3. [x0 |-> ends.x1, y0 |-> ends.y1, x1 |-> x, y1 |-> y] \in IntSegments
    BY <2>2, CoordsAssumption DEF IntSegments
  <2> QED
    BY <2>1, <2>3, BeginsOnTrack
<1>3. CASE UNCHANGED lineVars
  BY <1>3 DEF LineInv, OnTrack, lineVars
<1> QED
  BY <1>1, <1>2, <1>3 DEF LineNext

LEMMA OnTrackIsNear == LineInv => NearLine
<1> SUFFICES ASSUME LineInv PROVE NearLine
  OBVIOUS
<1>1. ends \in IntSegments /\ walked \in Nat /\ walked <= Long(ends)
  BY DEF LineInv
<1>2. Long(ends) \in Nat /\ Short(ends) \in Nat /\ Short(ends) <= Long(ends)
  BY <1>1, Sides
<1>3. CASE Long(ends) = 0
  <2>1. walked = 0 /\ Short(ends) = 0
    BY <1>1, <1>2, <1>3, SMT
  <2>2. pen = [x |-> ends.x0, y |-> ends.y0]
    BY <1>3 DEF LineInv
  <2>3. pen = PointAt(ends, 0, 0) /\ pen = [x |-> ends.x1, y |-> ends.y1]
    BY <1>1, <1>3, <2>1, <2>2, StartAndEnd
  <2>4. Along = 0 /\ Across = 0
    BY <1>1, <2>3, Distances
  <2> QED
    BY <1>3, <2>1, <2>3, <2>4, SMT DEF NearLine
<1>4. CASE Long(ends) > 0
  <2>1. PICK across \in Nat : OnTrack(across)
    BY <1>4 DEF LineInv
  <2>2. Along = walked /\ Across = across
    BY <1>1, <2>1, Distances DEF OnTrack
  <2>3. 2 * (across * Long(ends) - walked * Short(ends)) \in -Long(ends)..Long(ends)
    <3>1. across * Long(ends) = Long(ends) * across /\ walked * Short(ends) = Short(ends) * walked
      BY <1>1, <1>2, SMT
    <3>2. Long(ends) * across \in Int /\ Short(ends) * walked \in Int
      BY <1>1, <1>2, SMT
    <3> QED
      BY <1>2, <2>1, <3>1, <3>2, SMT DEF OnTrack, ErrorOf, Bounded
  <2>4. ASSUME walked = Long(ends) PROVE pen = [x |-> ends.x1, y |-> ends.y1]
    <3>1. Long(ends) \in Nat \ {0}
      BY <1>2, <1>4, SMT
    <3>2. 2 * (across * Long(ends) - Long(ends) * Short(ends)) \in -Long(ends)..Long(ends)
      BY <2>3, <2>4
    <3>3. across = Short(ends)
      BY <1>2, <3>1, <3>2, WholePixels
    <3> QED
      BY <1>1, <2>1, <2>4, <3>3, StartAndEnd DEF OnTrack
  <2> QED
    BY <2>2, <2>3, <2>4 DEF NearLine
<1> QED
  BY <1>2, <1>3, <1>4, SMT

-----------------------------------------------------------------------------
(* No point of a dotted line is more than half a pixel from the line, and  *)
(* each segment ends where the next one begins: for every polyline.        *)
THEOREM NearLineAlways == LineSpec => []NearLine
<1>1. LineInit => LineInv
  BY InitOnTrack
<1>2. LineInv /\ [LineNext]_lineVars => LineInv'
  BY StaysOnTrack
<1>3. LineInv => NearLine
  BY OnTrackIsNear
<1> QED
  BY <1>1, <1>2, <1>3, PTL DEF LineSpec
=============================================================================
