------------------------------ MODULE Meteogram ------------------------------
(***************************************************************************)
(* The meteogram on the e-paper display: the widget (mqtt_image of         *)
(* src/workshop/esphome/my_components) asks over MQTT for a picture of the *)
(* size its layout gives it, and the grapher (graph.py of                  *)
(* src/workshop/dashboard) draws one of that size every minute and         *)
(* publishes it.  Both messages are retained by the broker (external) and  *)
(* delivered at most once (quality of service 0).                          *)
(*                                                                         *)
(* The grapher has two threads: paho's calls on_message, the main one      *)
(* draws; they share width and height without a lock.                      *)
(***************************************************************************)
EXTENDS Integers, Sequences

CONSTANTS
  Layouts,     \* the sizes a layout may give the widget: <<width, height>>
  Default,     \* of a new grapher: <<1024, 100>>
  Shrinks,     \* n with int(n / dpi * dpi) = n - 1, as 29 for 100 dpi
  MaxFlight,   \* bound: pictures on their way to the widget
  MaxChanges,  \* bound: changes of the layout
  MaxFaults    \* bound: losses, disconnections, restarts, failing queries

(* Sizes are whole pixels.                                                 *)
ASSUME LayoutsAssumption == Layouts \subseteq Nat \X Nat /\ Default \in Nat \X Nat

VARIABLES
  layout,      \* what draw() is called with
  widget,      \* [last, image, online]: last_width_ and last_height_, image_data_
  retained,    \* the broker's: [request, image]
  requests,    \* on their way to the grapher
  images,      \* on their way to the widget
  grapher,     \* [pc, width, height, drawn, deaf, online]
  handler,     \* the height on_message still has to set, if any
  torn,        \* a request came in between while the size was read
  lost,        \* the last request counts as sent but never reached the broker
  changes, faults

displayVars == <<layout, widget, retained, requests, images, grapher, handler, torn, lost,
                 changes, faults>>

None == <<>>
Unsent == <<0, 0>>
NewWidget == [last |-> Unsent, image |-> None, online |-> TRUE]
NewGrapher == [pc |-> "plot", width |-> Default[1], height |-> Default[2],
               drawn |-> None, deaf |-> FALSE, online |-> TRUE]

DisplayInit ==
  /\ layout \in Layouts
  /\ widget = NewWidget /\ grapher = NewGrapher /\ handler = None
  /\ retained = [request |-> None, image |-> None]
  /\ requests = <<>> /\ images = <<>>
  /\ torn = FALSE /\ lost = FALSE
  /\ changes = 0 /\ faults = 0

Fault == faults < MaxFaults /\ faults' = faults + 1

-----------------------------------------------------------------------------
(* The widget.                                                             *)

(* send_size_request_ remembers the size if publish() returned true.       *)
Remembered == IF widget.online THEN layout ELSE widget.last

Forwarded(queue, message, subscribed) == IF subscribed THEN Append(queue, message) ELSE queue

(* draw(): the size is requested when it is a new one.  Without a          *)
(* connection publish() returns false; with a broken one nobody notices    *)
(* yet it returns true.  The picture is drawn as it is.                    *)
Draw ==
  /\ layout # widget.last
  /\ widget' = [widget EXCEPT !.last = Remembered]
  /\ \/ /\ ~widget.online
        /\ UNCHANGED <<retained, requests, lost, faults>>
     \/ /\ widget.online
        /\ retained' = [retained EXCEPT !.request = layout]
        /\ requests' = Forwarded(requests, layout, grapher.online /\ ~grapher.deaf)
        /\ lost' = FALSE
        /\ UNCHANGED faults
     \/ /\ widget.online /\ Fault
        /\ lost' = TRUE
        /\ UNCHANGED <<retained, requests>>
  /\ UNCHANGED <<layout, images, grapher, handler, torn, changes>>

(* update_image_: a picture that cannot be decoded clears the last one.    *)
(* The size of the picture becomes the least one of the widget; what the   *)
(* display makes of that is a Relayout.                                    *)
UpdateImage ==
  /\ images # <<>>
  /\ images' = Tail(images)
  /\ \/ widget' = [widget EXCEPT !.image = Head(images)] /\ UNCHANGED faults
     \/ widget' = [widget EXCEPT !.image = None] /\ Fault
  /\ UNCHANGED <<layout, retained, requests, grapher, handler, torn, lost, changes>>

(* Subscribing brings the retained message.                                *)
Retained(message) == IF message = None THEN <<>> ELSE <<message>>

(* A new widget has asked for nothing yet.                                 *)
WidgetRestarts ==
  /\ Fault
  /\ widget' = NewWidget
  /\ images' = Retained(retained.image)
  /\ UNCHANGED <<layout, retained, requests, grapher, handler, torn, lost, changes>>

WidgetDisconnects ==
  /\ widget.online /\ Fault
  /\ widget' = [widget EXCEPT !.online = FALSE]
  /\ images' = <<>>
  /\ UNCHANGED <<layout, retained, requests, grapher, handler, torn, lost, changes>>

(* ESPHome's client subscribes again.                                      *)
WidgetReconnects ==
  /\ ~widget.online
  /\ widget' = [widget EXCEPT !.online = TRUE]
  /\ images' = Retained(retained.image)
  /\ UNCHANGED <<layout, retained, requests, grapher, handler, torn, lost, changes, faults>>

Relayout ==
  /\ changes < MaxChanges
  /\ changes' = changes + 1
  /\ layout' \in Layouts \ {layout}
  /\ UNCHANGED <<widget, retained, requests, images, grapher, handler, torn, lost, faults>>

-----------------------------------------------------------------------------
(* The grapher.                                                            *)

(* Mistake: the height stays as it is.                                     *)
OnlyWidth(height) == grapher.height
NewHeight(height) == height

(* on_message: the width ...                                               *)
SetWidth ==
  /\ requests # <<>> /\ handler = None
  /\ requests' = Tail(requests)
  /\ grapher' = [grapher EXCEPT !.width = Head(requests)[1]]
  /\ handler' = <<Head(requests)[2]>>
  /\ torn' = TRUE
  /\ UNCHANGED <<layout, widget, retained, images, lost, changes, faults>>

(* ... and the height.                                                     *)
SetHeight ==
  /\ handler # None
  /\ grapher' = [grapher EXCEPT !.height = NewHeight(handler[1])]
  /\ handler' = None
  /\ UNCHANGED <<layout, widget, retained, requests, images, torn, lost, changes, faults>>

(* run_mqtt: whatever is raised is logged, and it starts over a minute     *)
(* later.                                                                  *)
StartOver == grapher' = [grapher EXCEPT !.pc = "plot", !.drawn = None]

(* send_graphs: plot_meteogram, which may fail; then the size is read.     *)
Plot ==
  /\ grapher.pc = "plot"
  /\ \/ grapher' = [grapher EXCEPT !.pc = "width"] /\ UNCHANGED faults
     \/ StartOver /\ Fault
  /\ UNCHANGED <<layout, widget, retained, requests, images, handler, torn, lost, changes>>

ReadWidth ==
  /\ grapher.pc = "width"
  /\ grapher' = [grapher EXCEPT !.pc = "height", !.drawn = <<grapher.width>>]
  /\ torn' = (handler # None)
  /\ UNCHANGED <<layout, widget, retained, requests, images, handler, lost, changes, faults>>

ReadHeight ==
  /\ grapher.pc = "height"
  /\ grapher' = [grapher EXCEPT !.pc = "publish", !.drawn = Append(@, grapher.height)]
  /\ UNCHANGED <<layout, widget, retained, requests, images, handler, torn, lost, changes,
                 faults>>

(* set_size_inches divides by the resolution, the canvas multiplies again  *)
(* and cuts off what is behind the point.                                  *)
Pixels(n) == IF n \in Shrinks THEN n - 1 ELSE n
Picture(size) == <<Pixels(size[1]), Pixels(size[2])>>

(* Without a connection publish() or wait_for_publish() raises.            *)
Publish ==
  /\ grapher.pc = "publish" /\ Len(images) < MaxFlight
  /\ StartOver
  /\ IF grapher.online
     THEN /\ retained' = [retained EXCEPT !.image = Picture(grapher.drawn)]
          /\ images' = Forwarded(images, Picture(grapher.drawn), widget.online)
     ELSE UNCHANGED <<retained, images>>
  /\ UNCHANGED <<layout, widget, requests, handler, torn, lost, changes, faults>>

GrapherDisconnects ==
  /\ grapher.online /\ Fault
  /\ grapher' = [grapher EXCEPT !.online = FALSE]
  /\ requests' = <<>>
  /\ UNCHANGED <<layout, widget, retained, images, handler, torn, lost, changes>>

(* paho connects again on its own, with a clean session: the subscription  *)
(* made once at the start is gone.                                         *)
GrapherReconnects ==
  /\ ~grapher.online
  /\ grapher' = [grapher EXCEPT !.online = TRUE, !.deaf = TRUE]
  /\ UNCHANGED <<layout, widget, retained, requests, images, handler, torn, lost, changes,
                 faults>>

(* _connect_mqtt and subscribe.                                            *)
GrapherRestarts ==
  /\ Fault
  /\ grapher' = NewGrapher
  /\ requests' = Retained(retained.request)
  /\ handler' = None /\ torn' = FALSE
  /\ UNCHANGED <<layout, widget, retained, images, lost, changes>>

-----------------------------------------------------------------------------
(* The two threads of the grapher.                                         *)
on_message == SetWidth \/ SetHeight
run_mqtt == Plot \/ ReadWidth \/ ReadHeight \/ Publish

DisplayNext ==
  \/ Draw \/ UpdateImage \/ WidgetRestarts \/ WidgetDisconnects \/ WidgetReconnects
  \/ Relayout
  \/ on_message \/ run_mqtt
  \/ GrapherDisconnects \/ GrapherReconnects \/ GrapherRestarts

DisplaySpec == DisplayInit /\ [][DisplayNext]_displayVars

(* The display redraws at an interval, the two threads of the grapher and  *)
(* both clients run on, and the broker delivers what it has.               *)
DisplayFairness ==
  /\ WF_displayVars(Draw) /\ WF_displayVars(UpdateImage) /\ WF_displayVars(WidgetReconnects)
  /\ WF_displayVars(on_message) /\ WF_displayVars(run_mqtt) /\ WF_displayVars(GrapherReconnects)
DisplayFairSpec == DisplaySpec /\ DisplayFairness

-----------------------------------------------------------------------------
(* Properties.                                                             *)

(* When layout and faults settle, the display ends up with a picture of the*)
(* size it has room for (less the pixel that rounding may cost), unless its*)
(* last request was lost unnoticed or the grapher no longer hears any.     *)
Fits == lost \/ grapher.deaf \/ widget.image = Picture(layout)

(* A picture is of a size that was asked for as a whole (or the default),  *)
(* unless a request came in just while its size was read: width and height *)
(* are set one by one, but what is torn is not kept.                       *)
TornOnlyBetween ==
  grapher.pc = "publish" => torn \/ grapher.drawn \in Layouts \cup {Default}
=============================================================================
