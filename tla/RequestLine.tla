---------------------------- MODULE RequestLine ----------------------------
(***************************************************************************)
(* What Fluke45Protocol promises to its callers about the single serial    *)
(* line: the futures of the requests take turns.  A request is opened only *)
(* when no other one is outstanding, an outstanding one is either answered *)
(* or abandoned, and one that was abandoned keeps the line for good (the   *)
(* code has no way to take it back).                                       *)
(***************************************************************************)
CONSTANT Futures

VARIABLE fut     \* status of the future of each request

FutStatus == {"none", "unset", "set", "cancelled"}

(* The requests that hold the line.                                        *)
Holders == {f \in Futures : fut[f] \in {"unset", "cancelled"}}

Init == fut = [f \in Futures |-> "none"]

Open(f) == /\ fut[f] = "none"
           /\ Holders = {}
           /\ fut' = [fut EXCEPT ![f] = "unset"]

Answer(f) == /\ fut[f] = "unset"
             /\ fut' = [fut EXCEPT ![f] = "set"]

Abandon(f) == /\ fut[f] = "unset"
              /\ fut' = [fut EXCEPT ![f] = "cancelled"]

Next == \E f \in Futures : Open(f) \/ Answer(f) \/ Abandon(f)

Spec == Init /\ [][Next]_fut
=============================================================================
