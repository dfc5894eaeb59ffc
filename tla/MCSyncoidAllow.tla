-------------------------- MODULE MCSyncoidAllow --------------------------
(* SyncoidAllow on small instances.                                        *)
EXTENDS SyncoidAllow, TLC

CONSTANTS pool, src, dst, new, other, usb, c1, c2, c3, send, hold, create

MCParent == [d \in Datasets |-> IF d \in {pool, usb} THEN NoDataset ELSE pool]

(* Two commands send one dataset to two remote targets; a third one sends  *)
(* a pool that is not there, with a permission the others need as well,    *)
(* into a dataset of its own.                                              *)
SharedSource == (c1 :> src @@ c2 :> src @@ c3 :> usb)
SharedTarget == (c1 :> NoDataset @@ c2 :> NoDataset @@ c3 :> dst)
SharedSourceAllow == (c1 :> {send, hold} @@ c2 :> {send} @@ c3 :> {send})
SharedTargetAllow == [c \in Commands |-> IF c = c3 THEN {create} ELSE {}]

(* Two commands receive into new datasets of one pool.                     *)
NewSource == [c \in Commands |-> NoDataset]
NewTarget == (c1 :> new @@ c2 :> other)
NewSourceAllow == [c \in Commands |-> {}]
NewTargetAllow == [c \in Commands |-> {create}]
=============================================================================
