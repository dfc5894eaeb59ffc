---------------------------- MODULE SampleBuffer ----------------------------
(***************************************************************************)
(* What the sampling thread and the reporting thread of amdgpu.py promise  *)
(* each other: every sample is taken by one report, none by two, and a     *)
(* report takes all that are there, in the order in which they were made.  *)
(* AmdGpu implements it with lists that are swapped under a lock.          *)
(***************************************************************************)
EXTENDS Sequences

CONSTANTS Gpus, Samples

VARIABLES
  pending,   \* samples no report has taken
  taken      \* samples the last report took

Init == pending = [g \in Gpus |-> <<>>] /\ taken = [g \in Gpus |-> <<>>]

Add(g) == /\ \E sample \in Samples : pending' = [pending EXCEPT ![g] = Append(@, sample)]
          /\ UNCHANGED taken

Take(g) == /\ taken' = [taken EXCEPT ![g] = pending[g]]
           /\ pending' = [pending EXCEPT ![g] = <<>>]

Next == \E g \in Gpus : Add(g) \/ Take(g)

Spec == Init /\ [][Next]_<<pending, taken>>
=============================================================================
