---------------------------- MODULE GpuMetrics ----------------------------
(***************************************************************************)
(* MetricsReader and its recorder (src/amdgpu/src/interface.rs,            *)
(* src/amdgpu/macros/src/lib.rs), for one field of gpu_metrics: each sample*)
(* is recorded with the time since the one before as its weight, and a     *)
(* report prints the histogram cumulatively.  Reports change nothing: what *)
(* one prints is the operator Report of the state.                         *)
(*                                                                         *)
(* The device (external) is a file whose content has a version; reading it *)
(* may fail, and its clock may start again at 0.                           *)
(***************************************************************************)
EXTENDS Histogram, FiniteSetsExt, Functions

CONSTANTS
  Values,       \* values the field takes
  Versions,     \* versions of gpu_metrics the program knows
  Longer,       \* <<v, w>>: a structure of version v is longer than one of w
  MaxStep,      \* bound: how far the clock goes between two samples
  MaxSamples,   \* bound: samples recorded
  MaxTroubles   \* bound: failed reads, clock resets, changes of version

ASSUME DeviceAssumption ==
  /\ Values \subseteq 0..(Pow(2, MaxBits) - 1) /\ Longer \subseteq Versions \X Versions
  /\ MaxStep \in Nat /\ MaxSamples \in Nat /\ MaxTroubles \in Nat

VARIABLES
  recorder,  \* version of the recorder
  last,      \* last_system_clock_counter
  hist,      \* the histogram of the field
  version,   \* of the file
  clock,     \* system_clock_counter of the device
  recorded,  \* what was recorded since the recorder was made: value -> weight
  first,     \* clock of its first sample
  samples, troubles

vars == <<recorder, last, hist, version, clock, recorded, first, samples, troubles>>

NoValues == [v \in {} |-> 0]

(* A new recorder (RecorderType::new with the header's version).           *)
Fresh(v) == /\ recorder' = v /\ last' = None /\ hist' = Default
            /\ recorded' = NoValues /\ first' = None

Init ==
  /\ version \in Versions /\ recorder = version
  /\ last = None /\ hist = Default
  /\ clock \in 0..(Wrap - 1)
  /\ recorded = NoValues /\ first = None
  /\ samples = 0 /\ troubles = 0

Weigh(v, weight) ==
  [u \in DOMAIN recorded \cup {v} |->
     ((IF u \in DOMAIN recorded THEN recorded[u] ELSE 0) + (IF u = v THEN weight ELSE 0)) % Wrap]

(* Mistake: only a sample that was recorded moves the counter.             *)
KeepFirst(now) == IF last = None THEN now ELSE last
(* The counter the next sample is measured from.                           *)
LastCounter(now) == now

(* record: a sample of the version the recorder is made for.  The first one*)
(* only sets the counter.  A counter that went back gives a weight that    *)
(* wraps.                                                                  *)
Record(v, step) ==
  /\ version = recorder /\ samples < MaxSamples
  /\ samples' = samples + 1
  /\ clock' = (clock + step) % Wrap
  /\ last' = LastCounter(clock')
  /\ \/ /\ last = None
        /\ first' = clock'
        /\ UNCHANGED <<hist, recorded>>
     \/ /\ last # None
        /\ hist' = RecordWeighted(hist, v, (clock' - last) % Wrap)
        /\ recorded' = Weigh(v, (clock' - last) % Wrap)
        /\ UNCHANGED first
  /\ UNCHANGED <<recorder, version, troubles>>

(* record: reading fails at the start of the file.  The header is read from*)
(* there; by then the device may answer again.                             *)
ReadFails ==
  /\ troubles < MaxTroubles
  /\ troubles' = troubles + 1
  /\ \/ Fresh(version)
     \/ UNCHANGED <<recorder, last, hist, recorded, first>>
  /\ UNCHANGED <<version, clock, samples>>

(* record: another version.  Nothing goes back to the start of the file, so*)
(* the header is read from behind what was just read: there is either      *)
(* nothing, and the recorder stays, or (the structure of the file is longer*)
(* than the recorder's) data, which may look like a header.                *)
WrongVersion ==
  /\ version # recorder
  /\ \/ /\ <<version, recorder>> \in Longer
        /\ \E v \in Versions : Fresh(v)
     \/ UNCHANGED <<recorder, last, hist, recorded, first>>
  /\ UNCHANGED <<version, clock, samples, troubles>>

(* The device starts again, perhaps with another version.                  *)
DeviceReset ==
  /\ troubles < MaxTroubles
  /\ troubles' = troubles + 1
  /\ clock' = 0
  /\ version' \in Versions
  /\ UNCHANGED <<recorder, last, hist, recorded, first, samples>>

Next == \/ \E v \in Values, step \in 0..MaxStep : Record(v, step)
        \/ ReadFails \/ WrongVersion \/ DeviceReset

Spec == Init /\ [][Next]_vars

-----------------------------------------------------------------------------
(* What a report prints: cumulative counts, the last one up to infinity,   *)
(* which is added unless a bucket ends there already.                      *)
Report ==
  LET s == Sample(hist)
      toInfinity == hist.offset = None /\ s # <<>>
      buckets == IF toInfinity THEN s ELSE Append(s, [le |-> None, count |-> 0])
      counts == [j \in DOMAIN buckets |-> buckets[j].count]
  IN  [i \in DOMAIN buckets |->
         [le |-> buckets[i].le, count |-> SumFunctionOnSet(counts, 1..i) % Wrap]]

(* The weight of the values in S.                                          *)
WeightOf(S) == SumFunctionOnSet(recorded, S) % Wrap

-----------------------------------------------------------------------------
(* Properties.                                                             *)

TypeOK ==
  /\ recorder \in Versions /\ version \in Versions
  /\ last \in 0..(Wrap - 1) \cup {None} /\ first \in 0..(Wrap - 1) \cup {None}
  /\ clock \in 0..(Wrap - 1)
  /\ hist.scale \in CoarsestScale..MaxScale
  /\ hist.offset \in Int \cup {None}
  /\ hist.buckets \in Seq(0..(Wrap - 1)) /\ Len(hist.buckets) <= MaxSize
  /\ hist.count \in 0..(Wrap - 1)
  /\ DOMAIN recorded \subseteq Values
  /\ samples \in 0..MaxSamples /\ troubles \in 0..MaxTroubles

(* A report is exact: the count printed for a bound le is the weight of the*)
(* recorded values up to le, although the histogram kept none of them and  *)
(* has merged its buckets and moved them since.                            *)
CumulativeExact ==
  \A i \in DOMAIN Report :
    Report[i].count =
      WeightOf({v \in DOMAIN recorded :
                  Report[i].le = None \/ AtMost(v, Report[i].le, hist.scale)})

(* The histogram gives up no more resolution than it has to: at the next   *)
(* finer scale the recorded values would not fit into the positive buckets *)
(* (comment of ideal_scale_for_value).                                     *)
BestResolution ==
  LET indices == {IndexForValue(hist.scale + 1, v) : v \in DOMAIN recorded \ {0}}
  IN  \/ hist.scale = MaxScale
      \/ \E i, j \in indices : j - i + 1 > MaxSize - 1

(* The weights add up to the time that passed: _count is the clock of the  *)
(* last sample less that of the first one of this recorder, over failed    *)
(* reads and resets of the device, all modulo the width of the counters.   *)
CountsTime ==
  /\ last = None <=> first = None
  /\ hist.count = IF last = None THEN 0 ELSE (last - first) % Wrap
=============================================================================
