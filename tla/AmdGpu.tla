------------------------------- MODULE AmdGpu -------------------------------
(***************************************************************************)
(* amdgpu.py (src/ansible/roles/steamdeck-telegraf/files): a thread samples*)
(* gpu_metrics of every GPU a few hundred times a second, and for every    *)
(* line telegraf writes to it the main thread prints the mean of what was  *)
(* sampled since the line before.                                          *)
(*                                                                         *)
(* The list of samples of a GPU is swapped for an empty one under a lock.  *)
(* Which list a thread has got hold of is part of the model: the sampler   *)
(* looks `self.samples` up before it appends.  The file (external) holds   *)
(* some bytes that begin with their number and the version of the struct.  *)
(***************************************************************************)
EXTENDS Integers, Sequences, SequencesExt, FiniteSets

CONSTANTS
  NumGpus,
  Fields,      \* fields of every struct, as average() names them
  Ones,        \* the value of a field with all bits set
  Files,       \* what the files may hold: [size, declared, version]
  MaxSamples,  \* bound: files read
  MaxLines     \* bound: lines from telegraf

Gpus == 1..NumGpus

ASSUME AmdGpuAssumption ==
  /\ NumGpus \in Nat \ {0} /\ Ones \in Nat \ {0}
  /\ MaxSamples \in Nat /\ MaxLines \in Nat

-----------------------------------------------------------------------------
(* The structs.  A run is so many fields (or elements of an array, or bytes*)
(* of a header) of one width, in bytes.                                    *)

Run(what, width, count) == [what |-> what, width |-> width, count |-> count]

Header == <<Run("structure_size", 2, 1), Run("format, content_revision", 1, 2)>>

(* The order of the first fields of version 1 since 1.1.                   *)
Common1 == Header \o
  <<Run("temperature, activity, socket_power", 2, 10),
    Run("energy_accumulator, system_clock_counter", 8, 2),
    Run("average and current clocks", 2, 14), Run("throttle_status", 4, 1),
    Run("fan_speed, pcie_link, padding", 2, 4), Run("activity_acc", 4, 2)>>

gpu_metrics_v1_0 == Header \o
  <<Run("system_clock_counter", 8, 1), Run("temperature, activity, socket_power", 2, 10),
    Run("energy_accumulator", 4, 1), Run("average and current clocks", 2, 14),
    Run("throttle_status", 4, 1), Run("fan_speed", 2, 1), Run("pcie_link", 1, 2)>>

(* The third element of the last field makes it a bit field (of four bits) *)
(* of one uint16, and not an array of four of them.                        *)
gpu_metrics_v1_1 == Common1 \o <<Run("temperature_hbm", 2, 1)>>

gpu_metrics_v1_2 == Common1 \o
  <<Run("temperature_hbm", 2, 4), Run("firmware_timestamp", 8, 1)>>

gpu_metrics_v1_3 == gpu_metrics_v1_2 \o
  <<Run("voltage, padding1", 2, 4), Run("indep_throttle_status", 8, 1)>>

gpu_metrics_v2_0 == Header \o
  <<Run("system_clock_counter", 8, 1), Run("temperature", 2, 12), Run("activity", 2, 2),
    Run("power", 2, 12), Run("average and current clocks", 2, 22),
    Run("throttle_status", 4, 1), Run("fan_pwm, padding", 2, 2)>>

gpu_metrics_v2_1 == Header \o
  <<Run("temperature", 2, 12), Run("activity", 2, 2), Run("system_clock_counter", 8, 1),
    Run("power", 2, 12), Run("average and current clocks", 2, 22),
    Run("throttle_status", 4, 1), Run("fan_pwm, padding", 2, 4)>>

gpu_metrics_v2_2 == gpu_metrics_v2_1 \o <<Run("indep_throttle_status", 8, 1)>>

(* FORMATS, by format_revision and content_revision.                       *)
FORMATS == {<<1, 0>>, <<1, 1>>, <<1, 2>>, <<1, 3>>, <<2, 0>>, <<2, 1>>, <<2, 2>>}
Struct(version) ==
  CASE version = <<1, 0>> -> gpu_metrics_v1_0 [] version = <<1, 1>> -> gpu_metrics_v1_1
    [] version = <<1, 2>> -> gpu_metrics_v1_2 [] version = <<1, 3>> -> gpu_metrics_v1_3
    [] version = <<2, 0>> -> gpu_metrics_v2_0 [] version = <<2, 1>> -> gpu_metrics_v2_1
    [] version = <<2, 2>> -> gpu_metrics_v2_2

(* ctypes (external) aligns every field to its width and the whole to the  *)
(* widest field.                                                           *)
Align(n, width) == ((n + width - 1) \div width) * width
EndOf(struct) == FoldLeft(LAMBDA at, r : Align(at, r.width) + r.width * r.count, 0, struct)
Widest(struct) == FoldLeft(LAMBDA w, r : IF r.width > w THEN r.width ELSE w, 1, struct)
SizeOf(struct) == Align(EndOf(struct), Widest(struct))

(* Bytes of a struct that belong to no field.                              *)
Hidden(struct) ==
  SizeOf(struct) - FoldLeft(LAMBDA n, r : n + r.width * r.count, 0, struct)

-----------------------------------------------------------------------------
VARIABLES
  samples,   \* of each GPU: what the list self.samples holds
  old,       \* what the list holds that the last average() took away
  lock,      \* who holds self._lock: Free, Sampler or Reporter
  sampler,   \* loop(): [pc, at, metrics, list]
  reporter,  \* threaded_main(): [pc, at]
  printed,   \* what was printed last: [means, samples]
  reads, lines

vars == <<samples, old, lock, sampler, reporter, printed, reads, lines>>

Free == "free"
Sampler == "sampler"
Reporter == "reporter"
NotPrinted == [means |-> <<>>, samples |-> 0]

Metrics == [version : FORMATS, values : [Fields -> 0..Ones]]

(* Mistake: the struct of any version is taken for a known one.            *)
AnyVersion(file) == file.size >= SizeOf(Header) /\ file.declared = file.size
(* parse_struct: the size must be the one the header names, the version    *)
(* known, and the data long enough for its struct.                         *)
Parses(file) ==
  /\ file.size >= SizeOf(Header) /\ file.declared = file.size
  /\ file.version \in FORMATS
  /\ SizeOf(Struct(file.version)) <= file.size

Init ==
  /\ samples = [g \in Gpus |-> <<>>] /\ old = [g \in Gpus |-> <<>>]
  /\ lock = [g \in Gpus |-> Free]
  /\ sampler = [pc |-> "read", at |-> 1, metrics |-> <<>>, list |-> "none"]
  /\ reporter = [pc |-> "wait", at |-> 1]
  /\ printed = [g \in Gpus |-> NotPrinted]
  /\ reads = 0 /\ lines = 0

-----------------------------------------------------------------------------
(* The sampling thread.                                                    *)

(* GPU.sample: the file is read and parsed.  No exception is caught: the   *)
(* first one ends the thread, and with it the samples of every GPU.        *)
Read(file, values) ==
  /\ sampler.pc = "read" /\ reads < MaxSamples
  /\ reads' = reads + 1
  /\ sampler' = IF Parses(file)
                THEN [sampler EXCEPT !.pc = "lock",
                        !.metrics = <<[version |-> file.version, values |-> values]>>]
                ELSE [sampler EXCEPT !.pc = "dead"]
  /\ UNCHANGED <<samples, old, lock, reporter, printed, lines>>

(* Mistake: nobody waits for the other.                                    *)
NoLock(g) == TRUE
CanLock(g) == lock[g] = Free

(* with self._lock: self.samples is looked up ...                          *)
SamplerLocks ==
  /\ sampler.pc = "lock" /\ CanLock(sampler.at)
  /\ lock' = [lock EXCEPT ![sampler.at] = Sampler]
  /\ sampler' = [sampler EXCEPT !.pc = "append", !.list = "samples"]
  /\ UNCHANGED <<samples, old, reporter, printed, reads, lines>>

(* ... and appended to.  Then it is the next GPU's turn.                   *)
SamplerAppends ==
  LET g == sampler.at IN
  /\ sampler.pc = "append"
  /\ samples' = IF sampler.list = "samples"
                THEN [samples EXCEPT ![g] = Append(@, sampler.metrics[1])] ELSE samples
  /\ old' = IF sampler.list = "old"
            THEN [old EXCEPT ![g] = Append(@, sampler.metrics[1])] ELSE old
  /\ lock' = [lock EXCEPT ![g] = Free]
  /\ sampler' = [pc |-> "read", at |-> IF g = NumGpus THEN 1 ELSE g + 1,
                 metrics |-> <<>>, list |-> "none"]
  /\ UNCHANGED <<reporter, printed, reads, lines>>

-----------------------------------------------------------------------------
(* The main thread.                                                        *)

(* A line from telegraf.                                                   *)
Line ==
  /\ reporter.pc = "wait" /\ lines < MaxLines
  /\ lines' = lines + 1
  /\ reporter' = [pc |-> "lock", at |-> 1]
  /\ UNCHANGED <<samples, old, lock, sampler, printed, reads>>

ReporterLocks ==
  /\ reporter.pc = "lock" /\ CanLock(reporter.at)
  /\ lock' = [lock EXCEPT ![reporter.at] = Reporter]
  /\ reporter' = [reporter EXCEPT !.pc = "swap"]
  /\ UNCHANGED <<samples, old, sampler, printed, reads, lines>>

(* average: the list is taken away and an empty one put in its place.  A   *)
(* sampler that had looked it up would go on with the one taken away.      *)
Swap ==
  LET g == reporter.at IN
  /\ reporter.pc = "swap"
  /\ old' = [old EXCEPT ![g] = samples[g]]
  /\ samples' = [samples EXCEPT ![g] = <<>>]
  /\ sampler' = IF sampler.pc = "append" /\ sampler.at = g
                THEN [sampler EXCEPT !.list = IF @ = "samples" THEN "old" ELSE "gone"]
                ELSE sampler
  /\ lock' = [lock EXCEPT ![g] = Free]
  /\ reporter' = [reporter EXCEPT !.pc = "print"]
  /\ UNCHANGED <<printed, reads, lines>>

(* Mistake: every value counts.                                            *)
AnyValue(v) == TRUE
(* A value with all bits set is none.                                      *)
Valid(v) == v # Ones

(* The values of a field, by the samples that have one, and their mean as  *)
(* a fraction.                                                             *)
ValuesOf(list, field) ==
  [i \in {j \in DOMAIN list : Valid(list[j].values[field])} |-> list[i].values[field]]
Mean(values) == [sum |-> SumFunction(values), over |-> Cardinality(DOMAIN values)]

Average(list) ==
  [field \in {f \in Fields : DOMAIN ValuesOf(list, f) # {}} |-> Mean(ValuesOf(list, field))]

(* The means are printed, and the number of samples; nothing without a     *)
(* mean.                                                                   *)
PrintMeans ==
  LET g == reporter.at
      means == Average(old[g])
  IN
  /\ reporter.pc = "print"
  /\ printed' = [printed EXCEPT ![g] =
       IF DOMAIN means = {} THEN @ ELSE [means |-> means, samples |-> Len(old[g])]]
  /\ reporter' = IF g = NumGpus THEN [reporter EXCEPT !.pc = "wait"]
                 ELSE [pc |-> "lock", at |-> g + 1]
  /\ UNCHANGED <<samples, old, lock, sampler, reads, lines>>

Next ==
  \/ \E file \in Files, values \in [Fields -> 0..Ones] : Read(file, values)
  \/ SamplerLocks \/ SamplerAppends
  \/ Line \/ ReporterLocks \/ Swap \/ PrintMeans

Spec == Init /\ [][Next]_vars

-----------------------------------------------------------------------------
(* Properties.                                                             *)

TypeOK ==
  /\ samples \in [Gpus -> Seq(Metrics)] /\ old \in [Gpus -> Seq(Metrics)]
  /\ lock \in [Gpus -> {Free, Sampler, Reporter}]
  /\ sampler \in [pc : {"read", "lock", "append", "dead"}, at : Gpus,
                  metrics : Seq(Metrics), list : {"none", "samples", "old", "gone"}]
  /\ Len(sampler.metrics) = IF sampler.pc \in {"lock", "append"} THEN 1 ELSE 0
  /\ reporter \in [pc : {"wait", "lock", "swap", "print"}, at : Gpus]
  /\ reads \in 0..MaxSamples /\ lines \in 0..MaxLines

(* However the two threads interleave, the swapped lists work as a buffer: *)
(* no sample is lost between two reports or counted in both.               *)
Buffer == INSTANCE SampleBuffer WITH Samples <- Metrics, pending <- samples, taken <- old
BufferImplemented == Buffer!Spec

(* A mean that is printed lies within the values the GPU reported, and is  *)
(* over as many of them as there are: a field the GPU does not have neither*)
(* shows up nor pulls a mean towards all ones.                             *)
MeansWithinReports ==
  \A g \in Gpus :
    \A f \in DOMAIN printed[g].means :
      LET mean == printed[g].means[f] IN
      /\ mean.over \in 1..printed[g].samples
      /\ mean.sum <= (Ones - 1) * mean.over

(* Versions from 1.1 on (and 2.1 on) are naturally aligned (comments on 1.0*)
(* and 2.0 in amdgpu.py and in the kernel's header): what the kernel writes*)
(* has a field of its own, padding included, so a sample leaves no byte of *)
(* the file unread.                                                        *)
NaturallyAligned ==
  \A g \in Gpus : \A i \in DOMAIN samples[g] :
    samples[g][i].version \in {<<1, 0>>, <<2, 0>>}
      \/ Hidden(Struct(samples[g][i].version)) = 0
=============================================================================
