-------------------------- MODULE CollectorsProofs --------------------------
(***************************************************************************)
(* The two threads of amdgpu.py, for any number of GPUs, fields, samples   *)
(* and lines: the lists swapped under a lock implement SampleBuffer, and   *)
(* the means lie within the reports.  Then mikrotik_metrics.py, for any    *)
(* tables, items, changes and lines: which changes end the program;        *)
(* mikrotik_swos_metrics.py, for any settings of a switch: the lines tell  *)
(* them; and extract.py, for any installer: the resources are extracted    *)
(* whole and in order, though a later one of the same name replaces one.   *)
(***************************************************************************)
EXTENDS AmdGpu, MikrotikMetrics, SwosMetrics, QtExtract, SumTheorems, TLAPS

-----------------------------------------------------------------------------
(* AmdGpu.                                                                 *)

(* Who is at the list of a GPU holds its lock, and a sampler about to      *)
(* append has the list that the next average() will take.                  *)
Locked ==
  /\ sampler.pc = "append" => lock[sampler.at] = Sampler /\ sampler.list = "samples"
  /\ reporter.pc = "swap" => lock[reporter.at] = Reporter

IInv == TypeOK /\ Locked

LEMMA Constants == NumGpus \in Nat \ {0} /\ MaxSamples \in Nat /\ MaxLines \in Nat
                   /\ 1 \in Gpus /\ Sampler # Reporter /\ Sampler # Free /\ Reporter # Free
BY AmdGpuAssumption DEF Gpus, Sampler, Reporter, Free

-----------------------------------------------------------------------------
LEMMA InitTypeOK == Init => TypeOK
<1>1. SUFFICES ASSUME Init PROVE TypeOK
  OBVIOUS
<1>2. samples \in [Gpus -> Seq(Metrics)] /\ old \in [Gpus -> Seq(Metrics)]
  BY <1>1 DEF Init
<1>3. lock \in [Gpus -> {Free, Sampler, Reporter}]
  BY <1>1 DEF Init
<1>4. /\ sampler \in [pc : {"read", "lock", "append", "dead"}, at : Gpus,
                      metrics : Seq(Metrics), list : {"none", "samples", "old", "gone"}]
      /\ Len(sampler.metrics) = IF sampler.pc \in {"lock", "append"} THEN 1 ELSE 0
  BY <1>1, Constants DEF Init
<1>5. /\ reporter \in [pc : {"wait", "lock", "swap", "print"}, at : Gpus]
      /\ reads \in 0..MaxSamples /\ lines \in 0..MaxLines
  BY <1>1, Constants DEF Init
<1>6. QED
  BY <1>2, <1>3, <1>4, <1>5 DEF TypeOK

(* What the sampler read has the form of a sample.                         *)
LEMMA ReadTypeOK ==
  ASSUME TypeOK, NEW file \in Files, NEW values \in [Fields -> 0..Ones], Read(file, values)
  PROVE  TypeOK'
<1> DEFINE metrics == [version |-> file.version, values |-> values]
<1>1. reads' \in 0..MaxSamples
  BY Constants DEF TypeOK, Read
<1>2. Len(sampler.metrics) = 0 /\ sampler.pc = "read"
  BY DEF TypeOK, Read
<1>3. CASE Parses(file)
  <2>1. metrics \in Metrics
    BY <1>3 DEF Parses, Metrics
  <2>2. <<metrics>> \in Seq(Metrics) /\ Len(<<metrics>>) = 1
    BY <2>1
  <2>3. sampler' = [sampler EXCEPT !.pc = "lock", !.metrics = <<metrics>>]
    BY <1>3 DEF Read
  <2>4. sampler'.pc = "lock" /\ sampler'.metrics = <<metrics>>
        /\ sampler'.at = sampler.at /\ sampler'.list = sampler.list
    BY <2>3 DEF TypeOK
  <2>5. sampler' \in [pc : {"read", "lock", "append", "dead"}, at : Gpus,
                      metrics : Seq(Metrics), list : {"none", "samples", "old", "gone"}]
    BY <2>2, <2>3 DEF TypeOK
  <2>6. QED
    BY <1>1, <2>2, <2>4, <2>5 DEF TypeOK, Read
<1>4. CASE ~Parses(file)
  <2>1. sampler' = [sampler EXCEPT !.pc = "dead"]
    BY <1>4 DEF Read
  <2>2. sampler' \in [pc : {"read", "lock", "append", "dead"}, at : Gpus,
                      metrics : Seq(Metrics), list : {"none", "samples", "old", "gone"}]
        /\ sampler'.metrics = sampler.metrics /\ sampler'.pc = "dead"
    BY <2>1 DEF TypeOK
  <2>3. QED
    BY <1>1, <1>2, <2>2 DEF TypeOK, Read
<1>5. QED
  BY <1>3, <1>4

LEMMA AppendTypeOK == ASSUME TypeOK, SamplerAppends PROVE TypeOK'
<1> DEFINE g == sampler.at
<1>1. g \in Gpus /\ sampler.metrics[1] \in Metrics
  BY DEF TypeOK, SamplerAppends
<1>2. samples' \in [Gpus -> Seq(Metrics)] /\ old' \in [Gpus -> Seq(Metrics)]
  BY <1>1 DEF TypeOK, SamplerAppends
<1>3. lock' \in [Gpus -> {Free, Sampler, Reporter}]
  BY <1>1 DEF TypeOK, SamplerAppends
<1>4. /\ sampler' \in [pc : {"read", "lock", "append", "dead"}, at : Gpus,
                       metrics : Seq(Metrics), list : {"none", "samples", "old", "gone"}]
      /\ Len(sampler'.metrics) = IF sampler'.pc \in {"lock", "append"} THEN 1 ELSE 0
  <2>1. (IF g = NumGpus THEN 1 ELSE g + 1) \in Gpus
    BY <1>1, Constants DEF Gpus
  <2>2. <<>> \in Seq(Metrics) /\ Len(<<>>) = 0
    OBVIOUS
  <2>3. sampler' = [pc |-> "read", at |-> IF g = NumGpus THEN 1 ELSE g + 1,
                    metrics |-> <<>>, list |-> "none"]
    BY DEF SamplerAppends
  <2>4. QED
    BY <2>1, <2>2, <2>3
<1>5. QED
  BY <1>2, <1>3, <1>4 DEF TypeOK, SamplerAppends

LEMMA SwapTypeOK == ASSUME TypeOK, Swap PROVE TypeOK'
<1> DEFINE g == reporter.at
<1>1. g \in Gpus
  BY DEF TypeOK
<1>2. samples' \in [Gpus -> Seq(Metrics)] /\ old' \in [Gpus -> Seq(Metrics)]
  BY <1>1 DEF TypeOK, Swap
<1>3. lock' \in [Gpus -> {Free, Sampler, Reporter}]
  BY <1>1 DEF TypeOK, Swap
<1>4. /\ sampler' \in [pc : {"read", "lock", "append", "dead"}, at : Gpus,
                       metrics : Seq(Metrics), list : {"none", "samples", "old", "gone"}]
      /\ Len(sampler'.metrics) = IF sampler'.pc \in {"lock", "append"} THEN 1 ELSE 0
  BY DEF TypeOK, Swap
<1>5. reporter' \in [pc : {"wait", "lock", "swap", "print"}, at : Gpus]
  BY DEF TypeOK, Swap
<1>6. QED
  BY <1>2, <1>3, <1>4, <1>5 DEF TypeOK, Swap

LEMMA NextTypeOK == TypeOK /\ [Next]_vars => TypeOK'
<1>1. SUFFICES ASSUME TypeOK, [Next]_vars PROVE TypeOK'
  OBVIOUS
<1>2. ASSUME NEW file \in Files, NEW values \in [Fields -> 0..Ones], Read(file, values)
      PROVE  TypeOK'
  BY <1>1, <1>2, ReadTypeOK
<1>3. CASE SamplerLocks
  BY <1>1, <1>3 DEF TypeOK, SamplerLocks
<1>4. CASE SamplerAppends
  BY <1>1, <1>4, AppendTypeOK
<1>5. CASE Line
  BY <1>1, <1>5, Constants DEF TypeOK, Line
<1>6. CASE ReporterLocks
  BY <1>1, <1>6 DEF TypeOK, ReporterLocks
<1>7. CASE Swap
  BY <1>1, <1>7, SwapTypeOK
<1>8. CASE PrintMeans
  <2>1. reporter.at \in Gpus
    BY <1>1 DEF TypeOK
  <2>2. reporter.at # NumGpus => reporter.at + 1 \in Gpus
    BY <2>1, Constants DEF Gpus
  <2>3. reporter' \in [pc : {"wait", "lock", "swap", "print"}, at : Gpus]
    BY <1>1, <1>8, <2>1, <2>2 DEF TypeOK, PrintMeans
  <2>4. QED
    BY <1>1, <1>8, <2>3 DEF TypeOK, PrintMeans
<1>9. CASE UNCHANGED vars
  BY <1>1, <1>9 DEF TypeOK, vars
<1>10. QED
  BY <1>1, <1>2, <1>3, <1>4, <1>5, <1>6, <1>7, <1>8, <1>9 DEF Next

-----------------------------------------------------------------------------
(* Nobody enters while the other holds the lock, and everybody leaves with *)
(* the lock that was taken.                                                *)
LEMMA NextLocked == IInv /\ [Next]_vars => Locked'
<1>1. SUFFICES ASSUME TypeOK, Locked, [Next]_vars PROVE Locked'
  BY DEF IInv
<1>2. ASSUME NEW file \in Files, NEW values \in [Fields -> 0..Ones], Read(file, values)
      PROVE  Locked'
  BY <1>1, <1>2 DEF TypeOK, Locked, Read
<1>3. CASE SamplerLocks
  BY <1>1, <1>3, Constants DEF TypeOK, Locked, SamplerLocks, CanLock
<1>4. CASE SamplerAppends
  BY <1>1, <1>4, Constants DEF TypeOK, Locked, SamplerAppends
<1>5. CASE Line
  BY <1>1, <1>5 DEF TypeOK, Locked, Line
<1>6. CASE ReporterLocks
  BY <1>1, <1>6, Constants DEF TypeOK, Locked, ReporterLocks, CanLock
<1>7. CASE Swap
  BY <1>1, <1>7, Constants DEF TypeOK, Locked, Swap
<1>8. CASE PrintMeans
  BY <1>1, <1>8 DEF TypeOK, Locked, PrintMeans
<1>9. CASE UNCHANGED vars
  BY <1>1, <1>9 DEF Locked, vars
<1>10. QED
  BY <1>1, <1>2, <1>3, <1>4, <1>5, <1>6, <1>7, <1>8, <1>9 DEF Next

LEMMA Invariant == Spec => []IInv
<1>1. Init => IInv
  BY InitTypeOK DEF Init, IInv, Locked
<1>2. IInv /\ [Next]_vars => IInv'
  BY NextTypeOK, NextLocked DEF IInv
<1>3. QED
  BY <1>1, <1>2, PTL DEF Spec

(* The variables stay in their ranges.                                     *)
THEOREM TypeCorrect == Spec => []TypeOK
BY Invariant, PTL DEF IInv

-----------------------------------------------------------------------------
(* An append of the sampler is an Add, a swap is a Take, and nothing else  *)
(* touches the lists.                                                      *)
LEMMA StepImplements == IInv /\ [Next]_vars => [Buffer!Next]_<<samples, old>>
<1>1. SUFFICES ASSUME TypeOK, Locked, [Next]_vars PROVE [Buffer!Next]_<<samples, old>>
  BY DEF IInv
<1>2. ASSUME NEW file \in Files, NEW values \in [Fields -> 0..Ones], Read(file, values)
      PROVE  UNCHANGED <<samples, old>>
  BY <1>2 DEF Read
<1>3. CASE SamplerAppends
  <2> DEFINE g == sampler.at
             sample == sampler.metrics[1]
  <2>1. g \in Gpus /\ sample \in Metrics
    BY <1>1, <1>3 DEF TypeOK, SamplerAppends
  <2>2. samples' = [samples EXCEPT ![g] = Append(@, sample)] /\ UNCHANGED old
    BY <1>1, <1>3 DEF Locked, SamplerAppends
  <2>3. Buffer!Add(g)
    BY <2>1, <2>2 DEF Buffer!Add
  <2>4. QED
    BY <2>1, <2>3 DEF Buffer!Next
<1>4. CASE Swap
  <2>1. reporter.at \in Gpus /\ Buffer!Take(reporter.at)
    BY <1>1, <1>4 DEF TypeOK, Swap, Buffer!Take
  <2>2. QED
    BY <2>1 DEF Buffer!Next
<1>5. CASE SamplerLocks \/ Line \/ ReporterLocks \/ PrintMeans \/ UNCHANGED vars
  BY <1>5 DEF SamplerLocks, Line, ReporterLocks, PrintMeans, vars
<1>6. QED
  BY <1>1, <1>2, <1>3, <1>4, <1>5 DEF Next

(* However the threads interleave, every sample is taken by exactly one    *)
(* report, in order.                                                       *)
THEOREM BufferAlways == Spec => BufferImplemented
<1>1. Init => Buffer!Init
  BY DEF Init, Buffer!Init
<1>2. QED
  BY <1>1, Invariant, StepImplements, PTL DEF Spec, BufferImplemented, Buffer!Spec

-----------------------------------------------------------------------------
(* A mean is over some of the samples, and of values below all ones.       *)
LEMMA MeanWithin ==
  ASSUME NEW list \in Seq(Metrics), NEW field \in Fields,
         DOMAIN ValuesOf(list, field) # {}
  PROVE  LET mean == Mean(ValuesOf(list, field)) IN
         /\ mean.over \in 1..Len(list)
         /\ mean.sum <= (Ones - 1) * mean.over
<1> DEFINE values == ValuesOf(list, field)
           with == DOMAIN values
<1>1. with = {j \in DOMAIN list : Valid(list[j].values[field])}
  BY DEF ValuesOf
<1>2. ASSUME NEW i \in with PROVE values[i] \in Int /\ values[i] <= Ones - 1
  <2>1. /\ list[i] \in Metrics /\ Valid(list[i].values[field])
        /\ list[i].values \in [Fields -> 0..Ones]
    <3>1. i \in DOMAIN list /\ Valid(list[i].values[field])
      BY <1>1, <1>2
    <3>2. list[i] \in Metrics
      BY <3>1
    <3>3. QED
      BY <3>1, <3>2 DEF Metrics
  <2>2. values[i] = list[i].values[field]
    BY <1>2 DEF ValuesOf
  <2>3. values[i] \in 0..Ones /\ values[i] # Ones
    BY <2>1, <2>2 DEF Valid
  <2> HIDE DEF values, with
  <2>4. QED
    BY <2>3, AmdGpuAssumption
<1>3. with \subseteq 1..Len(list)
  BY <1>1
<1> HIDE DEF values, with
<1>4. IsFiniteSet(1..Len(list)) /\ Cardinality(1..Len(list)) = Len(list)
  <2>1. Len(list) \in Nat
    OBVIOUS
  <2>2. 1 \in Int /\ Len(list) \in Int
    BY <2>1
  <2>3. /\ IsFiniteSet(1..Len(list))
        /\ Cardinality(1..Len(list)) = IF 1 > Len(list) THEN 0 ELSE Len(list) - 1 + 1
    BY <2>2, FS_Interval
  <2>4. QED
    BY <2>1, <2>3
<1>5. IsFiniteSet(with) /\ Cardinality(with) \in Nat /\ Cardinality(with) <= Len(list)
  <2>1. IsFiniteSet(with) /\ Cardinality(with) <= Cardinality(1..Len(list))
    BY <1>3, <1>4, FS_Subset
  <2>2. QED
    BY <1>4, <2>1, FS_CardinalityType
<1>6. Cardinality(with) # 0
  BY <1>5, FS_EmptySet DEF with, values
<1>7. SumFunctionOnSet(values, with) <= (Ones - 1) * Cardinality(with)
  <2>1. Ones - 1 \in Nat
    BY AmdGpuAssumption
  <2>2. QED
    BY <1>2, <1>5, <2>1, SumAtMost
<1>8. /\ Mean(values).over = Cardinality(with)
      /\ Mean(values).sum = SumFunctionOnSet(values, with)
  BY DEF Mean, SumFunction, with
<1>9. Cardinality(with) \in 1..Len(list)
  BY <1>5, <1>6
<1>10. QED
  BY <1>7, <1>8, <1>9 DEF values

(* What was printed last are means of such a list.                         *)
LEMMA NextMeans == IInv /\ MeansWithinReports /\ [Next]_vars => MeansWithinReports'
<1>1. SUFFICES ASSUME TypeOK, MeansWithinReports, [Next]_vars PROVE MeansWithinReports'
  BY DEF IInv
<1>2. CASE PrintMeans
  <2> DEFINE at == reporter.at
             means == Average(old[at])
  <2>1. at \in Gpus /\ old[at] \in Seq(Metrics)
    BY <1>1 DEF TypeOK
  <2>2. SUFFICES ASSUME NEW g \in Gpus, NEW f \in DOMAIN printed'[g].means
                 PROVE  LET mean == printed'[g].means[f] IN
                        /\ mean.over \in 1..printed'[g].samples
                        /\ mean.sum <= (Ones - 1) * mean.over
    BY DEF MeansWithinReports
  <2>3. CASE printed'[g] = printed[g]
    BY <1>1, <2>2, <2>3 DEF MeansWithinReports
  <2>4. CASE printed'[g] = [means |-> means, samples |-> Len(old[at])]
    <3>1. /\ f \in Fields /\ DOMAIN ValuesOf(old[at], f) # {}
          /\ printed'[g].means[f] = Mean(ValuesOf(old[at], f))
          /\ printed'[g].samples = Len(old[at])
      BY <2>2, <2>4 DEF Average
    <3>2. QED
      BY <2>1, <3>1, MeanWithin
  <2>5. \/ printed'[g] = printed[g]
        \/ printed'[g] = [means |-> means, samples |-> Len(old[at])]
    BY <1>2 DEF PrintMeans
  <2>6. QED
    BY <2>3, <2>4, <2>5
<1>3. CASE UNCHANGED printed
  BY <1>1, <1>3 DEF MeansWithinReports
<1>4. QED
  BY <1>1, <1>2, <1>3
     DEF Next, Read, SamplerLocks, SamplerAppends, Line, ReporterLocks, Swap, vars

(* Whatever the GPUs report and however the threads interleave, a mean lies*)
(* within the values it is over.                                           *)
THEOREM MeansAlways == Spec => []MeansWithinReports
<1>1. Init => MeansWithinReports
  BY DEF Init, MeansWithinReports, NotPrinted
<1>2. QED
  BY <1>1, Invariant, NextMeans, PTL DEF Spec

-----------------------------------------------------------------------------
(* MikrotikMetrics.                                                        *)

(* Of some numbers up to n one is the last.                                *)
LEMMA LastExists ==
  ASSUME NEW n \in Nat, NEW S \in SUBSET (1..n), S # {}
  PROVE  \E k \in S : \A j \in S : j <= k
<1> DEFINE N == {m \in Nat : \A T \in SUBSET (1..m) : T # {} => \E k \in T : \A j \in T : j <= k}
<1>1. 0 \in N
  <2>1. 1..0 = {}
    OBVIOUS
  <2>2. QED
    BY <2>1
<1>2. ASSUME NEW m \in N PROVE m + 1 \in N
  <2>1. SUFFICES ASSUME NEW T \in SUBSET (1..(m + 1)), T # {}
                 PROVE  \E k \in T : \A j \in T : j <= k
    OBVIOUS
  <2>2. CASE m + 1 \in T
    <3>1. \A j \in T : j <= m + 1
      OBVIOUS
    <3>2. QED
      BY <2>2, <3>1
  <2>3. CASE m + 1 \notin T
    <3>1. T \in SUBSET (1..m)
      BY <2>3
    <3>2. QED
      BY <2>1, <3>1
  <2>4. QED
    BY <2>2, <2>3
<1>3. N = Nat
  <2>1. N \in SUBSET Nat
    OBVIOUS
  <2> HIDE DEF N
  <2>2. QED
    BY <1>1, <1>2, <2>1, NatInd
<1>4. n \in N
  BY <1>3
<1>5. QED
  BY <1>4

(* What the items of the scenario may be asked, and what the answers are.  *)
Shown == {item.shown : item \in scenario.items}
Told == {item.monitored : item \in scenario.items}

(* A property gets one of the parsers it may get.                          *)
ByOne(by, named, entries) ==
  \A p \in DOMAIN by : by[p] \in ParsersFor(named, p, FormsOf(p, entries))

LEMMA DetectsOne ==
  ASSUME NEW named, NEW tags, NEW all, NEW entry \in all
  PROVE  ByOne(Detect(named, tags, entry), named, all)
<1> SUFFICES ASSUME NEW p \in DOMAIN Detect(named, tags, entry)
             PROVE  Detect(named, tags, entry)[p] \in ParsersFor(named, p, FormsOf(p, all))
  BY DEF ByOne
<1>1. p \in Detectable(named, tags, entry) /\ p \in DOMAIN entry
  BY DEF Detect, Detectable
<1>2. CASE Explicit(named, p)
  <2>1. named[p] # "skip" /\ Detect(named, tags, entry)[p] = named[p]
    BY <1>1, <1>2 DEF Detectable, Detect
  <2>2. QED
    BY <1>2, <2>1 DEF ParsersFor
<1>3. CASE ~Explicit(named, p)
  <2> DEFINE form == entry[p]
  <2>1. Accepting(p, form) # {}
        /\ Detect(named, tags, entry)[p] = PARSERS[First(Accepting(p, form))]
    BY <1>1, <1>3 DEF Detectable, Detect
  <2>2. form \in FormsOf(p, all)
    BY <1>1 DEF FormsOf
  <2> HIDE DEF form
  <2>3. QED
    BY <1>3, <2>1, <2>2 DEF ParsersFor
<1>4. QED
  BY <1>2, <1>3

LEMMA DetectsAll ==
  ASSUME NEW named, NEW tags, NEW all, NEW n \in Nat, NEW entries,
         DOMAIN entries = 1..n, \A k \in 1..n : entries[k] \in all
  PROVE  ByOne(DetectAll(named, tags, entries), named, all)
<1> DEFINE found == [k \in DOMAIN entries |-> Detect(named, tags, entries[k])]
<1> DEFINE With(p) == {k \in DOMAIN entries : p \in DOMAIN found[k]}
<1> DEFINE L(p) == CHOOSE k \in With(p) : \A j \in With(p) : j <= k
<1> DEFINE result == DetectAll(named, tags, entries)
<1>1. result = [p \in UNION {DOMAIN found[k] : k \in DOMAIN entries} |-> found[L(p)][p]]
  BY DEF DetectAll
<1>2. \A k \in 1..n : found[k] = Detect(named, tags, entries[k])
  OBVIOUS
<1> HIDE DEF result, found
<1>3. ASSUME NEW p \in DOMAIN result
      PROVE  L(p) \in 1..n /\ p \in DOMAIN found[L(p)] /\ result[p] = found[L(p)][p]
  <2>1. With(p) \in SUBSET (1..n) /\ With(p) # {}
    BY <1>1, <1>3
  <2>2. \E k \in With(p) : \A j \in With(p) : j <= k
    <3> HIDE DEF With
    <3>1. QED
      BY <2>1, LastExists
  <2>3. L(p) \in With(p)
    <3> HIDE DEF With
    <3>1. QED
      BY <2>2
  <2>4. result[p] = found[L(p)][p]
    <3> HIDE DEF L
    <3>1. QED
      BY <1>1, <1>3
  <2> HIDE DEF L
  <2>5. QED
    BY <2>1, <2>3, <2>4
<1> HIDE DEF L
<1>4. ASSUME NEW p \in DOMAIN result
      PROVE  result[p] \in ParsersFor(named, p, FormsOf(p, all))
  <2> DEFINE k == L(p)
  <2>1. k \in 1..n /\ p \in DOMAIN found[k] /\ result[p] = found[k][p]
    BY <1>3, <1>4
  <2> HIDE DEF k
  <2>2. ByOne(found[k], named, all)
    BY <1>2, <2>1, DetectsOne
  <2>3. QED
    BY <2>1, <2>2 DEF ByOne
<1>5. QED
  BY <1>4 DEF ByOne, result

(* A field of an entry comes of a use that a property may be put to.       *)
LEMMA FieldsAreGiven ==
  ASSUME NEW by, NEW named, NEW all, ByOne(by, named, all), NEW entry \in all,
         NEW f \in FieldsOf(by, entry)
  PROVE  \E u \in Uses(named, all) :
           u.prop \in DOMAIN by /\ u.parser = by[u.prop] /\ f \in Given(u)
<1>1. PICK p \in DOMAIN by \cap DOMAIN entry : f \in Parse(by[p], p, entry[p]) \ Refused
  BY DEF FieldsOf, Settled
<1> DEFINE u == [prop |-> p, parser |-> by[p], form |-> entry[p]]
<1>2. by[p] \in ParsersFor(named, p, FormsOf(p, all))
  BY <1>1 DEF ByOne
<1>3. entry[p] \in FormsOf(p, all)
  BY <1>1 DEF FormsOf
<1>4. p \in UNION {DOMAIN e : e \in all}
  BY <1>1
<1>5. u \in [prop : {p}, parser : ParsersFor(named, p, FormsOf(p, all)), form : FormsOf(p, all)]
  BY <1>2, <1>3
<1>6. u \in Uses(named, all)
  <2> HIDE DEF u
  <2>1. QED
    BY <1>4, <1>5 DEF Uses
<1>7. u.prop = p /\ u.parser = by[p] /\ u.form = entry[p]
  OBVIOUS
<1>8. f \in Given(u)
  <2> HIDE DEF u
  <2>1. QED
    BY <1>1, <1>7 DEF Given
<1> HIDE DEF u
<1>9. QED
  BY <1>1, <1>6, <1>7, <1>8

(* Where a field comes from: a default, or one of the two requests.        *)
OfRequest(f, by, named, entries) ==
  \E u \in Uses(named, entries) :
    u.prop \in DOMAIN by /\ u.parser = by[u.prop] /\ f \in Given(u)
From(f) ==
  \/ f[1] \in resource.defaults /\ f[2] = "bool"
  \/ OfRequest(f, parsers, resource.types, Shown)
  \/ monitor # NotPrepared /\ OfRequest(f, monitor, resource.monitor, Told)

ItemOfScenario == [id : Ids \cup 1..2, shown : Shown, monitored : Told]

(* Parsers are chosen before anything is printed.                          *)
TInv ==
  /\ scenario \in Scenarios /\ items \in Seq(ItemOfScenario)
  /\ ByOne(parsers, resource.types, Shown)
  /\ monitor # NotPrepared => ByOne(monitor, resource.monitor, Told)
  /\ phase \in {"start", "prepare monitor"} =>
       types = {} /\ \A i \in DOMAIN points : points[i] = {}
  /\ phase = "start" => monitor = NotPrepared
  /\ phase = "prepare monitor" => IsFiniteSet(DOMAIN points)
  /\ \A f \in types : From(f)
  /\ \A i \in DOMAIN points : \A f \in points[i] : From(f)

LEMMA OneType == ASSUME TInv PROVE TypesKept
<1> SUFFICES ASSUME ~Clash, NEW f \in types, NEW g \in types, f[1] = g[1] PROVE f[2] = g[2]
  BY DEF TypesKept
<1> DEFINE uses == Uses(resource.types, Shown) \cup Uses(resource.monitor, Told)
<1>1. /\ \A u, v \in uses : (u.prop = v.prop => u.parser = v.parser) =>
           \A d \in Given(u), e \in Given(v) : d[1] = e[1] => d[2] = e[2]
      /\ \A u \in uses : \A d \in Given(u) : d[1] \in resource.defaults => d[2] = "bool"
  BY NamesAssumption DEF TInv, resource, Shown, Told
<1> DEFINE Put(d, u) ==
      /\ u \in uses /\ d \in Given(u)
      /\ \/ u.prop \in DOMAIN parsers /\ u.parser = parsers[u.prop]
         \/ u.prop \in DOMAIN monitor /\ u.parser = monitor[u.prop]
<1>2. ASSUME NEW d, From(d), ~(d[1] \in resource.defaults /\ d[2] = "bool")
      PROVE  \E u : Put(d, u)
  <2>1. CASE OfRequest(d, parsers, resource.types, Shown)
    BY <2>1 DEF OfRequest
  <2>2. CASE OfRequest(d, monitor, resource.monitor, Told)
    BY <2>2 DEF OfRequest
  <2>3. QED
    BY <1>2, <2>1, <2>2 DEF From
<1>3. From(f) /\ From(g)
  BY DEF TInv
<1>4. ASSUME NEW u, NEW v, Put(f, u), Put(g, v) PROVE f[2] = g[2]
  <2>1. u.prop = v.prop => u.parser = v.parser
    BY <1>4 DEF Clash
  <2> HIDE DEF uses
  <2>2. QED
    BY <1>1, <1>4, <2>1
<1>5. ASSUME NEW u, NEW d, Put(d, u), d[1] \in resource.defaults PROVE d[2] = "bool"
  BY <1>1, <1>5
<1> HIDE DEF uses, Put
<1>6. QED
  BY <1>2, <1>3, <1>4, <1>5

LEMMA RouterInitTInv == RouterInit => TInv
<1> SUFFICES ASSUME RouterInit PROVE TInv
  OBVIOUS
<1>1. PICK n \in 0..2 : \E of \in [1..n -> scenario.items] :
        items = [k \in 1..n |-> WithId(of[k], k)]
  BY DEF RouterInit
<1>2. PICK of \in [1..n -> scenario.items] : items = [k \in 1..n |-> WithId(of[k], k)]
  BY <1>1
<1>3. \A k \in 1..n : WithId(of[k], k) \in ItemOfScenario
  BY DEF WithId, ItemOfScenario, Shown, Told
<1>4. items \in Seq(ItemOfScenario)
  BY <1>2, <1>3
<1>5. DOMAIN parsers = {} /\ DOMAIN points = {} /\ types = {} /\ monitor = NotPrepared
  BY DEF RouterInit, Empty
<1>6. ByOne(parsers, resource.types, Shown)
  BY <1>5 DEF ByOne
<1>7. QED
  BY <1>4, <1>5, <1>6 DEF RouterInit, TInv

(* The items that are listed are of the scenario.                          *)
LEMMA ListedAre ==
  ASSUME TInv
  PROVE  /\ Len(items) \in Nat /\ DOMAIN items = 1..Len(items) /\ DOMAIN Listed = 1..Len(items)
         /\ \A k \in 1..Len(items) : Listed[k] \in Shown
         /\ \A i \in IdsOf(items) : Item(i).shown \in Shown /\ Item(i).monitored \in Told
         /\ IsFiniteSet(IdsOf(items))
<1>0. items \in Seq(ItemOfScenario)
  BY DEF TInv
<1>1. Len(items) \in Nat /\ DOMAIN items = 1..Len(items)
      /\ \A k \in 1..Len(items) : items[k] \in ItemOfScenario
  BY <1>0
<1>2. DOMAIN Listed = 1..Len(items) /\ \A k \in 1..Len(items) : Listed[k] \in Shown
  BY <1>1 DEF Listed, ItemOfScenario
<1>3. ASSUME NEW i \in IdsOf(items) PROVE Item(i).shown \in Shown /\ Item(i).monitored \in Told
  <2> DEFINE all == {items[k] : k \in DOMAIN items}
  <2>1. \E item \in all : item.id = i
    BY <1>3 DEF IdsOf
  <2>2. Item(i) = CHOOSE item \in all : item.id = i
    BY DEF Item
  <2>3. \A item \in all : item \in ItemOfScenario
    BY <1>1
  <2> HIDE DEF all
  <2>4. Item(i) \in ItemOfScenario
    BY <2>1, <2>2, <2>3
  <2>5. QED
    BY <2>4 DEF ItemOfScenario
<1>4. IsFiniteSet(IdsOf(items))
  <2> DEFINE ids == [k \in 1..Len(items) |-> items[k].id]
  <2>1. IsFiniteSet(1..Len(items))
    <3>1. 1 \in Int /\ Len(items) \in Int
      BY <1>1
    <3>2. QED
      BY <3>1, FS_Interval
  <2>2. ids \in Surjection(1..Len(items), IdsOf(items))
    BY <1>1 DEF Surjection, IdsOf
  <2> HIDE DEF ids
  <2>3. QED
    BY <2>1, <2>2, FS_Surjection
<1>5. QED
  BY <1>1, <1>2, <1>3, <1>4

(* The parsers a resource starts with.                                     *)
LEMMA StartsByOne ==
  ASSUME TInv, Prepare PROVE ByOne(parsers', resource.types, Shown)
<1>1. CASE parsers' = parsers
  BY <1>1 DEF TInv
<1>2. CASE resource.firewall /\ parsers' = resource.types
  <2>1. \A p \in DOMAIN resource.types : resource.types[p] # "skip"
    BY <1>2, ScenariosAssumption DEF TInv, resource
  <2>2. QED
    BY <1>2, <2>1 DEF ByOne, ParsersFor, Explicit
<1> DEFINE found == DetectAll(resource.types, resource.tags, Listed)
<1> DEFINE named == NotSkipped(resource.types)
<1>3. CASE parsers' = [p \in (DOMAIN found \cup DOMAIN named) \ resource.tags |->
                         IF p \in DOMAIN found THEN found[p] ELSE named[p]]
  <2>1. ByOne(found, resource.types, Shown)
    <3>1. /\ Len(items) \in Nat /\ DOMAIN Listed = 1..Len(items)
          /\ \A k \in 1..Len(items) : Listed[k] \in Shown
      BY ListedAre
    <3> HIDE DEF found
    <3>2. QED
      BY <3>1, DetectsAll DEF found
  <2>2. \A p \in DOMAIN named : p \in DOMAIN resource.types /\ named[p] = resource.types[p]
                                /\ named[p] # "skip"
    BY DEF NotSkipped, Without
  <2> HIDE DEF found, named
  <2>3. ASSUME NEW p \in DOMAIN parsers'
        PROVE  parsers'[p] \in ParsersFor(resource.types, p, FormsOf(p, Shown))
    <3>1. CASE p \in DOMAIN found
      BY <1>3, <2>1, <2>3, <3>1 DEF ByOne
    <3>2. CASE p \notin DOMAIN found
      <4>1. p \in DOMAIN named /\ parsers'[p] = named[p]
        BY <1>3, <2>3, <3>2
      <4>2. QED
        BY <2>2, <4>1 DEF ParsersFor, Explicit
    <3>3. QED
      BY <3>1, <3>2
  <2>4. QED
    BY <2>3 DEF ByOne
<1>4. QED
  BY <1>1, <1>2, <1>3 DEF Prepare

LEMMA PrepareTInv == TInv /\ Prepare => TInv'
<1> SUFFICES ASSUME TInv, Prepare PROVE TInv'
  OBVIOUS
<1>1. /\ scenario' = scenario /\ items' = items /\ monitor' = monitor /\ types' = types
      /\ resource' = resource /\ Shown' = Shown /\ Told' = Told
      /\ ItemOfScenario' = ItemOfScenario
  BY DEF Prepare, resource, Shown, Told, ItemOfScenario
<1>2. types = {} /\ monitor = NotPrepared /\ \A i \in DOMAIN points : points[i] = {}
  BY DEF Prepare, TInv
<1>3. phase' # "start"
  BY DEF Prepare
<1>4. ByOne(parsers', resource.types, Shown)
  BY StartsByOne
<1>5. (\A i \in DOMAIN points' : points'[i] = {}) /\ (phase' = "prepare monitor" => IsFiniteSet(DOMAIN points'))
  <2>1. CASE points' = points /\ phase' # "prepare monitor"
    BY <1>2, <2>1
  <2>2. CASE points' = [i \in IdsOf(items) |-> {}]
    BY <2>2, ListedAre
  <2>3. QED
    BY <2>1, <2>2 DEF Prepare
<1>6. QED
  BY <1>1, <1>2, <1>3, <1>4, <1>5 DEF TInv

LEMMA PrepareMonitorTInv == TInv /\ PrepareMonitor => TInv'
<1> SUFFICES ASSUME TInv, PrepareMonitor PROVE TInv'
  OBVIOUS
<1>1. /\ scenario' = scenario /\ items' = items /\ parsers' = parsers /\ types' = types
      /\ points' = points
      /\ resource' = resource /\ Shown' = Shown /\ Told' = Told
      /\ ItemOfScenario' = ItemOfScenario
  BY DEF PrepareMonitor, resource, Shown, Told, ItemOfScenario
<1>2. types = {} /\ \A i \in DOMAIN points : points[i] = {}
  BY DEF PrepareMonitor, TInv
<1>3. phase' \notin {"start", "prepare monitor"}
  BY DEF PrepareMonitor
<1>4. monitor' # NotPrepared => ByOne(monitor', resource.monitor, Told)
  <2>1. CASE monitor' = monitor
    BY <2>1 DEF TInv
  <2>2. ASSUME AllThere, NEW order \in SetToSeqs(DOMAIN points),
               monitor' = Without(DetectAll(resource.monitor, {}, Answers(order)), resource.tags)
        PROVE  ByOne(monitor', resource.monitor, Told)
    <3> DEFINE n == Cardinality(DOMAIN points)
    <3> DEFINE found == DetectAll(resource.monitor, {}, Answers(order))
    <3>1. n \in Nat
      BY FS_CardinalityType DEF PrepareMonitor, TInv
    <3>2. order \in [1..n -> DOMAIN points]
      BY DEF SetToSeqs
    <3> HIDE DEF n
    <3>3. DOMAIN Answers(order) = 1..n
      BY <3>2 DEF Answers
    <3>4. \A k \in 1..n : Answers(order)[k] \in Told
      <4>1. \A k \in 1..n : order[k] \in IdsOf(items)
        BY <2>2, <3>2 DEF AllThere
      <4>2. QED
        BY <3>2, <4>1, ListedAre DEF Answers
    <3>5. ByOne(found, resource.monitor, Told)
      <4> HIDE DEF found
      <4>1. QED
        BY <3>1, <3>3, <3>4, DetectsAll DEF found
    <3> HIDE DEF found
    <3>6. monitor' = [p \in DOMAIN found \ resource.tags |-> found[p]]
      BY <2>2 DEF found, Without
    <3>7. QED
      BY <3>5, <3>6 DEF ByOne
  <2>3. QED
    BY <2>1, <2>2 DEF PrepareMonitor
<1>5. QED
  BY <1>1, <1>2, <1>3, <1>4 DEF TInv

(* The fields of an entry, laid over fields that have a source, have one.  *)
LEMMA OverlayFrom ==
  ASSUME NEW by, NEW named, NEW all, ByOne(by, named, all), NEW entry \in all,
         NEW fields, NEW f \in Overlay(FieldsOf(by, entry), fields), f \notin fields
  PROVE  OfRequest(f, by, named, all)
<1>1. f \in FieldsOf(by, entry)
  BY DEF Overlay
<1>2. QED
  BY <1>1, FieldsAreGiven DEF OfRequest

LEMMA ListTInv == TInv /\ List => TInv'
<1> SUFFICES ASSUME TInv, List PROVE TInv'
  OBVIOUS
<1>1. /\ scenario' = scenario /\ items' = items /\ parsers' = parsers /\ monitor' = monitor
      /\ resource' = resource /\ Shown' = Shown /\ Told' = Told
      /\ ItemOfScenario' = ItemOfScenario
  BY DEF List, resource, Shown, Told, ItemOfScenario
<1>2. \A f : From(f)' <=> From(f)
  BY <1>1 DEF From, OfRequest
<1>3. ASSUME NEW i \in DOMAIN points', NEW f \in points'[i] PROVE From(f)
  <2> DEFINE default == {<<d, "bool">> : d \in resource.defaults}
  <2>1. i \in IdsOf(items) /\ f \in Overlay(FieldsOf(parsers, Item(i).shown), default)
    BY <1>3 DEF List
  <2>2. CASE f \in default
    BY <2>2 DEF From
  <2>3. CASE f \notin default
    <3>1. Item(i).shown \in Shown
      BY <2>1, ListedAre
    <3>2. ByOne(parsers, resource.types, Shown)
      BY DEF TInv
    <3> HIDE DEF default
    <3>3. OfRequest(f, parsers, resource.types, Shown)
      BY <2>1, <2>3, <3>1, <3>2, OverlayFrom
    <3>4. QED
      BY <3>3 DEF From
  <2>4. QED
    BY <2>2, <2>3
<1>4. \A f \in types' : From(f)
  <2>1. types' = types \/ types' = types \cup UNION {points'[i] : i \in DOMAIN points'}
    BY DEF List
  <2>2. ASSUME NEW f \in types', f \notin types PROVE From(f)
    <3>1. PICK i \in DOMAIN points' : f \in points'[i]
      BY <2>1, <2>2
    <3>2. QED
      BY <1>3, <3>1
  <2>3. \A f \in types : From(f)
    BY DEF TInv
  <2>4. QED
    BY <2>2, <2>3
<1>5. phase' \notin {"start", "prepare monitor"}
  BY DEF List
<1>6. QED
  BY <1>1, <1>2, <1>3, <1>4, <1>5 DEF TInv

LEMMA MonitorTInv == TInv /\ Monitor => TInv'
<1> SUFFICES ASSUME TInv, Monitor PROVE TInv'
  OBVIOUS
<1>1. /\ scenario' = scenario /\ items' = items /\ parsers' = parsers /\ monitor' = monitor
      /\ resource' = resource /\ Shown' = Shown /\ Told' = Told
      /\ ItemOfScenario' = ItemOfScenario
  BY DEF Monitor, resource, Shown, Told, ItemOfScenario
<1>2. \A f : From(f)' <=> From(f)
  BY <1>1 DEF From, OfRequest
<1>3. ASSUME NEW i \in DOMAIN points', NEW f \in points'[i] PROVE From(f)
  <2>1. CASE points' = points
    BY <1>3, <2>1 DEF TInv
  <2>2. CASE /\ ~(Asks /\ (monitor = NotPrepared \/ ~AllThere))
             /\ points' = [j \in DOMAIN points |->
                             Overlay(FieldsOf(monitor, Item(j).monitored), points[j])]
    <3>1. i \in DOMAIN points /\ f \in Overlay(FieldsOf(monitor, Item(i).monitored), points[i])
      BY <1>3, <2>2
    <3>2. monitor # NotPrepared /\ i \in IdsOf(items)
      BY <2>2, <3>1 DEF Asks, AllThere
    <3>3. CASE f \in points[i]
      BY <3>1, <3>3 DEF TInv
    <3>4. CASE f \notin points[i]
      <4>1. Item(i).monitored \in Told
        BY <3>2, ListedAre
      <4>2. ByOne(monitor, resource.monitor, Told)
        BY <3>2 DEF TInv
      <4>3. OfRequest(f, monitor, resource.monitor, Told)
        BY <3>1, <3>4, <4>1, <4>2, OverlayFrom
      <4>4. QED
        BY <3>2, <4>3 DEF From
    <3>5. QED
      BY <3>3, <3>4
  <2>3. QED
    BY <2>1, <2>2 DEF Monitor
<1>4. \A f \in types' : From(f)
  <2>1. types' = types \/ types' = types \cup UNION {points'[i] : i \in DOMAIN points'}
    BY DEF Monitor
  <2>2. ASSUME NEW f \in types', f \notin types PROVE From(f)
    <3>1. PICK i \in DOMAIN points' : f \in points'[i]
      BY <2>1, <2>2
    <3>2. QED
      BY <1>3, <3>1
  <2>3. \A f \in types : From(f)
    BY DEF TInv
  <2>4. QED
    BY <2>2, <2>3
<1>5. phase' \notin {"start", "prepare monitor"}
  BY DEF Monitor
<1>6. QED
  BY <1>1, <1>2, <1>3, <1>4, <1>5 DEF TInv

(* A sequence without one of its items.                                    *)
LEMMA RemovedAt ==
  ASSUME NEW S, NEW s \in Seq(S), NEW k \in DOMAIN s PROVE RemoveAt(s, k) \in Seq(S)
<1>1. k \in 1..Len(s) /\ Len(s) \in Nat
  OBVIOUS
<1>2. SubSeq(s, 1, k - 1) \in Seq(S)
  BY <1>1
<1>3. SubSeq(s, k + 1, Len(s)) \in Seq(S)
  BY <1>1
<1>4. QED
  BY <1>2, <1>3 DEF RemoveAt

LEMMA ChangeTInv == TInv /\ Change => TInv'
<1> SUFFICES ASSUME TInv, Change PROVE TInv'
  OBVIOUS
<1>1. /\ scenario' = scenario /\ parsers' = parsers /\ monitor' = monitor
      /\ points' = points /\ types' = types /\ phase' = phase
      /\ resource' = resource /\ Shown' = Shown /\ Told' = Told
      /\ ItemOfScenario' = ItemOfScenario
  BY DEF Change, resource, Shown, Told, ItemOfScenario
<1>2. \A f : From(f)' <=> From(f)
  BY <1>1 DEF From, OfRequest
<1>0. items \in Seq(ItemOfScenario)
  BY DEF TInv
<1>3. \A new \in scenario.items, i \in Ids \cup 1..2 : WithId(new, i) \in ItemOfScenario
  BY DEF WithId, ItemOfScenario, Shown, Told
<1>4. items' \in Seq(ItemOfScenario)
  <2>1. ASSUME NEW i \in Ids, NEW new \in scenario.items, items' = Append(items, WithId(new, i))
        PROVE  items' \in Seq(ItemOfScenario)
    <3>1. WithId(new, i) \in ItemOfScenario
      BY <1>3
    <3>2. QED
      BY <1>0, <2>1, <3>1
  <2>2. ASSUME NEW k \in DOMAIN items, items' = RemoveAt(items, k)
        PROVE  items' \in Seq(ItemOfScenario)
    BY <1>0, <2>2, RemovedAt
  <2>3. ASSUME NEW k \in DOMAIN items, NEW new \in scenario.items,
               items' = [items EXCEPT ![k] = WithId(new, @.id)]
        PROVE  items' \in Seq(ItemOfScenario)
    <3>1. items[k] \in ItemOfScenario
      BY <1>0
    <3>2. WithId(new, items[k].id) \in ItemOfScenario
      <4>1. items[k].id \in Ids \cup 1..2
        BY <3>1 DEF ItemOfScenario
      <4>2. QED
        BY <1>3, <4>1
    <3> DEFINE changed == WithId(new, items[k].id)
    <3>3. items' = [items EXCEPT ![k] = changed]
      BY <2>3
    <3> HIDE DEF changed
    <3>4. changed \in ItemOfScenario
      BY <3>2 DEF changed
    <3>5. QED
      BY <1>0, <3>3, <3>4
  <2>4. QED
    BY <2>1, <2>2, <2>3 DEF Change
<1>5. QED
  BY <1>1, <1>2, <1>4 DEF TInv

LEMMA TInvariance == RouterSpec => []TInv
<1>1. ASSUME TInv, UNCHANGED routerVars PROVE TInv'
  <2>1. /\ resource' = resource /\ Shown' = Shown /\ Told' = Told
        /\ ItemOfScenario' = ItemOfScenario
    BY <1>1 DEF routerVars, resource, Shown, Told, ItemOfScenario
  <2>2. \A f : From(f)' <=> From(f)
    BY <1>1, <2>1 DEF routerVars, From, OfRequest
  <2>3. QED
    BY <1>1, <2>1, <2>2 DEF routerVars, TInv
<1>2. TInv /\ [RouterNext]_routerVars => TInv'
  BY <1>1, PrepareTInv, PrepareMonitorTInv, ListTInv, MonitorTInv, ChangeTInv DEF RouterNext
<1>3. QED
  BY RouterInitTInv, <1>2, PTL DEF RouterSpec

(* InfluxDB refuses a field whose type changes: whatever the router reports*)
(* and in whatever order, a field keeps its type, because all that is      *)
(* printed comes of a property's one parser, chosen before the first line. *)
THEOREM TypesKeptAlways == RouterSpec => []TypesKept
BY OneType, TInvariance, PTL

(* The items that were listed last are there unless one was removed since, *)
(* a MonitorRequest is only missing where there were no items at the start,*)
(* and no line is read before all requests are prepared.                   *)
SInv ==
  /\ ~removed /\ phase \in {"prepare monitor", "monitor"} => AllThere
  /\ phase \in {"prepare monitor", "monitor"} => resource.monitored
  /\ resource.monitored /\ phase \in {"ready", "monitor"} /\ monitor = NotPrepared => noneAtStart
  /\ phase \in {"start", "prepare monitor"} => requests = 0
  /\ Survives

(* The parsers of a request say nothing of an id.                          *)
LEMMA IsPrepared ==
  ASSUME NEW named, NEW tags, NEW entries, NEW more
  PROVE  Without(DetectAll(named, tags, entries), more) # NotPrepared
<1> DEFINE found == DetectAll(named, tags, entries)
<1>1. "id" \notin DOMAIN found
  <2>1. \A k \in DOMAIN entries : "id" \notin DOMAIN Detect(named, tags, entries[k])
    BY DEF Detect, Detectable
  <2>2. DOMAIN found = UNION {DOMAIN Detect(named, tags, entries[k]) : k \in DOMAIN entries}
    BY DEF DetectAll
  <2> HIDE DEF found
  <2>3. QED
    BY <2>1, <2>2
<1> HIDE DEF found
<1>2. "id" \notin DOMAIN Without(found, more)
  BY <1>1 DEF Without
<1>3. "id" \in DOMAIN NotPrepared
  BY DEF NotPrepared
<1>4. QED
  BY <1>2, <1>3 DEF found

LEMMA PrepareSInv == TInv /\ SInv /\ Prepare => SInv'
<1> SUFFICES ASSUME TInv, SInv, Prepare PROVE SInv'
  OBVIOUS
<1>1. ~(resource.firewall /\ resource.monitored)
  BY ScenariosAssumption DEF TInv, resource
<1>2. /\ resource' = resource /\ items' = items /\ requests' = requests /\ requests = 0
      /\ phase' \in {"left out", "ready", "refused", "prepare monitor"}
      /\ noneAtStart' = (items = <<>>)
  BY DEF Prepare, resource, SInv
<1>3. phase' = "prepare monitor" =>
        resource.monitored /\ DOMAIN points' = IdsOf(items) /\ items # <<>>
  BY DEF Prepare
<1>4. phase' = "ready" /\ resource.monitored => items = <<>>
  BY <1>1 DEF Prepare
<1>5. phase' = "prepare monitor" => AllThere'
  BY <1>2, <1>3 DEF AllThere, IdsOf
<1>6. QED
  BY <1>2, <1>3, <1>4, <1>5 DEF SInv, Survives

LEMMA PrepareMonitorSInv == SInv /\ PrepareMonitor => SInv'
<1> SUFFICES ASSUME SInv, PrepareMonitor PROVE SInv'
  OBVIOUS
<1>1. /\ resource' = resource /\ requests' = requests /\ requests = 0 /\ removed' = removed
      /\ phase = "prepare monitor" /\ phase' \in {"dead", "refused", "ready"}
  BY DEF PrepareMonitor, resource, SInv
<1>2. phase' = "dead" => removed
  BY DEF PrepareMonitor, SInv
<1>3. phase' = "ready" => monitor' # NotPrepared
  BY IsPrepared DEF PrepareMonitor
<1>4. QED
  BY <1>1, <1>2, <1>3 DEF SInv, Survives

LEMMA ListSInv == SInv /\ List => SInv'
<1> SUFFICES ASSUME SInv, List PROVE SInv'
  OBVIOUS
<1>1. /\ resource' = resource /\ items' = items /\ monitor' = monitor
      /\ noneAtStart' = noneAtStart /\ phase = "ready"
      /\ phase' = IF resource.monitored THEN "monitor" ELSE "ready"
      /\ DOMAIN points' = IdsOf(items)
  BY DEF List, resource
<1>2. AllThere'
  BY <1>1 DEF AllThere, IdsOf
<1>3. QED
  BY <1>1, <1>2 DEF SInv, Survives

(* With a MonitorRequest that was never prepared the items it asks about   *)
(* were not there at the start; otherwise one of them is gone.             *)
LEMMA MonitorSInv == SInv /\ Monitor => SInv'
<1> SUFFICES ASSUME SInv, Monitor PROVE SInv'
  OBVIOUS
<1>1. /\ resource' = resource /\ monitor' = monitor /\ removed' = removed
      /\ noneAtStart' = noneAtStart
      /\ phase = "monitor" /\ phase' \in {"dead", "ready"}
      /\ phase' = "dead" => /\ Asks /\ (monitor = NotPrepared \/ ~AllThere)
                            /\ points' = points
  BY DEF Monitor, resource
<1>2. ASSUME phase' = "dead", ~removed PROVE noneAtStart /\ DOMAIN points' # {}
  BY <1>1, <1>2 DEF SInv, Asks
<1>3. QED
  BY <1>1, <1>2 DEF SInv, Survives

(* An item that appears or changes takes nobody's id.                      *)
LEMMA ChangeSInv == TInv /\ SInv /\ Change => SInv'
<1> SUFFICES ASSUME TInv, SInv, Change PROVE SInv'
  OBVIOUS
<1>1. /\ resource' = resource /\ phase' = phase /\ points' = points /\ requests' = requests
      /\ monitor' = monitor /\ noneAtStart' = noneAtStart /\ (removed => removed')
  BY DEF Change, resource
<1>2. ASSUME ~removed' PROVE IdsOf(items) \subseteq IdsOf(items')
  <2>1. items \in Seq(ItemOfScenario)
    BY DEF TInv
  <2>2. ASSUME NEW item, items' = Append(items, item)
        PROVE  IdsOf(items) \subseteq IdsOf(items')
    <3>1. \A k \in DOMAIN items : k \in DOMAIN items' /\ items'[k] = items[k]
      BY <2>1, <2>2
    <3>2. QED
      BY <3>1 DEF IdsOf
  <2>3. ASSUME NEW k \in DOMAIN items, NEW new \in scenario.items,
               items' = [items EXCEPT ![k] = WithId(new, @.id)]
        PROVE  IdsOf(items) \subseteq IdsOf(items')
    <3>1. DOMAIN items' = DOMAIN items /\ \A j \in DOMAIN items : items'[j].id = items[j].id
      BY <2>3 DEF WithId
    <3>2. QED
      BY <3>1 DEF IdsOf
  <2>4. QED
    BY <1>2, <2>2, <2>3 DEF Change
<1>3. ASSUME ~removed', phase' \in {"prepare monitor", "monitor"} PROVE AllThere'
  BY <1>1, <1>2, <1>3 DEF SInv, AllThere
<1>4. QED
  BY <1>1, <1>3 DEF SInv, Survives

(* For any tables and items, and however the items come, go and change:    *)
(* the program ends of a value only before its first line, and afterwards  *)
(* of an item that went away since it was listed, or of one in a resource  *)
(* that had none at the start.                                             *)
THEOREM SurvivesAlways == RouterSpec => []Survives
<1>1. ASSUME SInv, UNCHANGED routerVars PROVE SInv'
  <2>1. resource' = resource /\ AllThere' = AllThere /\ Survives' = Survives
    BY <1>1 DEF routerVars, resource, AllThere, IdsOf, Survives
  <2>2. QED
    BY <1>1, <2>1 DEF routerVars, SInv
<1>2. TInv /\ SInv /\ [RouterNext]_routerVars => SInv'
  BY <1>1, PrepareSInv, PrepareMonitorSInv, ListSInv, MonitorSInv, ChangeSInv DEF RouterNext
<1>3. RouterInit => SInv
  BY DEF RouterInit, SInv, Survives
<1>4. SInv => Survives
  BY DEF SInv
<1>5. QED
  BY <1>2, <1>3, <1>4, TInvariance, PTL DEF RouterSpec

-----------------------------------------------------------------------------
(* SwosMetrics.                                                            *)

LEMMA SixSum ==
  ASSUME NEW w, \A p \in Ports : w[p] \in Int
  PROVE  SumFunctionOnSet(w, Ports) = w[1] + w[2] + w[3] + w[4] + w[5] + w[6]
<1>1. /\ Ports = {1, 2, 3, 4, 5} \cup {6} /\ {1, 2, 3, 4, 5} = {1, 2, 3, 4} \cup {5}
      /\ {1, 2, 3, 4} = {1, 2, 3} \cup {4} /\ {1, 2, 3} = {1, 2} \cup {3}
      /\ {1, 2} = {1} \cup {2}
  BY DEF Ports
<1>2. /\ IsFiniteSet({1}) /\ IsFiniteSet({1, 2}) /\ IsFiniteSet({1, 2, 3})
      /\ IsFiniteSet({1, 2, 3, 4}) /\ IsFiniteSet({1, 2, 3, 4, 5})
  <2>1. IsFiniteSet({1})
    BY FS_Singleton
  <2>2. IsFiniteSet({1, 2})
    BY <1>1, <2>1, FS_AddElement
  <2>3. IsFiniteSet({1, 2, 3})
    BY <1>1, <2>2, FS_AddElement
  <2>4. IsFiniteSet({1, 2, 3, 4})
    BY <1>1, <2>3, FS_AddElement, SMTT(30)
  <2>5. IsFiniteSet({1, 2, 3, 4, 5})
    BY <1>1, <2>4, FS_AddElement, SMTT(30)
  <2>6. QED
    BY <2>1, <2>2, <2>3, <2>4, <2>5
<1>3. w[1] \in Int /\ w[2] \in Int /\ w[3] \in Int /\ w[4] \in Int /\ w[5] \in Int /\ w[6] \in Int
  BY DEF Ports
<1>4. SumFunctionOnSet(w, {1}) = w[1]
  BY <1>3, SumOne
<1>5. SumFunctionOnSet(w, {1} \cup {2}) = SumFunctionOnSet(w, {1}) + w[2]
  <2>1. \A p \in {1} \cup {2} : w[p] \in Int
    BY <1>3
  <2>2. 2 \notin {1}
    OBVIOUS
  <2>3. QED
    BY <1>2, <2>1, <2>2, SumAdd, Zenon
<1>6. SumFunctionOnSet(w, {1, 2} \cup {3}) = SumFunctionOnSet(w, {1, 2}) + w[3]
  <2>1. \A p \in {1, 2} \cup {3} : w[p] \in Int
    BY <1>3
  <2>2. 3 \notin {1, 2}
    OBVIOUS
  <2>3. QED
    BY <1>2, <2>1, <2>2, SumAdd, Zenon
<1>7. SumFunctionOnSet(w, {1, 2, 3} \cup {4}) = SumFunctionOnSet(w, {1, 2, 3}) + w[4]
  <2>1. \A p \in {1, 2, 3} \cup {4} : w[p] \in Int
    BY <1>3
  <2>2. 4 \notin {1, 2, 3}
    OBVIOUS
  <2>3. QED
    BY <1>2, <2>1, <2>2, SumAdd, Zenon
<1>8. SumFunctionOnSet(w, {1, 2, 3, 4} \cup {5}) = SumFunctionOnSet(w, {1, 2, 3, 4}) + w[5]
  <2>1. \A p \in {1, 2, 3, 4} \cup {5} : w[p] \in Int
    BY <1>3
  <2>2. 5 \notin {1, 2, 3, 4}
    OBVIOUS
  <2>3. QED
    BY <1>2, <2>1, <2>2, SumAdd, Zenon
<1>9. SumFunctionOnSet(w, {1, 2, 3, 4, 5} \cup {6}) = SumFunctionOnSet(w, {1, 2, 3, 4, 5}) + w[6]
  <2>1. \A p \in {1, 2, 3, 4, 5} \cup {6} : w[p] \in Int
    BY <1>3
  <2>2. 6 \notin {1, 2, 3, 4, 5}
    OBVIOUS
  <2>3. QED
    BY <1>2, <2>1, <2>2, SumAdd, Zenon
<1>10. SumFunctionOnSet(w, {1, 2, 3}) = w[1] + w[2] + w[3]
  BY <1>1, <1>3, <1>4, <1>5, <1>6
<1>11. SumFunctionOnSet(w, {1, 2, 3, 4, 5}) = w[1] + w[2] + w[3] + w[4] + w[5]
  BY <1>1, <1>3, <1>7, <1>8, <1>10
<1>12. QED
  BY <1>1, <1>3, <1>9, <1>11

(* The bit of a port says what is on at that port.                         *)
LEMMA BitsTell ==
  ASSUME NEW on, \A p \in Ports : on[p] \in BOOLEAN, NEW p \in Ports
  PROVE  Bit(Bits(on), p) = IF on[p] THEN 1 ELSE 0
<1> DEFINE w == [q \in Ports |-> IF on[q] THEN Weight[q] ELSE 0]
<1> DEFINE b == [q \in Ports |-> IF on[q] THEN 1 ELSE 0]
<1>1. /\ Weight[1] = 1 /\ Weight[2] = 2 /\ Weight[3] = 4 /\ Weight[4] = 8 /\ Weight[5] = 16
      /\ Weight[6] = 32
  BY DEF Weight
<1>2. 1 \in Ports /\ 2 \in Ports /\ 3 \in Ports /\ 4 \in Ports /\ 5 \in Ports /\ 6 \in Ports
  BY DEF Ports
<1>3. /\ w[1] = b[1] /\ w[2] = 2 * b[2] /\ w[3] = 4 * b[3] /\ w[4] = 8 * b[4] /\ w[5] = 16 * b[5]
      /\ w[6] = 32 * b[6]
  BY <1>1, <1>2
<1>4. \A q \in Ports : b[q] \in {0, 1}
  OBVIOUS
<1> DEFINE n == b[1] + 2 * b[2] + 4 * b[3] + 8 * b[4] + 16 * b[5] + 32 * b[6]
<1> HIDE DEF b
<1>5. \A q \in Ports : w[q] \in Int
  <2>1. \A q \in Ports : Weight[q] \in Int
    BY <1>1 DEF Ports
  <2>2. QED
    BY <2>1
<1>6. Bits(on) = n
  <2>1. Bits(on) = SumFunctionOnSet(w, Ports)
    BY DEF Bits
  <2> HIDE DEF w
  <2>2. QED
    BY <1>3, <1>5, <2>1, SixSum
<1>7. /\ b[1] \in {0, 1} /\ b[2] \in {0, 1} /\ b[3] \in {0, 1} /\ b[4] \in {0, 1} /\ b[5] \in {0, 1}
      /\ b[6] \in {0, 1}
  BY <1>2, <1>4
<1>8. /\ (n \div 1) % 2 = b[1] /\ (n \div 2) % 2 = b[2] /\ (n \div 4) % 2 = b[3]
      /\ (n \div 8) % 2 = b[4] /\ (n \div 16) % 2 = b[5] /\ (n \div 32) % 2 = b[6]
  BY <1>7
<1>9. Bit(n, p) = b[p]
  <2> HIDE DEF n
  <2>1. p = 1 \/ p = 2 \/ p = 3 \/ p = 4 \/ p = 5 \/ p = 6
    BY DEF Ports
  <2>2. QED
    BY <1>1, <1>8, <2>1 DEF Bit
<1>10. QED
  BY <1>6, <1>9 DEF b

(* Where the dictionaries that have a key agree, so does what they merge to.*)
LEMMA MergedIs ==
  ASSUME NEW dicts, NEW k, NEW v, \E d \in dicts : k \in DOMAIN d,
         \A d \in dicts : k \in DOMAIN d => d[k] = v
  PROVE  k \in DOMAIN Merged(dicts) /\ Merged(dicts)[k] = v
BY DEF Merged

LEMMA MergedKeys ==
  ASSUME NEW dicts, NEW k \in DOMAIN Merged(dicts) PROVE \E d \in dicts : k \in DOMAIN d
BY DEF Merged

(* What an answer has of a field: its keys, each with its part.            *)
LEMMA EncodeIs ==
  ASSUME NEW f \in FIELDS, NEW s
  PROVE  /\ DOMAIN Encode(f, s) = Keys(f) /\ f.id \in Keys(f)
         /\ f.type = "bool" => Encode(f, s)[f.id] = Bits(s)
         /\ f.type = "enum" => Encode(f, s)[f.id] = [p \in Ports |-> s[p]]
         /\ f.type = "dual-bool" => f.second \in Keys(f)
         /\ f.type = "number" =>
              /\ f.id \o "h" \in Keys(f)
              /\ Encode(f, s)[f.id] = [p \in Ports |-> s[p] % Half]
              /\ Encode(f, s)[f.id \o "h"] = [p \in Ports |-> s[p] \div Half]
<1>1. f.type \in {"bool", "enum", "dual-bool", "number"} /\ f.second # f.id /\ f.id # f.id \o "h"
  BY FieldsAssumption
<1>2. /\ DOMAIN Encode(f, s) = Keys(f) /\ f.id \in Keys(f)
      /\ f.type = "dual-bool" => f.second \in Keys(f)
      /\ f.type = "number" => f.id \o "h" \in Keys(f)
  BY <1>1 DEF Encode, Keys
<1>3. /\ f.type = "bool" => Encode(f, s)[f.id] = Bits(s)
      /\ f.type = "enum" => Encode(f, s)[f.id] = [p \in Ports |-> s[p]]
  BY <1>2 DEF Encode
<1>4. f.type = "number" =>
        /\ Encode(f, s)[f.id] = [p \in Ports |-> s[p] % Half]
        /\ Encode(f, s)[f.id \o "h"] = [p \in Ports |-> s[p] \div Half]
  BY <1>1, <1>2 DEF Encode
<1>5. QED
  BY <1>2, <1>3, <1>4

(* The fields of a section that a switch has.                              *)
ToldIn(i) == {f \in Sections[i] : f.name \in DOMAIN settings}

(* The answer has the keys of those fields and no others.                  *)
LEMMA AnswerIs ==
  ASSUME NEW i \in DOMAIN Sections
  PROVE  /\ \A f \in ToldIn(i) : \A k \in Keys(f) :
              /\ k \in DOMAIN Answer(Sections[i])
              /\ Answer(Sections[i])[k] = Encode(f, settings[f.name])[k]
         /\ \A k \in DOMAIN Answer(Sections[i]) : \E f \in ToldIn(i) : k \in Keys(f)
<1> DEFINE dicts == {Encode(f, settings[f.name]) : f \in ToldIn(i)}
<1>1. Answer(Sections[i]) = Merged(dicts)
  BY DEF Answer, ToldIn
<1>2. \A f \in ToldIn(i) : f \in FIELDS /\ f \in Sections[i]
  BY DEF ToldIn, FIELDS
<1>3. \A f \in ToldIn(i) : DOMAIN Encode(f, settings[f.name]) = Keys(f)
  BY <1>2, EncodeIs
<1>4. ASSUME NEW f \in ToldIn(i), NEW k \in Keys(f)
      PROVE  k \in DOMAIN Merged(dicts) /\ Merged(dicts)[k] = Encode(f, settings[f.name])[k]
  <2> DEFINE v == Encode(f, settings[f.name])[k]
  <2>1. \E d \in dicts : k \in DOMAIN d
    BY <1>3, <1>4
  <2>2. ASSUME NEW d \in dicts, k \in DOMAIN d PROVE d[k] = v
    <3>1. PICK g \in ToldIn(i) : d = Encode(g, settings[g.name])
      BY <2>2
    <3>2. k \in Keys(f) \cap Keys(g)
      BY <1>3, <1>4, <2>2, <3>1
    <3>3. f = g
      BY <1>2, <3>2, FieldsAssumption
    <3>4. QED
      BY <3>1, <3>3
  <2> HIDE DEF v, dicts
  <2>3. k \in DOMAIN Merged(dicts) /\ Merged(dicts)[k] = v
    BY <2>1, <2>2, MergedIs
  <2>4. QED
    BY <2>3 DEF v
<1>5. ASSUME NEW k \in DOMAIN Merged(dicts) PROVE \E f \in ToldIn(i) : k \in Keys(f)
  <2>1. \E d \in dicts : k \in DOMAIN d
    <3> HIDE DEF dicts
    <3>1. QED
      BY <1>5, MergedKeys
  <2>2. PICK g \in ToldIn(i) : k \in DOMAIN Encode(g, settings[g.name])
    BY <2>1
  <2>3. QED
    BY <1>3, <2>2
<1> HIDE DEF dicts
<1>6. QED
  BY <1>1, <1>4, <1>5

(* What merge_64bit leaves of an answer: a field's numbers, halves joined, *)
(* under its own key.                                                      *)
LEMMA MergeIs ==
  ASSUME NEW i \in DOMAIN Sections, NEW f \in Sections[i]
  PROVE  LET answer == Answer(Sections[i])
             data == merge_64bit(answer)
         IN  /\ f.id \in DOMAIN data <=> f.name \in DOMAIN settings
             /\ f.name \in DOMAIN settings =>
                  /\ f.type # "number" => data[f.id] = answer[f.id]
                  /\ f.type = "dual-bool" => data[f.second] = answer[f.second]
                  /\ f.type = "number" =>
                       data[f.id] = [p \in Ports |-> answer[f.id][p]
                                                   + HighHalf(answer[f.id \o "h"][p]) * Half]
<1> DEFINE answer == Answer(Sections[i])
<1> DEFINE high == {k \o "h" : k \in DOMAIN answer} \cap DOMAIN answer
<1> DEFINE data == merge_64bit(answer)
<1>1. /\ \A g \in ToldIn(i) : Keys(g) \subseteq DOMAIN answer
      /\ \A k \in DOMAIN answer : \E g \in ToldIn(i) : k \in Keys(g)
  BY AnswerIs
<1>2. data = [k \in DOMAIN answer \ high |->
                IF k \o "h" \in high
                THEN [p \in Ports |-> answer[k][p] + HighHalf(answer[k \o "h"][p]) * Half]
                ELSE answer[k]]
  BY DEF merge_64bit
<1>3. \A g \in Sections[i] :
        /\ g \in FIELDS /\ g.type \in {"bool", "enum", "dual-bool", "number"}
        /\ g.id \in Keys(g) /\ g.id # g.id \o "h"
        /\ g.type = "dual-bool" => g.second \in Keys(g)
        /\ g.type = "number" => g.id \o "h" \in Keys(g)
  <2>1. \A g \in Sections[i] : g \in FIELDS
    BY DEF FIELDS
  <2>2. \A g \in FIELDS :
          /\ g.id \in Keys(g)
          /\ g.type = "dual-bool" => g.second \in Keys(g)
          /\ g.type = "number" => g.id \o "h" \in Keys(g)
    BY EncodeIs
  <2>3. QED
    BY <2>1, <2>2, FieldsAssumption
<1>4. \A g \in ToldIn(i) : g \in Sections[i] /\ g.name \in DOMAIN settings
  BY DEF ToldIn
<1>5. \A g, h \in Sections[i] : \A k : k \in Keys(g) /\ k \in Keys(h) => g = h
  BY FieldsAssumption
<1>6. \A g, h \in Sections[i] : \A k \in Keys(g) :
        k \o "h" \in Keys(h) => g.type = "number" /\ k = g.id
  BY FieldsAssumption
<1> HIDE DEF answer
<1>7. f.id \in DOMAIN answer => f.name \in DOMAIN settings
  BY <1>1, <1>3, <1>4, <1>5
<1>8. ASSUME f.name \in DOMAIN settings
      PROVE  /\ f.id \in DOMAIN answer /\ f.id \notin high
             /\ f.id \o "h" \in high <=> f.type = "number"
             /\ f.type = "dual-bool" =>
                  f.second \in DOMAIN answer /\ f.second \notin high /\ f.second \o "h" \notin high
  <2>1. f \in ToldIn(i)
    BY <1>8 DEF ToldIn
  <2>2. ASSUME NEW k \in Keys(f), k \in high
        PROVE  f.type = "number" /\ k = f.id \o "h"
    <3>1. PICK j \in DOMAIN answer : k = j \o "h"
      BY <2>2
    <3>2. PICK g \in ToldIn(i) : j \in Keys(g)
      BY <1>1
    <3>3. g.type = "number" /\ j = g.id
      BY <1>4, <1>6, <2>1, <2>2, <3>1, <3>2
    <3>4. k \in Keys(g)
      BY <1>3, <1>4, <3>1, <3>3
    <3>5. g = f
      BY <1>4, <1>5, <2>2, <3>4
    <3>6. QED
      BY <3>1, <3>3, <3>5
  <2>3. \A k \in Keys(f) : k \o "h" \in high => f.type = "number" /\ k = f.id
    <3>1. \A k : k \in high => \E g \in ToldIn(i) : k \in Keys(g)
      BY <1>1
    <3>2. QED
      BY <1>4, <1>6, <3>1
  <2>4. f.id \in DOMAIN answer /\ f.id \notin high
    BY <1>1, <1>3, <2>1, <2>2
  <2>5. f.type = "number" => f.id \o "h" \in high
    BY <1>1, <1>3, <2>1, <2>4
  <2>6. f.type = "dual-bool" =>
          f.second \in DOMAIN answer /\ f.second \notin high /\ f.second \o "h" \notin high
    BY <1>1, <1>3, <2>1, <2>2, <2>3
  <2>7. f.id \o "h" \in high => f.type = "number"
    BY <1>3, <2>3
  <2> HIDE DEF high
  <2>8. QED
    BY <2>4, <2>5, <2>6, <2>7
<1> HIDE DEF high, data
<1>9. f.id \in DOMAIN data <=> f.name \in DOMAIN settings
  BY <1>2, <1>7, <1>8
<1>10. f.name \in DOMAIN settings =>
         /\ f.type # "number" => data[f.id] = answer[f.id]
         /\ f.type = "dual-bool" => data[f.second] = answer[f.second]
         /\ f.type = "number" =>
              data[f.id] = [p \in Ports |-> answer[f.id][p]
                                          + HighHalf(answer[f.id \o "h"][p]) * Half]
  BY <1>2, <1>8
<1>11. QED
  BY <1>9, <1>10 DEF data, answer

(* What a line says of a setting, which is all of it but the high half of  *)
(* all ones.                                                               *)
Says(f, s) ==
  CASE f.type = "bool" -> s
    [] f.type = "enum" -> IF s < Len(f.values) THEN f.values[s + 1] ELSE s
    [] f.type = "dual-bool" -> f.values[s + 1]
    [] f.type = "number" ->
         <<100 * (IF s \div Half = Half - 1 THEN s % Half ELSE s), Scale(f.name)>>

(* The two bits of a setting with up to four values are its binary digits. *)
LEMMA DualTells ==
  ASSUME NEW s, \A q \in Ports : s[q] \in 0..3, NEW p \in Ports
  PROVE  DualIndex(Bit(Bits([q \in Ports |-> s[q] % 2 = 1]), p),
                   Bit(Bits([q \in Ports |-> s[q] \div 2 = 1]), p)) = s[p]
<1> DEFINE low == [q \in Ports |-> s[q] % 2 = 1]
<1> DEFINE top == [q \in Ports |-> s[q] \div 2 = 1]
<1>1. (\A q \in Ports : low[q] \in BOOLEAN) /\ (\A q \in Ports : top[q] \in BOOLEAN)
  OBVIOUS
<1>2. low[p] = (s[p] % 2 = 1) /\ top[p] = (s[p] \div 2 = 1)
  OBVIOUS
<1> HIDE DEF low, top
<1>3. /\ Bit(Bits(low), p) = IF s[p] % 2 = 1 THEN 1 ELSE 0
      /\ Bit(Bits(top), p) = IF s[p] \div 2 = 1 THEN 1 ELSE 0
  BY <1>1, <1>2, BitsTell
<1>4. s[p] \in {0, 1, 2, 3}
  OBVIOUS
<1>5. DualIndex(Bit(Bits(low), p), Bit(Bits(top), p)) = s[p]
  BY <1>3, <1>4 DEF DualIndex
<1>6. QED
  BY <1>5 DEF low, top

(* The halves of a counter, joined.                                        *)
LEMMA HalvesTell ==
  ASSUME NEW s \in Nat
  PROVE  (s % Half) + HighHalf(s \div Half) * Half
           = IF s \div Half = Half - 1 THEN s % Half ELSE s
<1> DEFINE q == s \div Half
<1> DEFINE r == s % Half
<1>1. Half \in Nat \ {0}
  BY SwitchesAssumption
<1>2. q \in Nat /\ r \in Nat /\ s = q * Half + r
  BY <1>1
<1> HIDE DEF q, r
<1>3. r + HighHalf(q) * Half = IF q = Half - 1 THEN r ELSE s
  BY <1>1, <1>2 DEF HighHalf
<1>4. QED
  BY <1>3 DEF q, r

(* What the program makes of a setting the switch has.                     *)
LEMMA FormatIs ==
  ASSUME settings \in Switches, NEW i \in DOMAIN Sections, NEW f \in ToldIn(i), NEW p \in Ports
  PROVE  Format(merge_64bit(Answer(Sections[i])), f)[p] = Says(f, settings[f.name][p])
<1> DEFINE answer == Answer(Sections[i])
<1> DEFINE data == merge_64bit(answer)
<1> DEFINE s == settings[f.name]
<1>1. f \in Sections[i] /\ f.name \in DOMAIN settings /\ f \in FIELDS
  BY DEF ToldIn, FIELDS
<1>2. f.type \in {"bool", "enum", "dual-bool", "number"}
  BY <1>1, FieldsAssumption
<1>3. \A q \in Ports : s[q] \in Settings(f)
  BY <1>1, SwitchesAssumption
<1>4. \A k \in Keys(f) : answer[k] = Encode(f, s)[k]
  BY AnswerIs
<1>5. /\ f.type # "number" => data[f.id] = answer[f.id]
      /\ f.type = "dual-bool" => data[f.second] = answer[f.second]
      /\ f.type = "number" =>
           data[f.id] = [q \in Ports |-> answer[f.id][q]
                                       + HighHalf(answer[f.id \o "h"][q]) * Half]
  BY <1>1, MergeIs
<1> HIDE DEF answer, data, s
<1>6. /\ f.id \in Keys(f)
      /\ f.type = "bool" => answer[f.id] = Bits(s)
      /\ f.type = "enum" => answer[f.id] = [q \in Ports |-> s[q]]
      /\ f.type = "dual-bool" =>
           /\ answer[f.id] = Bits([q \in Ports |-> s[q] % 2 = 1])
           /\ answer[f.second] = Bits([q \in Ports |-> s[q] \div 2 = 1])
      /\ f.type = "number" =>
           /\ answer[f.id] = [q \in Ports |-> s[q] % Half]
           /\ answer[f.id \o "h"] = [q \in Ports |-> s[q] \div Half]
  <2> DEFINE whole == Encode(f, s)
  <2>1. /\ f.id \in Keys(f)
        /\ f.type = "bool" => whole[f.id] = Bits(s)
        /\ f.type = "enum" => whole[f.id] = [q \in Ports |-> s[q]]
    BY <1>1, EncodeIs
  <2>2. ASSUME f.type = "dual-bool"
        PROVE  /\ f.second \in Keys(f)
               /\ whole[f.id] = Bits([q \in Ports |-> s[q] % 2 = 1])
               /\ whole[f.second] = Bits([q \in Ports |-> s[q] \div 2 = 1])
    BY <1>1, <2>2, FieldsAssumption DEF Encode, Keys
  <2>3. f.type = "number" =>
          /\ f.id \o "h" \in Keys(f)
          /\ whole[f.id] = [q \in Ports |-> s[q] % Half]
          /\ whole[f.id \o "h"] = [q \in Ports |-> s[q] \div Half]
    BY <1>1, EncodeIs
  <2>4. \A k \in Keys(f) : answer[k] = whole[k]
    BY <1>4
  <2> HIDE DEF whole
  <2>5. QED
    BY <2>1, <2>2, <2>3, <2>4
<1>7. CASE f.type = "bool"
  <2>1. \A q \in Ports : s[q] \in BOOLEAN
    BY <1>3, <1>7 DEF Settings
  <2>2. Bit(data[f.id], p) = IF s[p] THEN 1 ELSE 0
    BY <1>5, <1>6, <1>7, <2>1, BitsTell
  <2>3. Format(data, f)[p] = (Bit(data[f.id], p) = 1)
    BY <1>7 DEF Format
  <2>4. Says(f, s[p]) = s[p]
    BY <1>7 DEF Says
  <2>5. QED
    BY <2>1, <2>2, <2>3, <2>4 DEF s, data, answer
<1>8. CASE f.type = "enum"
  <2>1. data[f.id][p] = s[p]
    BY <1>5, <1>6, <1>8
  <2>2. Format(data, f)[p] = Says(f, s[p])
    BY <1>8, <2>1 DEF Format, Says
  <2>3. QED
    BY <2>2 DEF s, data, answer
<1>9. CASE f.type = "dual-bool"
  <2>1. \A q \in Ports : s[q] \in 0..3
    BY <1>3, <1>9 DEF Settings
  <2>2. DualIndex(Bit(data[f.id], p), Bit(data[f.second], p)) = s[p]
    BY <1>5, <1>6, <1>9, <2>1, DualTells
  <2>3. Format(data, f)[p] = Says(f, s[p])
    BY <1>9, <2>2 DEF Format, Says
  <2>4. QED
    BY <2>3 DEF s, data, answer
<1>10. CASE f.type = "number"
  <2>1. s[p] \in Nat
    BY <1>3, <1>10 DEF Settings
  <2>2. data[f.id][p] = (s[p] % Half) + HighHalf(s[p] \div Half) * Half
    BY <1>5, <1>6, <1>10
  <2> DEFINE n == IF s[p] \div Half = Half - 1 THEN s[p] % Half ELSE s[p]
  <2>3. data[f.id][p] = n
    BY <2>1, <2>2, HalvesTell
  <2>4. n \in Int
    BY <2>1, SwitchesAssumption
  <2>5. Says(f, s[p]) = <<100 * n, Scale(f.name)>>
    BY <1>10 DEF Says
  <2>6. Format(data, f)[p] = <<data[f.id][p] * 100, Scale(f.name)>>
    BY <1>10 DEF Format
  <2> HIDE DEF n
  <2>7. QED
    BY <2>3, <2>4, <2>5, <2>6 DEF s, data, answer
<1>11. QED
  BY <1>2, <1>7, <1>8, <1>9, <1>10

(* Of each port, all the settings and nothing else.                        *)
LEMMA ValuesAre ==
  ASSUME settings \in Switches, NEW p \in Ports
  PROVE  /\ DOMAIN Values(p) = DOMAIN settings
         /\ \A f \in FIELDS : f.name \in DOMAIN settings =>
              Values(p)[f.name] = Says(f, settings[f.name][p])
<1> DEFINE data(i) == merge_64bit(Answer(Sections[i]))
<1> DEFINE one(i, f) == [n \in {f.name} |-> Format(data(i), f)[p]]
<1> DEFINE ofSection(i) == Merged({one(i, f) : f \in {g \in Sections[i] : g.id \in DOMAIN data(i)}})
<1> DEFINE all == {ofSection(i) : i \in DOMAIN Sections}
<1>1. Values(p) = Merged(all)
  BY DEF Values
<1>2. \A i \in DOMAIN Sections : {g \in Sections[i] : g.id \in DOMAIN data(i)} = ToldIn(i)
  <2>1. ASSUME NEW i \in DOMAIN Sections, NEW g \in Sections[i]
        PROVE  g.id \in DOMAIN data(i) <=> g.name \in DOMAIN settings
    BY MergeIs
  <2> HIDE DEF data
  <2>2. QED
    BY <2>1 DEF ToldIn
<1>3. \A f, g \in FIELDS : f.name = g.name => f = g
  BY FieldsAssumption
<1>4. \A i \in DOMAIN Sections : \A f \in ToldIn(i) : f \in FIELDS /\ f.name \in DOMAIN settings
  BY DEF ToldIn, FIELDS
<1>5. ASSUME NEW i \in DOMAIN Sections
      PROVE  /\ \A n \in DOMAIN ofSection(i) : \E f \in ToldIn(i) : n = f.name
             /\ \A f \in ToldIn(i) :
                  /\ f.name \in DOMAIN ofSection(i)
                  /\ ofSection(i)[f.name] = Says(f, settings[f.name][p])
  <2> DEFINE dicts == {one(i, f) : f \in ToldIn(i)}
  <2>1. ofSection(i) = Merged(dicts)
    BY <1>2
  <2>2. \A d \in dicts : \E f \in ToldIn(i) : d = one(i, f)
    OBVIOUS
  <2>3. \A f \in ToldIn(i) : /\ one(i, f) \in dicts /\ DOMAIN one(i, f) = {f.name}
                            /\ one(i, f)[f.name] = Says(f, settings[f.name][p])
    <3>1. ASSUME NEW f \in ToldIn(i) PROVE Format(data(i), f)[p] = Says(f, settings[f.name][p])
      BY FormatIs
    <3> HIDE DEF data
    <3>2. QED
      BY <3>1
  <2> HIDE DEF dicts, one, ofSection
  <2>4. ASSUME NEW n \in DOMAIN Merged(dicts) PROVE \E f \in ToldIn(i) : n = f.name
    <3>1. PICK d \in dicts : n \in DOMAIN d
      BY <2>4, MergedKeys
    <3>2. QED
      BY <2>2, <2>3, <3>1
  <2>5. ASSUME NEW f \in ToldIn(i)
        PROVE  /\ f.name \in DOMAIN Merged(dicts)
               /\ Merged(dicts)[f.name] = Says(f, settings[f.name][p])
    <3>1. \E d \in dicts : f.name \in DOMAIN d
      BY <2>3
    <3>2. \A d \in dicts : f.name \in DOMAIN d => d[f.name] = Says(f, settings[f.name][p])
      <4> SUFFICES ASSUME NEW d \in dicts, f.name \in DOMAIN d
                   PROVE  d[f.name] = Says(f, settings[f.name][p])
        OBVIOUS
      <4>1. PICK g \in ToldIn(i) : d = one(i, g)
        BY <2>2
      <4>2. g.name = f.name
        BY <2>3, <4>1
      <4>3. g = f
        BY <1>3, <1>4, <4>2
      <4>4. QED
        BY <2>3, <4>1, <4>3
    <3> DEFINE v == Says(f, settings[f.name][p])
    <3> HIDE DEF v
    <3>3. QED
      BY <3>1, <3>2, MergedIs
  <2>6. QED
    BY <2>1, <2>4, <2>5
<1> HIDE DEF ofSection, one, data
<1>6. ASSUME NEW n \in DOMAIN Merged(all) PROVE n \in DOMAIN settings
  <2>1. PICK d \in all : n \in DOMAIN d
    <3> HIDE DEF all
    <3>1. QED
      BY <1>6, MergedKeys
  <2>2. QED
    BY <1>4, <1>5, <2>1
<1>7. ASSUME NEW f \in FIELDS, f.name \in DOMAIN settings
      PROVE  f.name \in DOMAIN Merged(all) /\ Merged(all)[f.name] = Says(f, settings[f.name][p])
  <2>1. PICK i \in DOMAIN Sections : f \in ToldIn(i)
    BY <1>7 DEF ToldIn, FIELDS
  <2>2. \E d \in all : f.name \in DOMAIN d
    BY <1>5, <2>1
  <2>3. ASSUME NEW d \in all, f.name \in DOMAIN d PROVE d[f.name] = Says(f, settings[f.name][p])
    <3>1. PICK j \in DOMAIN Sections : d = ofSection(j)
      OBVIOUS
    <3>2. PICK g \in ToldIn(j) : f.name = g.name
      BY <1>5, <2>3, <3>1
    <3>3. g = f
      BY <1>3, <1>4, <3>2
    <3>4. QED
      BY <1>5, <3>1, <3>3
  <2> DEFINE v == Says(f, settings[f.name][p])
  <2> HIDE DEF v, all
  <2>4. QED
    BY <2>2, <2>3, MergedIs
<1>8. \A n \in DOMAIN settings : \E f \in FIELDS : n = f.name
  BY SwitchesAssumption
<1> HIDE DEF all
<1>9. QED
  BY <1>1, <1>6, <1>7, <1>8

(* What a line of a port must be.                                          *)
Tells(line, p) ==
  LET negotiates == settings["auto-negotiation"][p] IN
  /\ DOMAIN line.tags = DOMAIN settings \cap Tags
  /\ DOMAIN line.fields = (DOMAIN settings \ Tags)
                          \cup (IF negotiates THEN {"advertised-speed"} ELSE {})
  /\ \A f \in FIELDS : f.name \in DOMAIN settings =>
       (IF f.name \in Tags THEN line.tags ELSE line.fields)[f.name] =
         IF f.name = "advertised-speed" /\ negotiates THEN "1000"
         ELSE Says(f, settings[f.name][p])

LEMMA Negotiating ==
  /\ "auto-negotiation" \notin Tags /\ "advertised-speed" \notin Tags
  /\ "auto-negotiation" # "advertised-speed"
  /\ \A f \in FIELDS : f.name = "auto-negotiation" => f.type = "bool"
  /\ \E f \in FIELDS : f.name = "auto-negotiation"
<1>1. /\ "auto-negotiation" \notin Tags /\ "advertised-speed" \notin Tags
      /\ "auto-negotiation" # "advertised-speed"
  BY DEF Tags
<1> DEFINE an == Bool("an", "auto-negotiation")
<1>2. an.name = "auto-negotiation" /\ an.type = "bool"
  BY DEF Bool, Field
<1>3. an \in Link
  <2> HIDE DEF an
  <2>1. QED
    BY DEF Link, an
<1> HIDE DEF an
<1>4. Link \subseteq FIELDS
  <2>1. 1 \in DOMAIN Sections /\ Sections[1] = Link
    BY DEF Sections
  <2>2. QED
    BY <2>1 DEF FIELDS
<1>5. \A f \in FIELDS : f.name = an.name => f = an
  BY <1>3, <1>4, FieldsAssumption
<1>6. QED
  BY <1>1, <1>2, <1>3, <1>4, <1>5

LEMMA LineTells ==
  ASSUME settings \in Switches, "auto-negotiation" \in DOMAIN settings, NEW p \in Ports
  PROVE  Tells(LineOf(p), p)
<1> DEFINE values == Values(p)
<1> DEFINE fields == [n \in DOMAIN values \ Tags |-> values[n]]
<1> DEFINE tags == [n \in DOMAIN values \cap Tags |-> values[n]]
<1> DEFINE negotiates == settings["auto-negotiation"][p]
<1>1. /\ DOMAIN values = DOMAIN settings
      /\ \A f \in FIELDS : f.name \in DOMAIN settings =>
           values[f.name] = Says(f, settings[f.name][p])
  BY ValuesAre
<1>2. LineOf(p).tags = tags
  BY DEF LineOf
<1>3. LineOf(p).fields =
        IF fields["auto-negotiation"]
        THEN [n \in DOMAIN fields \cup {"advertised-speed"} |->
                IF n = "advertised-speed" THEN "1000" ELSE fields[n]]
        ELSE fields
  BY DEF LineOf
<1> HIDE DEF values
<1>4. DOMAIN tags = DOMAIN settings \cap Tags /\ DOMAIN fields = DOMAIN settings \ Tags
  BY <1>1
<1>5. \A f \in FIELDS : f.name \in DOMAIN settings =>
        (IF f.name \in Tags THEN tags ELSE fields)[f.name] = Says(f, settings[f.name][p])
  BY <1>1
<1>6. negotiates \in BOOLEAN /\ fields["auto-negotiation"] = negotiates
  <2>1. PICK f \in FIELDS : f.name = "auto-negotiation"
    BY Negotiating
  <2>2. f.type = "bool" /\ f.name \notin Tags
    BY <2>1, Negotiating
  <2>3. Says(f, negotiates) = negotiates
    BY <2>2 DEF Says
  <2>4. negotiates \in Settings(f)
    BY <2>1, SwitchesAssumption
  <2> HIDE DEF fields, tags
  <2>5. QED
    BY <1>5, <2>1, <2>2, <2>3, <2>4 DEF Settings
<1> HIDE DEF fields, tags, negotiates
<1> DEFINE line == LineOf(p)
<1>7. line.tags = tags /\ DOMAIN line.fields = (DOMAIN settings \ Tags)
                          \cup (IF negotiates THEN {"advertised-speed"} ELSE {})
  BY <1>2, <1>3, <1>4, <1>6
<1>8. \A n \in DOMAIN fields : line.fields[n] =
        IF n = "advertised-speed" /\ negotiates THEN "1000" ELSE fields[n]
  BY <1>3, <1>6
<1> HIDE DEF line
<1>9. ASSUME NEW f \in FIELDS, f.name \in DOMAIN settings
      PROVE  (IF f.name \in Tags THEN line.tags ELSE line.fields)[f.name] =
               IF f.name = "advertised-speed" /\ negotiates THEN "1000"
               ELSE Says(f, settings[f.name][p])
  <2>1. f.name \in Tags => f.name # "advertised-speed"
    BY Negotiating
  <2>2. f.name \notin Tags => f.name \in DOMAIN fields
    BY <1>4, <1>9
  <2>3. QED
    BY <1>5, <1>7, <1>8, <1>9, <2>1, <2>2
<1>10. QED
  BY <1>4, <1>7, <1>9 DEF Tells, line, negotiates

LinesInv == settings \in Switches /\ \A p \in DOMAIN portLines : Tells(portLines[p], p)

LEMMA LinesAre == LinesInv => LinesTell
<1> SUFFICES ASSUME LinesInv, NEW p \in DOMAIN portLines
             PROVE  LET tags == portLines[p].tags
                        fields == portLines[p].fields
                        negotiates == settings["auto-negotiation"][p]
                    IN
                    /\ DOMAIN tags = DOMAIN settings \cap Tags
                    /\ DOMAIN fields = (DOMAIN settings \ Tags)
                                       \cup (IF negotiates THEN {"advertised-speed"} ELSE {})
                    /\ \A f \in {g \in FIELDS : g.name \in DOMAIN settings} :
                         (IF f.name \in Tags THEN tags ELSE fields)[f.name] =
                           IF f.name = "advertised-speed" /\ negotiates THEN "1000"
                           ELSE Says(f, settings[f.name][p])
  BY DEF LinesTell, Says
<1>1. Tells(portLines[p], p)
  BY DEF LinesInv
<1>2. QED
  BY <1>1 DEF Tells

(* LinesTell holds of any switch: the line of a port says what the switch  *)
(* is set to at that port, and of nothing else.                            *)
THEOREM LinesAlways == SwitchSpec => []LinesTell
<1>1. SwitchInit => LinesInv
  BY DEF SwitchInit, LinesInv
<1>2. LinesInv /\ [SwitchNext]_switchVars => LinesInv'
  <2> SUFFICES ASSUME LinesInv, [SwitchNext]_switchVars PROVE LinesInv'
    OBVIOUS
  <2>1. settings' = settings /\ settings \in Switches
    BY DEF LinesInv, SwitchNext, Poll, switchVars
  <2>2. CASE portLines' = portLines
    BY <2>1, <2>2 DEF LinesInv, Tells
  <2>3. CASE Poll /\ "auto-negotiation" \in DOMAIN settings
    <3>1. portLines' = [p \in Ports |-> LineOf(p)]
      BY <2>3 DEF Poll
    <3>2. \A p \in Ports : Tells(LineOf(p), p)
      BY <2>1, <2>3, LineTells
    <3>3. \A p \in DOMAIN portLines' : Tells(portLines'[p], p)
      BY <3>1, <3>2
    <3>4. (\A p \in DOMAIN portLines : Tells(portLines[p], p))'
      BY <2>1, <3>3 DEF Tells
    <3>5. QED
      BY <2>1, <3>4 DEF LinesInv
  <2>4. QED
    BY <2>2, <2>3 DEF SwitchNext, Poll, switchVars
<1>3. QED
  BY <1>1, <1>2, LinesAre, PTL DEF SwitchSpec

-----------------------------------------------------------------------------
(* QtExtract.                                                              *)

(* Counting the words before a sequence, one sequence at a time.           *)
LEMMA BeforeIs ==
  ASSUME NEW W, NEW s \in Seq(Seq(W))
  PROVE  /\ Before(s, 1) = 0
         /\ \A k \in 1..Len(s) : /\ Before(s, k) \in Nat
                                 /\ Before(s, k + 1) = Before(s, k) + Len(s[k])
<1> DEFINE l == [j \in DOMAIN s |-> Len(s[j])]
<1> DEFINE n == Len(s)
<1>1. /\ n \in Nat /\ DOMAIN s = 1..n
      /\ \A j \in 1..n : s[j] \in Seq(W) /\ l[j] = Len(s[j]) /\ l[j] \in Nat
  OBVIOUS
<1>2. \A k : Before(s, k) = SumFunctionOnSet(l, 1..(k - 1))
  BY DEF Before
<1> HIDE DEF l, n
<1>3. Before(s, 1) = 0
  <2>1. 1..(1 - 1) = {}
    OBVIOUS
  <2>2. QED
    BY <1>2, <2>1, SumEmpty
<1>4. ASSUME NEW k \in 1..n
      PROVE  Before(s, k) \in Int /\ Before(s, k + 1) = Before(s, k) + Len(s[k])
  <2>1. /\ 1..((k + 1) - 1) = (1..(k - 1)) \cup {k} /\ k \notin 1..(k - 1)
        /\ 1..(k - 1) \subseteq 1..n /\ 1 \in Int /\ k - 1 \in Int
    BY <1>1
  <2>2. IsFiniteSet(1..(k - 1))
    BY <2>1, FS_Interval
  <2>3. \A j \in (1..(k - 1)) \cup {k} : l[j] \in Int
    BY <1>1, <2>1
  <2>4. SumFunctionOnSet(l, (1..(k - 1)) \cup {k}) = SumFunctionOnSet(l, 1..(k - 1)) + l[k]
    BY <2>1, <2>2, <2>3, SumAdd, Zenon
  <2>5. SumFunctionOnSet(l, 1..(k - 1)) \in Int
    BY <2>2, <2>3, SumType
  <2>6. QED
    BY <1>1, <1>2, <2>1, <2>4, <2>5
<1>5. \A k \in 1..n : Before(s, k) \in Nat
  <2> DEFINE N == {m \in Nat : m + 1 \in 1..n => Before(s, m + 1) \in Nat}
  <2>1. 0 \in N
    BY <1>3
  <2>2. ASSUME NEW m \in N PROVE m + 1 \in N
    <3>1. SUFFICES ASSUME (m + 1) + 1 \in 1..n PROVE Before(s, (m + 1) + 1) \in Nat
      OBVIOUS
    <3>2. m + 1 \in 1..n /\ Before(s, m + 1) \in Nat
      BY <1>1, <3>1
    <3>3. Before(s, (m + 1) + 1) = Before(s, m + 1) + Len(s[m + 1]) /\ Len(s[m + 1]) \in Nat
      BY <1>1, <1>4, <3>2
    <3>4. QED
      BY <3>2, <3>3
  <2>3. N = Nat
    <3>1. N \in SUBSET Nat
      OBVIOUS
    <3> HIDE DEF N
    <3>2. QED
      BY <2>1, <2>2, <3>1, NatInd
  <2>4. ASSUME NEW k \in 1..n PROVE Before(s, k) \in Nat
    <3>1. k - 1 \in Nat /\ (k - 1) + 1 = k
      BY <1>1
    <3>2. k - 1 \in N
      BY <2>3, <3>1
    <3>3. QED
      BY <3>1, <3>2
  <2>5. QED
    BY <2>4
<1>6. QED
  BY <1>3, <1>4, <1>5 DEF n

(* The first m of the sequences are in u, each behind those before it.     *)
InTurn(s, m, u) ==
  /\ Len(u) = Before(s, m + 1)
  /\ \A k \in 1..m : /\ Before(s, k) \in Nat /\ Before(s, k) + Len(s[k]) <= Len(u)
                     /\ \A j \in 1..Len(s[k]) : u[Before(s, k) + j] = s[k][j]

LEMMA InTurnNext ==
  ASSUME NEW W, NEW s \in Seq(Seq(W)), NEW m \in Nat, m + 1 \in 1..Len(s),
         NEW u \in Seq(W), InTurn(s, m, u)
  PROVE  u \o s[m + 1] \in Seq(W) /\ InTurn(s, m + 1, u \o s[m + 1])
<1> DEFINE v == s[m + 1]
<1> DEFINE w == u \o v
<1>1. /\ v \in Seq(W) /\ Len(v) \in Nat /\ Len(u) \in Nat
      /\ \A k \in 1..m : s[k] \in Seq(W) /\ Len(s[k]) \in Nat
  OBVIOUS
<1>2. /\ w \in Seq(W) /\ Len(w) = Len(u) + Len(v)
      /\ \A i \in 1..Len(u) : w[i] = u[i]
  BY <1>1
<1>3. \A i \in 1..Len(v) : w[Len(u) + i] = v[i]
  <2>1. ASSUME NEW i \in 1..Len(v) PROVE w[Len(u) + i] = v[i]
    <3>1. Len(u) + i \in 1..(Len(u) + Len(v)) /\ ~(Len(u) + i <= Len(u))
      BY <1>1
    <3>2. QED
      BY <1>1, <3>1
  <2>2. QED
    BY <2>1
<1>4. Before(s, m + 1) = Len(u) /\ Before(s, (m + 1) + 1) = Len(u) + Len(v)
  BY BeforeIs DEF InTurn
<1> HIDE DEF w, v
<1>5. ASSUME NEW k \in 1..(m + 1)
      PROVE  /\ Before(s, k) \in Nat /\ Before(s, k) + Len(s[k]) <= Len(w)
             /\ \A j \in 1..Len(s[k]) : w[Before(s, k) + j] = s[k][j]
  <2>1. CASE k = m + 1
    <3>1. Before(s, k) = Len(u) /\ s[k] = v
      BY <1>4, <2>1 DEF v
    <3>2. QED
      BY <1>1, <1>2, <1>3, <3>1
  <2>2. CASE k # m + 1
    <3>1. /\ k \in 1..m /\ Before(s, k) \in Nat /\ Before(s, k) + Len(s[k]) <= Len(u)
          /\ \A j \in 1..Len(s[k]) : u[Before(s, k) + j] = s[k][j]
      <4>1. k \in 1..m
        BY <2>2
      <4>2. QED
        BY <4>1 DEF InTurn
    <3>2. ASSUME NEW j \in 1..Len(s[k]) PROVE w[Before(s, k) + j] = s[k][j]
      <4>1. Before(s, k) + j \in 1..Len(u)
        <5>1. Len(s[k]) \in Nat
          BY <1>1, <3>1
        <5> DEFINE b == Before(s, k)
        <5>2. b \in Nat /\ b + Len(s[k]) <= Len(u) /\ Len(u) \in Nat
          BY <1>1, <3>1
        <5> HIDE DEF b
        <5>3. b + j \in 1..Len(u)
          BY <5>1, <5>2
        <5>4. QED
          BY <5>3 DEF b
      <4>2. QED
        BY <1>2, <3>1, <4>1
    <3>3. Before(s, k) + Len(s[k]) <= Len(w)
      <4> DEFINE b == Before(s, k) + Len(s[k])
      <4>1. b <= Len(u) /\ b \in Int
        <5>1. Len(s[k]) \in Nat
          BY <1>1, <3>1
        <5>2. b \in Int
          BY <3>1, <5>1
        <5>3. QED
          BY <3>1, <5>2
      <4> HIDE DEF b
      <4>2. b <= Len(w)
        BY <1>1, <1>2, <4>1
      <4>3. QED
        BY <4>2 DEF b
    <3>4. QED
      BY <3>1, <3>2, <3>3
  <2>3. QED
    BY <2>1, <2>2
<1>6. QED
  BY <1>2, <1>4, <1>5 DEF InTurn, w, v

LEMMA FlatInTurn ==
  ASSUME NEW W, NEW s \in Seq(Seq(W))
  PROVE  FlattenSeq(s) \in Seq(W) /\ InTurn(s, Len(s), FlattenSeq(s))
<1> DEFINE n == Len(s)
<1>0. n \in Nat /\ \A i \in 1..n : s[i] \in Seq(W)
  OBVIOUS
<1>1. CASE n = 0
  <2>1. s = <<>> /\ FlattenSeq(s) = s
    BY <1>1 DEF FlattenSeq
  <2>2. Before(s, 0 + 1) = 0
    BY BeforeIs
  <2>3. s \in Seq(W) /\ Len(s) = 0 /\ 1..0 = {}
    BY <2>1
  <2>4. QED
    BY <2>1, <2>2, <2>3 DEF InTurn
<1>2. CASE n # 0
  <2> DEFINE IsFlat(f) == f = [i \in 1..n |-> IF i = 1 THEN s[i] ELSE f[i - 1] \o s[i]]
  <2> DEFINE f == CHOOSE f : IsFlat(f)
  <2>1. FlattenSeq(s) = f[n]
    BY <1>0, <1>2 DEF FlattenSeq
  <2>2. \E g : IsFlat(g)
    <3> DEFINE step == [x \in Seq(W) \X Nat |-> IF x[2] \in 1..n THEN x[1] \o s[x[2]] ELSE x[1]]
    <3>1. step \in [Seq(W) \X Nat -> Seq(W)]
      <4>1. ASSUME NEW u \in Seq(W), NEW i \in 1..n PROVE u \o s[i] \in Seq(W)
        BY <1>0
      <4>2. QED
        BY <4>1
    <3>2. <<>> \in Seq(W)
      OBVIOUS
    <3>3. PICK r : IsRecursion(r, Seq(W), <<>>, step)
      <4> HIDE DEF step
      <4>1. QED
        BY <3>1, <3>2, NatRec
    <3>4. r[0] = <<>> /\ \A i \in Nat : r[i] \in Seq(W) /\ r[i + 1] = step[<<r[i], i + 1>>]
      BY <3>3 DEF IsRecursion
    <3>5. ASSUME NEW i \in 1..n PROVE r[i] = r[i - 1] \o s[i]
      <4>0. i - 1 \in Nat /\ (i - 1) + 1 = i /\ i \in Nat
        BY <1>0
      <4>1. i - 1 \in Nat /\ (i - 1) + 1 = i /\ <<r[i - 1], i>> \in Seq(W) \X Nat
        BY <3>4, <4>0
      <4>2. r[i] = step[<<r[i - 1], i>>]
        BY <3>4, <4>1
      <4>3. QED
        BY <4>1, <4>2
    <3> HIDE DEF step
    <3>6. \A i \in 1..n : r[i] = IF i = 1 THEN s[i] ELSE r[i - 1] \o s[i]
      <4>1. 1 \in 1..n => r[1] = s[1]
        <5>1. ASSUME NEW v \in Seq(W) PROVE <<>> \o v = v
          OBVIOUS
        <5>2. ASSUME 1 \in 1..n PROVE r[1] = r[0] \o s[1] /\ s[1] \in Seq(W)
          <6>1. 1 - 1 = 0
            OBVIOUS
          <6>2. QED
            BY <1>0, <3>5, <5>2, <6>1
        <5>3. QED
          BY <3>4, <5>1, <5>2
      <4>2. QED
        BY <3>5, <4>1
    <3> DEFINE g == [i \in 1..n |-> r[i]]
    <3>7. \A i \in 1..n : g[i] = IF i = 1 THEN s[i] ELSE g[i - 1] \o s[i]
      <4>1. ASSUME NEW i \in 1..n, i # 1 PROVE g[i] = g[i - 1] \o s[i]
        <5>1. i - 1 \in 1..n
          BY <1>0, <4>1
        <5>2. QED
          BY <3>6, <4>1, <5>1
      <4>2. QED
        BY <3>6, <4>1
    <3>8. IsFlat(g)
      BY <3>7
    <3>9. QED
      BY <3>8
  <2>3. IsFlat(f)
    <3> HIDE DEF IsFlat
    <3>1. QED
      BY <2>2
  <2>4. f[1] = s[1] /\ \A i \in 1..(n - 1) : f[i + 1] = f[i] \o s[i + 1]
    <3>1. \A i \in 1..n : f[i] = IF i = 1 THEN s[i] ELSE f[i - 1] \o s[i]
      <4> HIDE DEF f
      <4>1. QED
        BY <2>3
    <3> HIDE DEF f
    <3>2. 1 \in 1..n /\ \A i \in 1..(n - 1) : i + 1 \in 1..n /\ i + 1 # 1 /\ (i + 1) - 1 = i
      BY <1>0, <1>2
    <3>3. QED
      BY <3>1, <3>2
  <2> HIDE DEF f, IsFlat
  <2> DEFINE N == {m \in Nat : m + 1 \in 1..n => f[m + 1] \in Seq(W) /\ InTurn(s, m + 1, f[m + 1])}
  <2>5. 0 \in N
    <3>1. <<>> \in Seq(W) /\ <<>> \o s[1] = s[1] /\ 0 + 1 = 1 /\ 0 \in Nat /\ 1 \in 1..n
      BY <1>0, <1>2
    <3>2. InTurn(s, 0, <<>>)
      BY <3>1, BeforeIs DEF InTurn
    <3>3. <<>> \o s[0 + 1] \in Seq(W) /\ InTurn(s, 0 + 1, <<>> \o s[0 + 1])
      BY <3>1, <3>2, InTurnNext
    <3>4. QED
      BY <2>4, <3>1, <3>3
  <2>6. ASSUME NEW m \in N PROVE m + 1 \in N
    <3>1. SUFFICES ASSUME (m + 1) + 1 \in 1..n
                   PROVE  f[(m + 1) + 1] \in Seq(W) /\ InTurn(s, (m + 1) + 1, f[(m + 1) + 1])
      OBVIOUS
    <3>2. m \in Nat /\ m + 1 \in Nat /\ m + 1 \in 1..(n - 1) /\ m + 1 \in 1..n
      BY <1>0, <3>1
    <3>3. f[m + 1] \in Seq(W) /\ InTurn(s, m + 1, f[m + 1])
      BY <3>2
    <3> HIDE DEF N
    <3>4. f[(m + 1) + 1] = f[m + 1] \o s[(m + 1) + 1]
      BY <2>4, <3>2
    <3>5. QED
      BY <3>1, <3>2, <3>3, <3>4, InTurnNext
  <2>7. N = Nat
    <3>1. N \in SUBSET Nat
      OBVIOUS
    <3> HIDE DEF N
    <3>2. QED
      BY <2>5, <2>6, <3>1, NatInd
  <2>8. n - 1 \in Nat /\ (n - 1) + 1 = n /\ n \in 1..n
    BY <1>0, <1>2
  <2>10. n - 1 \in N
    BY <2>7, <2>8
  <2>9. QED
    BY <2>1, <2>8, <2>10
<1>3. QED
  BY <1>1, <1>2

-----------------------------------------------------------------------------
(* w is in f behind the first pos words.                                   *)
Lies(f, pos, w) ==
  /\ pos \in Nat /\ pos + Len(w) <= Len(f)
  /\ \A j \in 1..Len(w) : f[pos + j] = w[j]

LEMMA LiesBoth ==
  ASSUME NEW f, NEW pos, NEW u \in Seq(Int), NEW v \in Seq(Int), Lies(f, pos, u \o v),
         Len(f) \in Nat
  PROVE  Lies(f, pos, u) /\ Lies(f, pos + Len(u), v)
<1>1. /\ Len(u) \in Nat /\ Len(v) \in Nat /\ Len(u \o v) = Len(u) + Len(v)
      /\ pos \in Nat /\ pos + (Len(u) + Len(v)) <= Len(f)
  BY DEF Lies
<1>2. \A j \in 1..Len(u) : (u \o v)[j] = u[j]
  OBVIOUS
<1>3. ASSUME NEW j \in 1..Len(v) PROVE Len(u) + j \in 1..Len(u \o v) /\ (u \o v)[Len(u) + j] = v[j]
  <2>1. Len(u) + j \in 1..(Len(u) + Len(v)) /\ ~(Len(u) + j <= Len(u)) /\ (Len(u) + j) - Len(u) = j
    BY <1>1
  <2>2. QED
    BY <1>1, <2>1
<1>4. Lies(f, pos, u)
  <2>1. \A j \in 1..Len(u) : j \in 1..Len(u \o v)
    BY <1>1
  <2>2. pos + Len(u) <= Len(f)
    BY <1>1
  <2>3. QED
    BY <1>1, <1>2, <2>1, <2>2 DEF Lies
<1>5. Lies(f, pos + Len(u), v)
  <2>1. ASSUME NEW j \in 1..Len(v) PROVE f[(pos + Len(u)) + j] = v[j]
    <3>1. f[pos + (Len(u) + j)] = (u \o v)[Len(u) + j] /\ (u \o v)[Len(u) + j] = v[j]
      BY <1>3 DEF Lies
    <3>2. (pos + Len(u)) + j = pos + (Len(u) + j)
      BY <1>1
    <3>3. QED
      BY <3>1, <3>2
  <2>2. pos + Len(u) \in Nat /\ (pos + Len(u)) + Len(v) <= Len(f)
    BY <1>1
  <2>3. QED
    BY <2>1, <2>2 DEF Lies
<1>6. QED
  BY <1>4, <1>5

LEMMA LiesEach ==
  ASSUME NEW f, NEW pos, NEW s \in Seq(Seq(Int)), Lies(f, pos, FlattenSeq(s)),
         Len(f) \in Nat, NEW k \in 1..Len(s)
  PROVE  Lies(f, pos + Before(s, k), s[k])
<1> DEFINE u == FlattenSeq(s)
<1> DEFINE b == Before(s, k)
<1>1. /\ u \in Seq(Int) /\ b \in Nat /\ b + Len(s[k]) <= Len(u)
      /\ \A j \in 1..Len(s[k]) : u[b + j] = s[k][j]
  BY FlatInTurn DEF InTurn
<1>2. pos \in Nat /\ Len(u) \in Nat /\ pos + Len(u) <= Len(f) /\ Len(s[k]) \in Nat
  BY <1>1 DEF Lies
<1>3. \A j \in 1..Len(u) : f[pos + j] = u[j]
  BY DEF Lies
<1> HIDE DEF u, b
<1>4. ASSUME NEW j \in 1..Len(s[k]) PROVE f[(pos + b) + j] = s[k][j]
  <2> DEFINE l == Len(s[k])
  <2>0. l \in Nat /\ b \in Nat /\ b + l <= Len(u) /\ j \in 1..l
    BY <1>1, <1>2
  <2>1. b + j \in 1..Len(u) /\ (pos + b) + j = pos + (b + j)
    <3> HIDE DEF l
    <3>1. QED
      BY <1>2, <2>0
  <2>2. QED
    BY <1>1, <1>3, <2>1
<1>5. pos + b \in Nat /\ (pos + b) + Len(s[k]) <= Len(f)
  <2> DEFINE l == Len(s[k])
  <2> DEFINE m == Len(u)
  <2>1. l \in Nat /\ b \in Nat /\ m \in Nat /\ b + l <= m /\ pos \in Nat /\ pos + m <= Len(f)
    BY <1>1, <1>2
  <2> HIDE DEF l, m, b
  <2>2. pos + b \in Nat /\ (pos + b) + l <= Len(f)
    BY <2>1
  <2>3. QED
    BY <2>2 DEF l
<1>6. QED
  BY <1>4, <1>5 DEF Lies, b

(* Sequences of one length.                                                *)
LEMMA Alike ==
  ASSUME NEW W, NEW s \in Seq(Seq(W)), NEW c \in Nat, \A k \in 1..Len(s) : Len(s[k]) = c
  PROVE  \A k \in 0..Len(s) : Before(s, k + 1) = c * k
<1> DEFINE n == Len(s)
<1> DEFINE N == {k \in Nat : k <= n => Before(s, k + 1) = c * k}
<1>0. n \in Nat
  OBVIOUS
<1>1. 0 \in N
  <2>1. 0 + 1 = 1 /\ c * 0 = 0
    OBVIOUS
  <2>2. QED
    BY <2>1, BeforeIs
<1>2. ASSUME NEW k \in N PROVE k + 1 \in N
  <2>1. SUFFICES ASSUME k + 1 <= n PROVE Before(s, (k + 1) + 1) = c * (k + 1)
    OBVIOUS
  <2>2. k \in Nat /\ k + 1 \in 1..n /\ Before(s, k + 1) = c * k
    BY <1>0, <2>1
  <2>3. Before(s, (k + 1) + 1) = Before(s, k + 1) + Len(s[k + 1]) /\ Len(s[k + 1]) = c
    BY <2>2, BeforeIs
  <2> HIDE DEF N, n
  <2>4. c * (k + 1) = c * k + c
    BY <2>2
  <2>5. QED
    BY <2>2, <2>3, <2>4
<1>3. N = Nat
  <2>1. N \in SUBSET Nat
    OBVIOUS
  <2> HIDE DEF N
  <2>2. QED
    BY <1>1, <1>2, <2>1, NatInd
<1>4. ASSUME NEW k \in 0..Len(s) PROVE Before(s, k + 1) = c * k
  <2>1. k \in Nat /\ k <= n
    BY <1>0
  <2>2. k \in N
    BY <1>3, <2>1
  <2>3. QED
    BY <2>1, <2>2
<1>5. QED
  BY <1>4

(* Arrays of names and ranges.                                             *)
Fours(entries) ==
  entries \in Seq(Seq(Int)) /\ \A k \in 1..Len(entries) : Len(entries[k]) = 4

LEMMA FoursAre ==
  ASSUME NEW n \in Nat, NEW e, DOMAIN e = 1..n, e = [k \in 1..n |-> e[k]],
         \A k \in 1..n : \E a \in Int, b \in Int, c \in Int : e[k] = Entry(a, b, c)
  PROVE  Fours(e) /\ Len(e) = n
<1>1. ASSUME NEW k \in 1..n PROVE e[k] \in Seq(Int) /\ Len(e[k]) = 4
  <2>1. PICK a \in Int, b \in Int, c \in Int : e[k] = <<1, a, b, c>>
    BY DEF Entry
  <2>2. <<1, a, b, c>> \in Seq(Int) /\ Len(<<1, a, b, c>>) = 4
    OBVIOUS
  <2>3. QED
    BY <2>1, <2>2
<1>2. e \in Seq(Seq(Int)) /\ Len(e) = n
  <2>1. e \in [1..n -> Seq(Int)]
    BY <1>1
  <2>2. QED
    BY <2>1
<1>3. QED
  BY <1>1, <1>2 DEF Fours

LEMMA ListingIs ==
  ASSUME NEW entries, Fours(entries)
  PROVE  /\ Listing(entries) \in Seq(Int) /\ Len(Listing(entries)) \in Nat
         /\ <<Len(entries)>> \in Seq(Int) /\ FlattenSeq(entries) \in Seq(Int)
<1>1. FlattenSeq(entries) \in Seq(Int) /\ Len(entries) \in Nat
  BY FlatInTurn DEF Fours
<1>2. <<Len(entries)>> \in Seq(Int)
  BY <1>1
<1>3. QED
  BY <1>1, <1>2 DEF Listing

LEMMA LiesListing ==
  ASSUME NEW f, NEW pos, NEW entries, Fours(entries), Lies(f, pos, Listing(entries)),
         Len(f) \in Nat
  PROVE  /\ pos \in Nat /\ f[pos + 1] = Len(entries) /\ Len(entries) \in Nat
         /\ \A k \in 1..Len(entries), j \in 1..4 :
              f[pos + 4 * k - 3 + j] = entries[k][j]
<1> DEFINE n == Len(entries)
<1>1. n \in Nat /\ <<n>> \in Seq(Int) /\ FlattenSeq(entries) \in Seq(Int) /\ Len(<<n>>) = 1
  BY ListingIs DEF Fours
<1>2. Lies(f, pos, <<n>>) /\ Lies(f, pos + 1, FlattenSeq(entries))
  <2>1. Lies(f, pos, <<n>> \o FlattenSeq(entries))
    BY DEF Listing
  <2>2. QED
    BY <1>1, <2>1, LiesBoth
<1>3. pos \in Nat /\ f[pos + 1] = n
  BY <1>1, <1>2 DEF Lies
<1>4. ASSUME NEW k \in 1..n, NEW j \in 1..4 PROVE f[pos + 4 * k - 3 + j] = entries[k][j]
  <2>1. Lies(f, pos + 1 + Before(entries, k), entries[k]) /\ Len(entries[k]) = 4
    BY <1>2, LiesEach DEF Fours
  <2>2. k - 1 \in 0..n /\ (k - 1) + 1 = k
    BY <1>1
  <2>3. Before(entries, (k - 1) + 1) = 4 * (k - 1)
    BY <2>2, Alike DEF Fours
  <2>4. f[pos + 1 + Before(entries, k) + j] = entries[k][j] /\ Before(entries, k) = 4 * (k - 1)
    BY <2>1, <2>2, <2>3 DEF Lies
  <2>5. pos + 1 + 4 * (k - 1) + j = pos + 4 * k - 3 + j
    BY <1>1, <1>3
  <2>6. QED
    BY <2>4, <2>5
<1>5. QED
  BY <1>1, <1>3, <1>4

-----------------------------------------------------------------------------
(* The parts of an installer.                                              *)
AResource == [name : Int, data : Seq(Int)]

LEMMA ResourcesAre ==
  ASSUME NEW i \in Installers
  PROVE  /\ i.collections \in Seq(Seq(AResource)) /\ Resources(i) \in Seq(AResource)
         /\ Pieces(i) \in Seq(Seq(Int)) /\ DataOf(i) \in Seq(Int) /\ Len(DataOf(i)) \in Nat
         /\ \A c \in 1..Len(i.collections) : \A r \in 1..Len(i.collections[c]) :
              /\ Before(i.collections, c) + r \in 1..Len(Pieces(i))
              /\ Pieces(i)[Before(i.collections, c) + r] = i.collections[c][r].data
<1> DEFINE all == Resources(i)
<1> DEFINE cs == i.collections
<1>1. cs \in Seq(Seq(AResource))
  BY InstallersAssumption DEF AResource
<1> HIDE DEF cs
<1>2. all \in Seq(AResource) /\ InTurn(cs, Len(cs), all)
  BY <1>1, FlatInTurn DEF Resources, cs
<1>3. Pieces(i) = [k \in 1..Len(all) |-> all[k].data] /\ Len(all) \in Nat
  BY <1>2 DEF Pieces
<1> HIDE DEF all
<1>4. \A k \in 1..Len(all) : all[k].data \in Seq(Int)
  <2>1. \A k \in 1..Len(all) : all[k] \in AResource
    BY <1>2
  <2>2. QED
    BY <2>1 DEF AResource
<1>5. Pieces(i) \in Seq(Seq(Int)) /\ Len(Pieces(i)) = Len(all)
  BY <1>3, <1>4
<1>6. DataOf(i) \in Seq(Int)
  BY <1>5, FlatInTurn DEF DataOf
<1>7. ASSUME NEW c \in 1..Len(cs), NEW r \in 1..Len(cs[c])
      PROVE  /\ Before(cs, c) + r \in 1..Len(Pieces(i))
             /\ Pieces(i)[Before(cs, c) + r] = cs[c][r].data
  <2> DEFINE b == Before(cs, c)
  <2> DEFINE l == Len(cs[c])
  <2>1. b \in Nat /\ b + l <= Len(all) /\ all[b + r] = cs[c][r] /\ l \in Nat /\ r \in 1..l
    BY <1>1, <1>2 DEF InTurn
  <2> HIDE DEF b, l
  <2>2. b + r \in 1..Len(all)
    BY <1>3, <2>1
  <2>3. QED
    BY <1>3, <1>5, <2>1, <2>2 DEF b
<1>8. Len(DataOf(i)) \in Nat
  BY <1>6
<1>9. QED
  BY <1>1, <1>2, <1>5, <1>6, <1>7, <1>8, Zenon DEF all, cs

SegmentEntries(i, c) ==
  [r \in DOMAIN i.collections[c] |->
     Entry(i.collections[c][r].name, Before(Pieces(i), Before(i.collections, c) + r),
           Len(i.collections[c][r].data))]

LEMMA SegmentIs ==
  ASSUME NEW i \in Installers, NEW c \in 1..Len(i.collections)
  PROVE  /\ SegmentOf(i, c) = Listing(SegmentEntries(i, c)) /\ Fours(SegmentEntries(i, c))
         /\ Len(SegmentEntries(i, c)) = Len(i.collections[c])
         /\ Len(i.collections[c]) \in Nat
<1> DEFINE n == Len(i.collections[c])
<1> DEFINE e == SegmentEntries(i, c)
<1>1. /\ n \in Nat /\ DOMAIN i.collections[c] = 1..n
      /\ \A r \in 1..n : i.collections[c][r] \in AResource
  <2>1. i.collections \in Seq(Seq(AResource))
    BY ResourcesAre
  <2>2. i.collections[c] \in Seq(AResource)
    BY <2>1
  <2>3. QED
    BY <2>2
<1>2. SegmentOf(i, c) = Listing(e)
  BY DEF SegmentOf, SegmentEntries
<1>3. ASSUME NEW r \in 1..n
      PROVE  \E name \in Int, start \in Int, size \in Int : e[r] = Entry(name, start, size)
  <2> DEFINE a == i.collections[c][r].name
  <2> DEFINE b == Before(Pieces(i), Before(i.collections, c) + r)
  <2> DEFINE l == Len(i.collections[c][r].data)
  <2>1. b \in Int
    <3>1. Pieces(i) \in Seq(Seq(Int)) /\ Before(i.collections, c) + r \in 1..Len(Pieces(i))
      BY ResourcesAre
    <3>2. QED
      BY <3>1, BeforeIs
  <2>2. a \in Int /\ l \in Int
    BY <1>1 DEF AResource
  <2>3. e[r] = Entry(a, b, l)
    BY <1>1 DEF SegmentEntries
  <2> HIDE DEF a, b, l, e
  <2>4. QED
    BY <2>1, <2>2, <2>3
<1>4. DOMAIN e = 1..n /\ e = [r \in 1..n |-> e[r]]
  BY <1>1 DEF SegmentEntries
<1> HIDE DEF e, n
<1>5. Fours(e) /\ Len(e) = n
  BY <1>1, <1>3, <1>4, FoursAre
<1>6. QED
  BY <1>1, <1>2, <1>5 DEF n, e

LEMMA SegmentsAre ==
  ASSUME NEW i \in Installers
  PROVE  /\ Segments(i) \in Seq(Seq(Int)) /\ Len(Segments(i)) = Len(i.collections)
         /\ Len(i.collections) \in Nat /\ DOMAIN i.collections = 1..Len(i.collections)
         /\ \A c \in 1..Len(i.collections) :
              Segments(i)[c] = Listing(SegmentEntries(i, c)) /\ Len(Segments(i)[c]) \in Nat
<1>1. Len(i.collections) \in Nat /\ DOMAIN i.collections = 1..Len(i.collections)
  <2>1. i.collections \in Seq(Seq(AResource))
    BY ResourcesAre
  <2>2. QED
    BY <2>1
<1>2. ASSUME NEW c \in 1..Len(i.collections)
      PROVE  /\ Segments(i)[c] = Listing(SegmentEntries(i, c))
             /\ Segments(i)[c] \in Seq(Int) /\ Len(Segments(i)[c]) \in Nat
  <2>1. Segments(i)[c] = Listing(SegmentEntries(i, c))
    BY <1>1, SegmentIs DEF Segments
  <2>2. QED
    BY <2>1, SegmentIs, ListingIs
<1> DEFINE n == Len(i.collections)
<1> DEFINE all == Segments(i)
<1>3. all = [c \in 1..n |-> all[c]] /\ n \in Nat
  BY <1>1 DEF Segments
<1>4. \A c \in 1..n : all[c] \in Seq(Int)
  BY <1>2
<1> HIDE DEF all, n
<1>5. all \in Seq(Seq(Int)) /\ Len(all) = n
  BY <1>3, <1>4
<1>6. QED
  BY <1>1, <1>2, <1>5 DEF all, n

IndexEntries(i) ==
  [c \in DOMAIN i.collections |->
     Entry(200 + c, Len(DataOf(i)) + Before(Segments(i), c), Len(Segments(i)[c]))]

LEMMA IndexIs ==
  ASSUME NEW i \in Installers
  PROVE  /\ IndexOf(i) = Listing(IndexEntries(i)) /\ Fours(IndexEntries(i))
         /\ Len(IndexEntries(i)) = Len(i.collections)
<1> DEFINE n == Len(i.collections)
<1> DEFINE e == IndexEntries(i)
<1>1. n \in Nat /\ DOMAIN i.collections = 1..n
  BY SegmentsAre
<1>2. IndexOf(i) = Listing(e)
  BY DEF IndexOf, IndexEntries
<1>3. ASSUME NEW c \in 1..n
      PROVE  \E name \in Int, start \in Int, size \in Int : e[c] = Entry(name, start, size)
  <2> DEFINE b == Len(DataOf(i)) + Before(Segments(i), c)
  <2> DEFINE l == Len(Segments(i)[c])
  <2>1. b \in Int
    <3>1. Before(Segments(i), c) \in Int
      BY SegmentsAre, BeforeIs
    <3>2. QED
      BY <3>1, ResourcesAre
  <2>2. 200 + c \in Int /\ l \in Int
    <3>1. l \in Nat
      BY SegmentsAre
    <3>2. QED
      BY <3>1
  <2>3. e[c] = Entry(200 + c, b, l)
    BY <1>1 DEF IndexEntries
  <2> HIDE DEF b, l, e
  <2>4. QED
    BY <2>1, <2>2, <2>3
<1>4. DOMAIN e = 1..n /\ e = [c \in 1..n |-> e[c]]
  BY <1>1 DEF IndexEntries
<1> HIDE DEF e, n
<1>5. Fours(e) /\ Len(e) = n
  BY <1>1, <1>3, <1>4, FoursAre
<1>6. QED
  BY <1>2, <1>5 DEF n, e

(* The descriptor: two words for each meta resource, and four more.        *)
LEMMA PartsAre ==
  ASSUME NEW i \in Installers
  PROVE  /\ Body(i) \in Seq(Int) /\ Len(Body(i)) \in Nat
         /\ IndexOf(i) \in Seq(Int) /\ Len(IndexOf(i)) \in Nat
         /\ Operations \in Seq(Int) /\ Len(Operations) = 2
         /\ Descriptor(i) \in Seq(Int) /\ Len(Descriptor(i)) = 2 * i.metas + 4
         /\ Descriptor(i)[1] = Len(Body(i)) /\ Descriptor(i)[2] = Len(IndexOf(i))
<1>1. Body(i) \in Seq(Int) /\ Len(Body(i)) \in Nat
  <2>1. DataOf(i) \in Seq(Int) /\ FlattenSeq(Segments(i)) \in Seq(Int)
    BY ResourcesAre, SegmentsAre, FlatInTurn
  <2>2. QED
    BY <2>1 DEF Body
<1>2. IndexOf(i) \in Seq(Int) /\ Len(IndexOf(i)) \in Nat
  BY IndexIs, ListingIs
<1>3. Operations \in Seq(Int) /\ Len(Operations) = 2
  BY DEF Operations
<1> DEFINE a == Len(Body(i))
<1> DEFINE b == Len(IndexOf(i))
<1> DEFINE l == Len(DataOf(i))
<1> DEFINE m == i.metas
<1> DEFINE s == [k \in 1..m |-> <<0, l>>]
<1>4. m \in Nat /\ l \in Nat /\ a \in Nat /\ b \in Nat
  BY <1>1, <1>2, ResourcesAre, InstallersAssumption
<1>5. Descriptor(i) = <<a, b>> \o FlattenSeq(s) \o <<a + b, 2>>
  BY <1>3 DEF Descriptor
<1> HIDE DEF a, b, l, m
<1>6. s \in Seq(Seq(Int)) /\ Len(s) = m /\ \A k \in 1..Len(s) : Len(s[k]) = 2
  <2>1. <<0, l>> \in Seq(Int) /\ Len(<<0, l>>) = 2
    BY <1>4
  <2>2. s \in [1..m -> Seq(Int)]
    BY <2>1
  <2>3. QED
    BY <1>4, <2>1, <2>2
<1> HIDE DEF s
<1>7. FlattenSeq(s) \in Seq(Int) /\ Len(FlattenSeq(s)) = 2 * m
  <2>1. FlattenSeq(s) \in Seq(Int) /\ Len(FlattenSeq(s)) = Before(s, m + 1)
    BY <1>6, FlatInTurn DEF InTurn
  <2>2. m \in 0..Len(s)
    BY <1>4, <1>6
  <2>3. Before(s, m + 1) = 2 * m
    BY <1>6, <2>2, Alike
  <2>4. QED
    BY <2>1, <2>3
<1> DEFINE u == FlattenSeq(s)
<1>8. ASSUME NEW w \in Seq(Int), NEW x \in Int, NEW y \in Int, NEW z \in Int
      PROVE  /\ <<x, y>> \o w \o <<z, 2>> \in Seq(Int)
             /\ Len(<<x, y>> \o w \o <<z, 2>>) = Len(w) + 4
             /\ (<<x, y>> \o w \o <<z, 2>>)[1] = x /\ (<<x, y>> \o w \o <<z, 2>>)[2] = y
  <2> DEFINE d == <<x, y>> \o w
  <2>1. d \in Seq(Int) /\ Len(d) = Len(w) + 2 /\ d[1] = x /\ d[2] = y /\ Len(w) \in Nat
    OBVIOUS
  <2>2. <<z, 2>> \in Seq(Int) /\ Len(<<z, 2>>) = 2
    OBVIOUS
  <2> HIDE DEF d
  <2>3. /\ d \o <<z, 2>> \in Seq(Int) /\ Len(d \o <<z, 2>>) = Len(d) + 2
        /\ (d \o <<z, 2>>)[1] = d[1] /\ (d \o <<z, 2>>)[2] = d[2]
    BY <2>1, <2>2
  <2>4. QED
    BY <2>1, <2>3 DEF d
<1>9. a \in Int /\ b \in Int /\ a + b \in Int
  BY <1>4
<1>10. /\ Descriptor(i) \in Seq(Int) /\ Len(Descriptor(i)) = Len(FlattenSeq(s)) + 4
       /\ Descriptor(i)[1] = a /\ Descriptor(i)[2] = b
  BY <1>5, <1>7, <1>8, <1>9
<1>11. QED
  BY <1>1, <1>2, <1>3, <1>7, <1>10 DEF a, b, m

(* Where everything is: the positions of the parts.                        *)
ExeSize(i) == Len(i.exe)
IndexAt(i) == Len(i.exe) + Len(Body(i))
DescriptorAt(i) == IndexAt(i) + Len(IndexOf(i)) + 2
TailAt(i) == DescriptorAt(i) + 2 * i.metas + 4

LaidOut(i, f) ==
  /\ Lies(f, ExeSize(i), DataOf(i))
  /\ Lies(f, ExeSize(i) + Len(DataOf(i)), FlattenSeq(Segments(i)))
  /\ Lies(f, IndexAt(i), IndexOf(i))
  /\ Lies(f, DescriptorAt(i), Descriptor(i))
  /\ Lies(f, TailAt(i), <<i.metas, TailAt(i) - ExeSize(i) + 4, Marker, MAGIC>>)
  /\ Len(f) = TailAt(i) + 4 + Len(i.trailer)

LEMMA ConcatLength ==
  ASSUME NEW u \in Seq(Int), NEW v \in Seq(Int)
  PROVE  u \o v \in Seq(Int) /\ Len(u \o v) = Len(u) + Len(v) /\ Len(u) \in Nat /\ Len(v) \in Nat
OBVIOUS

LEMMA Layout ==
  ASSUME NEW i \in Installers
  PROVE  /\ Packed(i) \in Seq(Int) /\ LaidOut(i, Packed(i))
         /\ ExeSize(i) \in Nat /\ IndexAt(i) \in Nat /\ DescriptorAt(i) \in Nat
         /\ TailAt(i) \in Nat /\ i.metas \in Nat /\ Len(i.trailer) \in Nat
<1> DEFINE p == Body(i) \o IndexOf(i)
<1> DEFINE q == p \o Operations
<1> DEFINE r == q \o Descriptor(i)
<1> DEFINE tail == <<i.metas, Len(r) + 4, Marker, MAGIC>>
<1> DEFINE f == Packed(i)
<1> DEFINE E == Len(i.exe)
<1> DEFINE T == Len(i.trailer)
<1>1. f = (i.exe \o (r \o tail)) \o i.trailer
  BY DEF Packed, Content
<1>2. i.exe \in Seq(Int) /\ i.trailer \in Seq(Int) /\ i.metas \in Nat /\ E \in Nat /\ T \in Nat
  BY InstallersAssumption
<1>3. p \in Seq(Int) /\ Len(p) = Len(Body(i)) + Len(IndexOf(i)) /\ Len(p) \in Nat
  BY PartsAre, ConcatLength
<1>4. q \in Seq(Int) /\ Len(q) = Len(p) + 2 /\ Len(q) \in Nat
  <2> HIDE DEF p
  <2>1. QED
    <3>1. Operations \in Seq(Int) /\ Len(Operations) = 2
      BY DEF Operations
    <3>2. q \in Seq(Int) /\ Len(q) = Len(p) + Len(Operations)
      BY <1>3, <3>1, ConcatLength, Zenon DEF q
    <3>3. QED
      BY <1>3, <3>1, <3>2
<1>5. r \in Seq(Int) /\ Len(r) = Len(q) + Len(Descriptor(i)) /\ Len(r) \in Nat
  <2> HIDE DEF q
  <2>1. QED
    BY <1>4, PartsAre, ConcatLength
<1>6. tail \in Seq(Int) /\ Len(tail) = 4
  <2> DEFINE n == Len(r) + 4
  <2>1. n \in Int /\ Marker \in Int /\ MAGIC \in Int /\ i.metas \in Int
    BY <1>2, <1>5 DEF Marker, MAGIC
  <2> HIDE DEF n, r
  <2>2. ASSUME NEW a \in Int, NEW b \in Int, NEW c \in Int, NEW d \in Int
        PROVE  <<a, b, c, d>> \in Seq(Int) /\ Len(<<a, b, c, d>>) = 4
    OBVIOUS
  <2>3. tail = <<i.metas, n, Marker, MAGIC>>
    BY DEF n
  <2>4. QED
    BY <2>1, <2>2, <2>3
<1> HIDE DEF p, q, r, tail, E, T
<1>7. r \o tail \in Seq(Int) /\ Len(r \o tail) = Len(r) + 4
  BY <1>5, <1>6, ConcatLength
<1>8. i.exe \o (r \o tail) \in Seq(Int) /\ Len(i.exe \o (r \o tail)) = E + Len(r) + 4
  <2> DEFINE v == r \o tail
  <2>1. v \in Seq(Int) /\ Len(v) = Len(r) + 4
    BY <1>7
  <2> HIDE DEF v
  <2>2. i.exe \o v \in Seq(Int) /\ Len(i.exe \o v) = E + Len(v)
    BY <1>2, <2>1, ConcatLength DEF E
  <2>3. E + Len(v) = E + Len(r) + 4
    BY <1>2, <1>5, <2>1
  <2>4. QED
    BY <2>2, <2>3 DEF v
<1>9. f \in Seq(Int) /\ Len(f) = E + Len(r) + 4 + T /\ Len(f) \in Nat
  <2>1. f \in Seq(Int) /\ Len(f) = Len(i.exe \o (r \o tail)) + T
    BY <1>1, <1>2, <1>8, ConcatLength DEF T
  <2>2. QED
    BY <1>2, <1>5, <1>8, <2>1
<1> HIDE DEF f
<1>10. Lies(f, 0, f)
  <2>1. \A j \in 1..Len(f) : 0 + j = j
    BY <1>9
  <2>2. QED
    BY <1>9, <2>1 DEF Lies
<1>11. Lies(f, 0, i.exe \o (r \o tail))
  BY <1>1, <1>2, <1>8, <1>9, <1>10, LiesBoth
<1>12. Lies(f, E, r \o tail)
  <2>1. Lies(f, 0 + E, r \o tail)
    BY <1>2, <1>7, <1>9, <1>11, LiesBoth DEF E
  <2>2. 0 + E = E
    BY <1>2
  <2>3. QED
    BY <2>1, <2>2
<1>13. Lies(f, E, r) /\ Lies(f, E + Len(r), tail)
  BY <1>5, <1>6, <1>9, <1>12, LiesBoth
<1>14. Lies(f, E, q) /\ Lies(f, E + Len(q), Descriptor(i))
  BY <1>4, <1>9, <1>13, PartsAre, LiesBoth DEF r
<1>15. Lies(f, E, p)
  BY <1>3, <1>9, <1>14, PartsAre, LiesBoth DEF q
<1>16. Lies(f, E, Body(i)) /\ Lies(f, E + Len(Body(i)), IndexOf(i))
  BY <1>9, <1>15, PartsAre, LiesBoth DEF p
<1>17. Lies(f, E, DataOf(i)) /\ Lies(f, E + Len(DataOf(i)), FlattenSeq(Segments(i)))
  <2>1. DataOf(i) \in Seq(Int) /\ FlattenSeq(Segments(i)) \in Seq(Int)
    BY ResourcesAre, SegmentsAre, FlatInTurn
  <2>2. Lies(f, E, DataOf(i) \o FlattenSeq(Segments(i)))
    BY <1>16 DEF Body
  <2>3. QED
    BY <1>9, <2>1, <2>2, LiesBoth
<1>18. /\ ExeSize(i) = E /\ IndexAt(i) = E + Len(Body(i)) /\ DescriptorAt(i) = E + Len(q)
       /\ TailAt(i) = E + Len(r) /\ Len(r) + 4 = TailAt(i) - ExeSize(i) + 4
  <2> DEFINE b == Len(Body(i))
  <2> DEFINE x == Len(IndexOf(i))
  <2> DEFINE m == i.metas
  <2>1. /\ b \in Nat /\ x \in Nat /\ m \in Nat /\ Len(p) = b + x /\ Len(q) = Len(p) + 2
        /\ Len(r) = Len(q) + (2 * m + 4)
    BY <1>2, <1>3, <1>4, <1>5, PartsAre
  <2>2. /\ ExeSize(i) = E /\ IndexAt(i) = E + b /\ DescriptorAt(i) = E + b + x + 2
        /\ TailAt(i) = E + b + x + 2 + 2 * m + 4
    BY DEF ExeSize, IndexAt, DescriptorAt, TailAt, E
  <2> HIDE DEF b, x, m
  <2>3. IndexAt(i) = E + b /\ DescriptorAt(i) = E + Len(q) /\ TailAt(i) = E + Len(r)
    BY <1>2, <2>1, <2>2
  <2>4. Len(r) + 4 = TailAt(i) - ExeSize(i) + 4
    BY <1>2, <1>5, <2>2, <2>3
  <2>5. QED
    BY <2>2, <2>3, <2>4 DEF b
<1>19. tail = <<i.metas, TailAt(i) - ExeSize(i) + 4, Marker, MAGIC>>
  BY <1>18 DEF tail
<1>20. /\ ExeSize(i) \in Nat /\ IndexAt(i) \in Nat /\ DescriptorAt(i) \in Nat
       /\ TailAt(i) \in Nat
  <2>1. Len(Body(i)) \in Nat
    BY PartsAre
  <2>2. QED
    BY <1>2, <1>4, <1>5, <1>18, <2>1, SMTT(30)
<1>21. Len(f) = TailAt(i) + 4 + Len(i.trailer)
  BY <1>2, <1>5, <1>9, <1>18 DEF T
<1>22. LaidOut(i, f)
  BY <1>13, <1>14, <1>16, <1>17, <1>18, <1>19, <1>21 DEF LaidOut
<1>23. QED
  BY <1>2, <1>9, <1>20, <1>22 DEF f, T

-----------------------------------------------------------------------------
(* The file can be read as the code expects.                               *)
Sound == packed \in Installers /\ io = Packed(packed) /\ CookieIsFirst

LEMMA AtTail ==
  ASSUME Sound
  PROVE  /\ io \in Seq(Int) /\ Len(io) \in Nat /\ LaidOut(packed, io)
         /\ At(TailAt(packed)) = packed.metas
         /\ At(TailAt(packed) + 1) = TailAt(packed) - ExeSize(packed) + 4
         /\ At(TailAt(packed) + 2) = Marker /\ At(TailAt(packed) + 3) = MAGIC
<1> DEFINE t == TailAt(packed)
<1> DEFINE w == <<packed.metas, t - ExeSize(packed) + 4, Marker, MAGIC>>
<1>1. packed \in Installers /\ io \in Seq(Int) /\ LaidOut(packed, io) /\ t \in Nat
  BY Layout DEF Sound
<1>2. Lies(io, t, w) /\ Len(w) = 4
  BY <1>1 DEF LaidOut
<1> HIDE DEF t
<1>3. /\ io[t + 1] = w[1] /\ io[t + 2] = w[2] /\ io[t + 3] = w[3] /\ io[t + 4] = w[4]
  <2>1. 1 \in 1..Len(w) /\ 2 \in 1..Len(w) /\ 3 \in 1..Len(w) /\ 4 \in 1..Len(w)
    BY <1>2
  <2> HIDE DEF w
  <2>2. QED
    BY <1>2, <2>1 DEF Lies
<1>4. (t + 1) + 1 = t + 2 /\ (t + 2) + 1 = t + 3 /\ (t + 3) + 1 = t + 4
  BY <1>1
<1>5. /\ w[1] = packed.metas /\ w[2] = t - ExeSize(packed) + 4 /\ w[3] = Marker /\ w[4] = MAGIC
  OBVIOUS
<1> HIDE DEF w
<1>6. /\ At(t) = packed.metas /\ At(t + 1) = t - ExeSize(packed) + 4
      /\ At(t + 2) = Marker /\ At(t + 3) = MAGIC
  BY <1>3, <1>4, <1>5 DEF At
<1>7. Len(io) \in Nat
  BY <1>1
<1>8. QED
  BY <1>1, <1>6, <1>7, Zenon DEF t

LEMMA CookieIs == ASSUME Sound PROVE FirstCookie = TailAt(packed) + 3 /\ Cookies # {}
<1> DEFINE c == TailAt(packed) + 3
<1>1. /\ packed \in Installers /\ TailAt(packed) \in Nat /\ Len(packed.trailer) \in Nat
      /\ Len(io) = TailAt(packed) + 4 + Len(packed.trailer) /\ At(c) = MAGIC
      /\ Len(packed.trailer) < Window /\ Window \in Nat
  BY AtTail, Layout, InstallersAssumption DEF Sound, CookieIsFirst, LaidOut
<1>2. c \in (Len(io) - Window)..(Len(io) - 1) /\ c >= 0 /\ c = Len(io) - Len(packed.trailer) - 1
  <2> DEFINE t == TailAt(packed)
  <2> DEFINE n == Len(packed.trailer)
  <2> DEFINE l == Len(io)
  <2>1. t \in Nat /\ n \in Nat /\ l = t + 4 + n /\ n < Window /\ Window \in Nat /\ c = t + 3
    BY <1>1
  <2> HIDE DEF c, t, n, l
  <2>2. c \in (l - Window)..(l - 1) /\ c >= 0 /\ c = l - n - 1
    BY <2>1
  <2>3. QED
    BY <2>2 DEF l, n
<1> HIDE DEF c
<1>3. c \in Cookies
  BY <1>1, <1>2 DEF Cookies
<1>4. \A p \in Cookies : p \in Int /\ c <= p
  <2>1. \A p \in Cookies : p \in (Len(io) - Window)..(Len(io) - 1)
    BY DEF Cookies
  <2>2. \A p \in Cookies : p >= c
    BY <1>2 DEF Sound, CookieIsFirst
  <2>3. Len(io) \in Int /\ c \in Int
    BY <1>1, <1>2
  <2>4. QED
    BY <1>1, <2>1, <2>2, <2>3
<1>5. FirstCookie \in Cookies /\ FirstCookie <= c
  BY <1>3, <1>4 DEF FirstCookie
<1>6. c \in Int
  BY <1>3, <1>4
<1>7. FirstCookie = c
  BY <1>4, <1>5, <1>6
<1>8. QED
  BY <1>3, <1>7 DEF c

LEMMA PositionsAre ==
  ASSUME Sound
  PROVE  /\ end_of_executable = ExeSize(packed) /\ segments_descriptor = DescriptorAt(packed)
         /\ SegmentRange(segments_descriptor).start = IndexAt(packed)
         /\ Readable
<1> DEFINE t == TailAt(packed)
<1> DEFINE d == DescriptorAt(packed)
<1> DEFINE e == ExeSize(packed)
<1> DEFINE m == packed.metas
<1>0. packed \in Installers /\ Len(io) >= Window
  BY DEF Sound, CookieIsFirst
<1>1. /\ e \in Nat /\ d \in Nat /\ m \in Nat
      /\ t = d + 2 * m + 4 /\ t \in Nat
      /\ Len(io) = t + 4 + Len(packed.trailer) /\ Len(packed.trailer) \in Nat
  BY <1>0, AtTail, Layout DEF LaidOut, TailAt
<1>2. /\ At(t) = m /\ At(t + 1) = t - e + 4 /\ At(t + 2) = Marker
      /\ FirstCookie = t + 3
  BY AtTail, CookieIs
<1> HIDE DEF t, d, e, m
<1>3. end_of_binary_content = t + 4 /\ binary_descriptor_offset = t
  <2>1. (t + 3) + 1 = t + 4 /\ (t + 4) - 4 = t
    BY <1>1
  <2>2. QED
    BY <1>2, <2>1 DEF end_of_binary_content, binary_descriptor_offset
<1>4. meta_resources_count = m /\ binary_content_size = t - e + 4
  BY <1>2, <1>3 DEF meta_resources_count, binary_content_size
<1>5. end_of_executable = e
  <2>1. (t + 4) - (t - e + 4) = e
    BY <1>1
  <2>2. QED
    BY <1>3, <1>4, <2>1 DEF end_of_executable
<1>6. size_of_segment_descriptor = 2 * m + 4 /\ segments_descriptor = d
  <2>1. (m + 2) * 2 = 2 * m + 4 /\ t - (2 * m + 4) = d
    BY <1>1
  <2>2. QED
    BY <1>3, <1>4, <2>1 DEF size_of_segment_descriptor, segments_descriptor
<1>7. Readable
  <2>1. Exists(t, 4) /\ Exists(d, 2 * m + 4)
    <3> DEFINE n == Len(packed.trailer)
    <3> DEFINE l == Len(io)
    <3>1. t + 4 + n = l /\ n \in Nat
      BY <1>1
    <3> HIDE DEF n, l
    <3>2. t >= 0 /\ t + 4 <= l /\ d >= 0 /\ d + (2 * m + 4) <= l
      BY <1>1, <3>1
    <3>3. QED
      BY <3>2 DEF Exists, l
  <2>2. QED
    BY <1>0, <1>2, <1>3, <1>6, <2>1, CookieIs DEF Readable
<1>8. SegmentRange(segments_descriptor).start = IndexAt(packed)
  <2>1. At(DescriptorAt(packed)) = Len(Body(packed))
    <3>1. Lies(io, DescriptorAt(packed), Descriptor(packed))
      BY AtTail DEF LaidOut
    <3>2. Len(Descriptor(packed)) = 2 * m + 4 /\ Descriptor(packed)[1] = Len(Body(packed))
      BY <1>0, PartsAre DEF m
    <3>3. 1 \in 1..Len(Descriptor(packed))
      BY <1>1, <3>2
    <3>4. QED
      BY <3>1, <3>2, <3>3 DEF Lies, At
  <2>2. QED
    BY <1>5, <1>6, <2>1 DEF SegmentRange, IndexAt, ExeSize, d, e
<1>9. QED
  BY <1>5, <1>6, <1>7, <1>8 DEF d, e

(* An array that lies in the file is read as it was written.               *)
LEMMA EntriesAre ==
  ASSUME Sound, NEW pos, NEW entries, Fours(entries), Lies(io, pos, Listing(entries))
  PROVE  Entries(pos) = [k \in 1..Len(entries) |->
           [name |-> entries[k][2],
            range |-> [start |-> ExeSize(packed) + entries[k][3], size |-> entries[k][4]]]]
<1> DEFINE n == Len(entries)
<1>1. /\ pos \in Nat /\ io[pos + 1] = n /\ n \in Nat
      /\ \A k \in 1..n, j \in 1..4 : io[pos + 4 * k - 3 + j] = entries[k][j]
  BY AtTail, LiesListing
<1> HIDE DEF n
<1>2. ASSUME NEW k \in 1..n
      PROVE  /\ At(pos + 4 * k - 2) = entries[k][2] /\ At(pos + 4 * k - 1) = entries[k][3]
             /\ At(pos + 4 * k - 1 + 1) = entries[k][4]
  <2>1. /\ (pos + 4 * k - 2) + 1 = pos + 4 * k - 3 + 2
        /\ (pos + 4 * k - 1) + 1 = pos + 4 * k - 3 + 3
        /\ (pos + 4 * k - 1 + 1) + 1 = pos + 4 * k - 3 + 4
    BY <1>1
  <2>2. 2 \in 1..4 /\ 3 \in 1..4 /\ 4 \in 1..4
    OBVIOUS
  <2>3. QED
    BY <1>1, <2>1, <2>2 DEF At
<1>3. At(pos) = n
  BY <1>1 DEF At
<1>4. QED
  BY <1>2, <1>3, PositionsAre DEF Entries, SegmentRange, n

LEMMA CollectionsAre ==
  ASSUME Sound, NEW c \in 1..Len(packed.collections)
  PROVE  /\ DOMAIN Collections = 1..Len(packed.collections)
         /\ Unpacked(Collections[c]) = packed.collections[c]
<1> DEFINE i == packed
<1> DEFINE coll == packed.collections[c]
<1> DEFINE n == Len(coll)
<1>0. packed \in Installers /\ Len(io) \in Nat
  BY AtTail DEF Sound
<1>1. Lies(io, IndexAt(packed), Listing(IndexEntries(packed))) /\ Fours(IndexEntries(packed))
  BY <1>0, AtTail, IndexIs DEF LaidOut
<1>2. Collections = [k \in 1..Len(packed.collections) |->
        [name |-> IndexEntries(packed)[k][2],
         range |-> [start |-> ExeSize(packed) + IndexEntries(packed)[k][3],
                    size |-> IndexEntries(packed)[k][4]]]]
  <2>1. Collections = Entries(IndexAt(packed))
    BY PositionsAre DEF Collections
  <2>2. Len(IndexEntries(packed)) = Len(packed.collections)
    BY <1>0, IndexIs
  <2>3. QED
    BY <1>1, <2>1, <2>2, EntriesAre
<1>3. IndexEntries(packed)[c][3] = Len(DataOf(packed)) + Before(Segments(packed), c)
  BY <1>0, SegmentsAre DEF IndexEntries, Entry
<1> DEFINE at == ExeSize(packed) + Len(DataOf(packed)) + Before(Segments(packed), c)
<1>4. Lies(io, at, Listing(SegmentEntries(packed, c)))
  <2>1. Lies(io, ExeSize(packed) + Len(DataOf(packed)), FlattenSeq(Segments(packed)))
    BY AtTail DEF LaidOut
  <2>2. /\ Segments(packed) \in Seq(Seq(Int)) /\ c \in 1..Len(Segments(packed))
        /\ Segments(packed)[c] = Listing(SegmentEntries(packed, c))
    BY <1>0, SegmentsAre
  <2>3. QED
    BY <1>0, <2>1, <2>2, LiesEach
<1>5. Collections[c].range.start = at
  <2>1. Collections[c].range.start = ExeSize(packed) + IndexEntries(packed)[c][3]
    BY <1>2
  <2>2. /\ ExeSize(packed) \in Int /\ Len(DataOf(packed)) \in Int
        /\ Before(Segments(packed), c) \in Int
    BY <1>0, Layout, ResourcesAre, SegmentsAre, BeforeIs
  <2>3. QED
    BY <1>3, <2>1, <2>2
<1> HIDE DEF at
<1>6. ResourcesOf(Collections[c]) = [r \in 1..n |->
        [name |-> SegmentEntries(packed, c)[r][2],
         range |-> [start |-> ExeSize(packed) + SegmentEntries(packed, c)[r][3],
                    size |-> SegmentEntries(packed, c)[r][4]]]]
  BY <1>0, <1>4, <1>5, EntriesAre, SegmentIs DEF ResourcesOf
<1>7. n \in Nat /\ DOMAIN coll = 1..n /\ coll = [r \in 1..n |-> coll[r]]
      /\ \A r \in 1..n : coll[r] \in AResource
  <2>1. packed.collections \in Seq(Seq(AResource))
    BY <1>0, ResourcesAre
  <2>2. coll \in Seq(AResource)
    BY <1>0, <2>1
  <2> HIDE DEF coll
  <2>3. QED
    BY <2>2
<1>8. ASSUME NEW r \in 1..n
      PROVE  LET e == SegmentEntries(packed, c)[r]
             IN  e[2] = coll[r].name
                 /\ Contents([start |-> ExeSize(packed) + e[3], size |-> e[4]]) = coll[r].data
  <2> DEFINE e == SegmentEntries(packed, c)[r]
  <2> DEFINE b == Before(packed.collections, c) + r
  <2> DEFINE d == coll[r].data
  <2>1. e[2] = coll[r].name /\ e[3] = Before(Pieces(packed), b) /\ e[4] = Len(d)
    BY <1>7 DEF SegmentEntries, Entry
  <2>2. b \in 1..Len(Pieces(packed)) /\ Pieces(packed)[b] = d /\ Pieces(packed) \in Seq(Seq(Int))
    BY <1>0, ResourcesAre
  <2>3. d \in Seq(Int) /\ Len(d) \in Nat /\ d = [k \in 1..Len(d) |-> d[k]]
    <3>1. coll[r] \in AResource
      BY <1>7
    <3>2. d \in Seq(Int)
      BY <3>1 DEF AResource
    <3> HIDE DEF d
    <3>3. QED
      BY <3>2
  <2> HIDE DEF b, d
  <2> DEFINE s == ExeSize(packed) + Before(Pieces(packed), b)
  <2>4. Lies(io, s, d)
    <3>1. Lies(io, ExeSize(packed), FlattenSeq(Pieces(packed)))
      BY AtTail DEF LaidOut, DataOf
    <3>2. QED
      BY <1>0, <2>2, <3>1, LiesEach
  <2> HIDE DEF s
  <2>5. ASSUME NEW k \in 1..Len(d) PROVE At(s + k - 1) = d[k]
    <3>1. s \in Nat /\ io[s + k] = d[k]
      BY <2>4 DEF Lies
    <3>2. (s + k - 1) + 1 = s + k
      BY <3>1
    <3>3. QED
      BY <3>1, <3>2 DEF At
  <2>6. Contents([start |-> s, size |-> Len(d)]) = d
    BY <2>3, <2>5 DEF Contents
  <2>7. QED
    BY <2>1, <2>6 DEF s, d
<1>9. Unpacked(Collections[c]) = coll
  <2>1. Unpacked(Collections[c]) = [r \in 1..n |->
          [name |-> SegmentEntries(packed, c)[r][2],
           data |-> Contents([start |-> ExeSize(packed) + SegmentEntries(packed, c)[r][3],
                              size |-> SegmentEntries(packed, c)[r][4]])]]
    BY <1>6 DEF Unpacked
  <2>2. \A r \in 1..n : coll[r] = [name |-> coll[r].name, data |-> coll[r].data]
    BY <1>7 DEF AResource
  <2> HIDE DEF coll, n
  <2>3. QED
    BY <1>7, <1>8, <2>1, <2>2
<1>10. QED
  BY <1>2, <1>9

LEMMA FoundAre == ASSUME Sound PROVE Found = Resources(packed)
<1>0. packed \in Installers
  BY DEF Sound
<1> DEFINE n == Len(packed.collections)
<1> DEFINE read == [c \in DOMAIN Collections |-> Unpacked(Collections[c])]
<1>1. packed.collections = [c \in 1..n |-> packed.collections[c]]
  <2>1. packed.collections \in Seq(Seq(AResource))
    BY <1>0, ResourcesAre
  <2> DEFINE cs == packed.collections
  <2> HIDE DEF cs
  <2>2. cs = [c \in 1..Len(cs) |-> cs[c]]
    BY <2>1 DEF cs
  <2>3. QED
    BY <2>2 DEF cs
<1>2. DOMAIN Collections = 1..n
  BY <1>0, AtTail, EntriesAre, PositionsAre, IndexIs DEF Collections, LaidOut
<1>3. read = packed.collections
  <2>1. \A c \in 1..n : Unpacked(Collections[c]) = packed.collections[c]
    BY CollectionsAre
  <2>2. QED
    BY <1>1, <1>2, <2>1
<1>4. QED
  BY <1>3 DEF Found, Resources

(* What is extracted so far, of an installer that can be read.             *)
Extracting ==
  /\ packed \in Installers /\ io = Packed(packed)
  /\ upcoming \in Nat \ {0}
  /\ status = "start" => upcoming = 1 /\ DOMAIN files = {}
  /\ CookieIsFirst /\ status # "start" => 1..(upcoming - 1) \subseteq DOMAIN Resources(packed)
  /\ ExtractedWhole

(* The resources are extracted in order, each whole and under its name, and*)
(* only a later one of the same name replaces one, for any number of       *)
(* collections, resources and meta resources, any executable before and any*)
(* bytes behind them, and any size of the window that is searched.         *)
THEOREM ExtractedAlways == InstallerSpec => []ExtractedWhole
<1>1. InstallerInit => Extracting
  BY DEF InstallerInit, Extracting, ExtractedWhole
<1>2. ASSUME Extracting, [InstallerNext]_installerVars PROVE Extracting'
  <2>1. io' = io /\ packed' = packed
    BY <1>2 DEF InstallerNext, ReadHeader, Extract, Exit, installerVars
  <2>2. /\ CookieIsFirst' <=> CookieIsFirst
        /\ Resources(packed)' = Resources(packed)
    <3>1. Cookies' = Cookies
      BY <2>1 DEF Cookies, At
    <3>2. CookieIsFirst' <=> CookieIsFirst
      BY <2>1, <3>1, Zenon DEF CookieIsFirst
    <3>3. Resources(packed)' = Resources(packed)
      BY <2>1 DEF Resources
    <3>4. QED
      BY <3>2, <3>3
  <2>3. packed' \in Installers /\ io' = Packed(packed)'
    BY <1>2, <2>1 DEF Extracting
  <2>4. ASSUME CookieIsFirst PROVE Found = Resources(packed) /\ Readable
    BY <1>2, <2>4, FoundAre, PositionsAre DEF Sound, Extracting
  <2> DEFINE all == Resources(packed)
  <2>5. DOMAIN all = 1..Len(all) /\ Len(all) \in Nat
    <3>1. all \in Seq(AResource)
      BY <1>2, ResourcesAre DEF Extracting
    <3> HIDE DEF all
    <3>2. QED
      BY <3>1
  <2>6. CASE UNCHANGED installerVars
    BY <1>2, <2>1, <2>2, <2>3, <2>6 DEF Extracting, ExtractedWhole, installerVars
  <2>7. CASE ReadHeader
    <3>1. upcoming' = 1 /\ DOMAIN files' = {} /\ upcoming' \in Nat \ {0} /\ status' # "start"
      BY <1>2, <2>7 DEF Extracting, ReadHeader
    <3>2. 1..(upcoming' - 1) = {}
      BY <3>1
    <3>3. CookieIsFirst => status' = "extracting"
      BY <2>4, <2>7 DEF ReadHeader
    <3>4. ExtractedWhole'
      BY <2>2, <3>1, <3>2, <3>3 DEF ExtractedWhole
    <3>5. QED
      BY <2>2, <2>3, <3>1, <3>2, <3>4 DEF Extracting
  <2>8. CASE Extract
    <3>1. /\ status = "extracting" /\ status' # "start" /\ status' # "done"
          /\ upcoming' \in Nat \ {0} /\ upcoming \in Nat \ {0}
      BY <1>2, <2>8 DEF Extracting, Extract
    <3>2. SUFFICES ASSUME CookieIsFirst
                   PROVE  1..(upcoming' - 1) \subseteq DOMAIN all /\ ExtractedWhole'
      BY <2>2, <2>3, <3>1 DEF Extracting, ExtractedWhole
    <3>3. /\ upcoming \in DOMAIN all /\ Found = all
          /\ 1..(upcoming - 1) \subseteq DOMAIN all
          /\ DOMAIN files = {all[k].name : k \in 1..(upcoming - 1)}
          /\ \A k \in 1..(upcoming - 1) :
               \/ files[all[k].name] = all[k].data
               \/ \E later \in 1..(upcoming - 1) : later > k /\ all[later].name = all[k].name
      BY <1>2, <2>4, <2>8, <3>1, <3>2 DEF Extracting, Extract, ExtractedWhole
    <3> HIDE DEF all
    <3>4. CASE all[upcoming].name \in Unwritable
      <4>1. status' = "error" /\ upcoming' = upcoming /\ files' = files
        BY <2>8, <3>3, <3>4 DEF Extract
      <4>2. QED
        BY <2>2, <3>3, <3>4, <4>1 DEF ExtractedWhole, all
    <3>5. CASE all[upcoming].name \notin Unwritable
      <4> DEFINE now == all[upcoming]
      <4>1. /\ status' = "extracting" /\ upcoming' = upcoming + 1
            /\ files' = [name \in DOMAIN files \cup {now.name} |->
                           IF name = now.name THEN now.data ELSE files[name]]
        BY <2>8, <3>1, <3>3, <3>5 DEF Extract
      <4>2. 1..(upcoming' - 1) = 1..(upcoming - 1) \cup {upcoming} /\ upcoming \in Nat
        BY <3>1, <4>1
      <4>3. DOMAIN files' = {all[k].name : k \in 1..(upcoming' - 1)}
        BY <3>3, <4>1, <4>2
      <4>4. ASSUME NEW k \in 1..(upcoming' - 1)
            PROVE  \/ files'[all[k].name] = all[k].data
                   \/ \E later \in 1..(upcoming' - 1) :
                        later > k /\ all[later].name = all[k].name
        <5>1. CASE k = upcoming
          BY <4>1, <5>1
        <5>2. CASE k # upcoming /\ all[k].name = now.name
          <6>1. upcoming > k /\ upcoming \in 1..(upcoming' - 1)
            <7>1. k \in Nat /\ k \in 1..upcoming /\ 1..(upcoming' - 1) = 1..upcoming
              BY <3>1, <4>1
            <7>2. upcoming > k /\ upcoming \in 1..upcoming
              BY <3>1, <5>2, <7>1
            <7>3. QED
              BY <7>1, <7>2
          <6>2. QED
            BY <5>2, <6>1
        <5>3. CASE k # upcoming /\ all[k].name # now.name
          <6>1. k \in 1..(upcoming - 1) /\ all[k].name \in DOMAIN files
            BY <3>3, <4>2, <5>3
          <6>2. files'[all[k].name] = files[all[k].name]
            BY <4>1, <5>3, <6>1
          <6>3. QED
            BY <3>3, <4>2, <6>1, <6>2
        <5>4. QED
          BY <5>1, <5>2, <5>3
      <4>5. 1..(upcoming' - 1) \subseteq DOMAIN all
        BY <3>3, <4>2
      <4>6. ExtractedWhole'
        <5>1. Resources(packed)' = all
          BY <2>2 DEF all
        <5>2. status' # "error" /\ status' # "done"
          BY <4>1
        <5>3. QED
          BY <4>3, <4>4, <5>1, <5>2 DEF ExtractedWhole
      <4>7. QED
        BY <4>5, <4>6
    <3>6. QED
      BY <3>4, <3>5
  <2>9. CASE Exit
    <3>1. /\ status = "extracting" /\ status' = "done" /\ upcoming \notin DOMAIN Found
          /\ upcoming' = upcoming /\ files' = files
      BY <2>9 DEF Exit
    <3>2. ASSUME CookieIsFirst PROVE 1..(upcoming - 1) = DOMAIN all
      <4>1. 1..(upcoming - 1) \subseteq 1..Len(all) /\ upcoming \notin 1..Len(all)
            /\ upcoming \in Nat \ {0}
        BY <1>2, <2>4, <2>5, <3>1, <3>2 DEF Extracting
      <4>2. QED
        BY <2>5, <4>1
    <3>3. QED
      BY <1>2, <2>2, <2>3, <3>1, <3>2 DEF Extracting, ExtractedWhole
  <2>10. QED
    BY <1>2, <2>6, <2>7, <2>8, <2>9 DEF InstallerNext
<1>3. Extracting => ExtractedWhole
  BY DEF Extracting
<1>4. QED
  BY <1>1, <1>2, <1>3, PTL DEF InstallerSpec
=============================================================================
