# A verification development of isz

The repository is the configuration of a home network: NixOS and ESPHome
configurations and the programs somebody had to write for them.  This directory
models the programs that have state and meet concurrency, failures or unreliable links, checks
the models with TLC and proves what matters most with TLAPS.

## 1. Inventory

| component | source | state | operations | what is hard |
|---|---|---|---|---|
| Fluke 45 client | `src/workshop/lab/fluke.py` | `_state`, `_pending_response`, tasks suspended in `_ask`, futures | `ask`, `_run`, `connection_made/lost`, `data_received`, cancellation | one serial line, many callers, timeouts, a meter that answers late |
| DNS and DHCP updater | `src/dns/dns_update.py` | zone files, a router's tables, one run's listing and to-do set | list, remove, add for each router and type | nothing locks the router; a run may die half way, two may overlap |
| Air conditioner climates | `src/workshop/esphome/my_components/{climate_ir_power,kenmore_ac,frigidaire_ac}`, `livingroom-ac.yaml` | believed mode, preset, fan, temperature; `last_change_time_` | `control()`, the power callback, `setup()`, the front button | a one-way link, toggles, stale power readings, a clock that wraps |
| Meteogram over MQTT | `src/workshop/dashboard/src/dashboard/graph.py`, `src/workshop/esphome/my_components/mqtt_image` | picture size on both sides, retained messages; the alignment of a text | `on_message`, `send_graphs`, `draw`, `update_image_`, `update_positions` | two threads, a broker that comes and goes, a figure drawn again in another size |
| GPU metrics histogram | `src/amdgpu/src/{histogram,main,interface}.rs` | scale, offset, buckets | `record_weighted`, `compress`, `sample` | index arithmetic at every scale |
| Power gate logger | `src/workshop/go/cmd/pwrgate-logger/main.go` | three goroutines, a channel, a port | read, keep alive, close | errors of one goroutine and the others |
| Syncoid permission units | `src/nix/modules/syncoid.nix` | running commands, active units, permissions | start, stop, allow, unallow | overlapping commands, nested datasets |
| VPN namespace scripts | `src/heartofgold/openvpn/*.bash` | where each interface is, two processes | connect, disconnect | polling loops across two namespaces |
| Wago UPS logger | `src/bedroom-pi/go/cmd/wago-logger/main.go` | position in a byte stream | frame synchronisation | noise, wrong lengths |
| GPU sampler | `src/ansible/roles/steamdeck-telegraf/files/amdgpu.py` | a list of samples per GPU, a lock | `sample`, `average`, the loops of two threads | a list that is swapped, structs laid out by hand |
| Mikrotik collectors | `src/nix/modules/telegraf/mikrotik/{mikrotik_metrics,mikrotik_swos_metrics}.py` | the parser of each property, settled at start | `prepare`, `call`, `process_entry`, `format` | items that come, go and change between two requests; bits and halves |
| Qt installer extractor | `src/nix/pkgs/qt-installer-framework-extractor/extract.py` | positions in a file | `main` | everything counts backwards from a cookie |
| Pillow backend | `src/workshop/dashboard/src/dashboard/backend_pil.py` | the pen and error term of a line | `_line_points`, `_print` | eight directions, rounding |
| LinkZone client, Hugoai light, bedroom nightlight, bsproxy | see `PROJECT.json` | little | | token expiry, dropped datapoints, automation versus person |
| other collectors, generators, one-shot scripts | see `PROJECT.json` | none between two runs | | |

Interactions.  The Fluke client talks to its meter through a serial transport,
the updater to routers through their API, the climates to a unit through
infrared and back through a power sensor, the grapher to the display through an
MQTT broker.  No two of these components talk to each other, so every one has a
model of its own, and the partner it talks to is part of that model, marked
external: what the code relies on, and no more.

`PROJECT.json` lists every component with what is modelled of it, and every
hazard at the line where it bites, with the properties that watch it.

## 2. Plan

The order is by how much state and interleaving a program has.  Done:

1. `Fluke45` with `RequestLine` (the promise to a caller), its runs and proofs:
   the one program here where many tasks share one line.
2. `DnsUpdate`: overlapping and interrupted runs against shared tables.
3. `ClimateIRPower` with `KenmoreAC` and `FrigidaireAC`, which extend it: open-loop
   control over a lossy one-way link.
4. `Histogram` (pure functions) with `GpuMetrics`, which extends it, and its proofs.
5. `SyncoidAllow`, its runs and proofs.
6. `Meteogram`: the two threads of `graph.py`, a broker with retained messages
   and the display widget; with `Annotations` and `LineWalk` for what is drawn.
7. `AmdGpu` with `SampleBuffer` (the promise of its two threads); `MikrotikMetrics`
   with `MikrotikTags`, `SwosMetrics` with `SwosFields`, `QtExtract`; and their proofs.
8. `PwrgateLogger`: the three goroutines, the channel and the port; which
   ends of one goroutine end the others.

To come, in this order:

9. The VPN namespace scripts, then the frame synchronisation of the
   Wago logger, the Hugoai light and the nightlight.

Theorems: every safety invariant and every action property of a passing run is
proved, and both refinements; liveness is not (section 6 says why).

Each abstract specification is stated where there is a caller to promise
something to: `RequestLine` for the callers of the Fluke client, `SampleBuffer`
for the reporter of `amdgpu.py`.  For the other components the promise is an
invariant between two sides, and is stated as one.

## 3. Modules and how they correspond to the code

### Fluke45, RequestLine: the multimeter client

An action is what one task or callback does between two suspensions of the
event loop.  `pc[t]` says where task `t` is suspended: in `connect()`
(`connWait`), waiting for the line (`lineWait`), in the shielded await
(`awaiting`) or in the await of the `except` branch (`cleanup`).  `pending` is
`_pending_response`, `fut` and `reply` are the futures; a future is named by
its task and the number of its `_ask`.  `notified` holds the waiters of `_cond`
that were woken and have not run; `cancel` the tasks with a cancellation still to be
delivered.  The lock of `_cond` is never held across a suspension other than
`wait()`, so it is not state.  The meter is external: it answers each
command with one prompt, and `^C` drops what it does and what it has not read
yet, with one prompt for all of it.

No answer wakes who waits for the line: `data_received` clears
`_pending_response` and notifies nobody.  What Python does of its own accord is in
`PassOn`: from 3.13 on a waiter that gives up wakes another one, before that
nobody, so the model allows both.

`RequestLine` is the promise to the callers: the requests take turns on the
line.  `Fluke45` implements it (property `TakesTurns`, by a refinement mapping
that keeps `fut`).

`ConnectionState.INITIALIZING` exists in the code and is never entered; the
comment in `_run` says otherwise.  An error prompt during the handshake leaves
`CONNECTING` for ever.

### DnsUpdate: one run against a router

An action is one API call and the code up to the next one: `NextServer` and
`NextType` list, `ScanKeep` and `ScanRemove` walk the listing, `AddSkips`,
`AddWrites` and `AddRaises` walk the sorted records.  `run[p]` holds the local
variables of one invocation.  `Administer` and `EditZone` are the people;
`Fail` is an exception or a kill at any call.  A record is a model value;
`Keeps` compares it with an entry as the code compares dictionaries.  A
router is external: a table with ids, which refuses an equal entry
or (`Lax`) does not.

### ClimateIRPower, KenmoreAC, FrigidaireAC, Climates

`ClimateIRPower` holds what the two components share (the copy of `control()`
in each `.cpp`, `send_ir_`, the settling time); the two others add their
commands and callbacks.  `Control` is one call with every frame it sends:
seven places, three for the mode, two each for temperature and fan, some of them
silent (`AllFrames`), which the unit hears one after the other (`Receive`).
`Sense` is one reading of the power sensor, `Touch` a press on the unit or its
remote control, `Reboot` a restart of the component.  One frame of a call may be lost
(`Transmit`), a reading may be up to `Lag` periods old (`stale`), and `now`
wraps at `Wrap` (2^32 milliseconds in the program).  `clean` and `seen` are
history: nothing was lost or touched; a fresh reading counted since.
`Climates` puts the two side by side: they keep the same variables and have nothing to
do with each other, so a behaviour is one of one of them (`place`), and its
properties say of each what its module says.


### Histogram, GpuMetrics: the GPU metrics

`Histogram` holds `ExponentialHistogram` as pure operators over a record of
`scale`, `offset`, `buckets` and `count`: `IndexForValue`, `Compress`,
`ResizeToFit`, `RecordWeighted`, `Sample`.  Bounds of buckets are powers of two
with a fractional exponent at positive scales, so a bound is kept as its index and
`AtMost` compares a value with it in integers; counts wrap at `Wrap` (2^64).
Powers are the recursive function `Pow`, since the provers know nothing of `^`,
and logarithms are chosen by what they are.
The sum, a floating-point number, is left out.

`GpuMetrics` is the reader (`interface.rs`) and the generated recorder
(`macros/src/lib.rs`): `Record` is one sample, `ReadFails` and `WrongVersion` the
two ways in which a read goes wrong, `DeviceReset` (external) a device that starts
again.  A report changes nothing, so `Report` is an operator of the state.
`recorded` and `first` are history: what went into the histogram, and when the
recorder began.  Values are unsigned in the program, which makes the truncation
in `index_for_value` harmless; `Values` is a set of naturals.

### SyncoidAllow: permissions of the syncoid commands

`Units` is what `allowCommands` makes of the options: a unit for every dataset and
set of commands, with the permissions which exactly those commands need.
The start of a unit is two actions, since its script runs two commands of zfs:
`List` looks whether the dataset exists, `Allow` delegates on it or on its parent.
So is its stop: `Unallow`, then `UnallowParent`.  `granted` is what is
delegated to the user, `exists` the datasets there are.  systemd (external) is
reduced to what the module asks of it: `requires` and `after` (`Run`),
`StopWhenUnneeded` (`Unneeded`), and that a unit which stops is started again only
after it has stopped.  `crashed` is history: the units that were up when the machine
went down, for nothing runs their `ExecStop`.

### Meteogram: a picture over MQTT

The widget asks for a picture of the size its layout gives it; the grapher
draws one every minute.  Both messages are retained and delivered at most once.
`Draw` is `draw` with `send_size_request_`: `widget.last` is what it remembers
to have sent.  `publish()` can return true for a message that is never sent
(the second disjunct that counts a fault), which `lost` records.  `SetWidth` and
`SetHeight` are the two assignments of `on_message`, on paho's thread;
`Plot`, `ReadWidth`, `ReadHeight` and `Publish` are `send_graphs` on the main
one, which starts over after any exception.  `grapher.deaf` is a connection
without the subscription: paho connects again with a clean session, and
`subscribe` is called once.  `torn` is history: a request came in while the size was
being read.  `Picture` is what becomes of a size on the way through inches:
`int(29 / 100 * 100)` is 28.  The broker and the network are external.

### PwrgateLogger: the power gate's lines

One action is what one goroutine does between two points where it can wait: the
closer (`Close`), the pinger (`PingerDone`, `Timeout`, `Write`; its write is under way
in between) and the reader (`Read`, `Line`).  `Ping` is a step of both, since the channel has no
buffer.  `cancelled` is the context of the errgroup, which the first error
cancels and a nil does not; `Wait` ends the call, and `Open` begins the next.
`Unplug` and `Plug` (external) are the device, whose dead descriptor is
read with an error or with the end of the file.  That closing the port makes a
waiting read return is what the closer is there for, and is taken over from it.

### Annotations, LineWalk: what is drawn

`Annotations` is `AutoAnnotation` (`Place` and `Adjust` are the two halves of
`update_positions`), and the rule by which weather icons and wind barbs that
overlap are left out (`DrawIcon`).  A figure lives on and is drawn again in another
size (`Redraw`), with the alignment the last drawing left.  Lengths are in
half pixels; the extent of a text, which matplotlib (external) measures, is its
`width` and `height`.

`LineWalk` is `_line_points`, one yielded point an action (`Walk`), and
`_lines_points` (`NextSegment`).  The vertical and the horizontal loop of
the code are the general one with a shorter side of 0, whose error term never
reaches 0.

### AmdGpu, SampleBuffer: the GPU sampler

`Read`, `SamplerLocks` and `SamplerAppends` are the thread that samples, `Line`,
`ReporterLocks`, `Swap` and `PrintMeans` the main one.  Which list a thread has
got hold of is state: the sampler looks `self.samples` up before it appends, so
without the lock `Swap` could turn its list into the one already taken.
`SampleBuffer` is what the two promise each other: every sample is in exactly one
report.  `AmdGpu` implements it (`BufferImplemented`, with `pending <- samples`
and `taken <- old`).  The structs are written down as runs of fields of one width,
in their order; `SizeOf` is the layout ctypes (external) gives them, from which
`Parses` and `NaturallyAligned` follow.  A mean is a fraction.

### MikrotikTags, MikrotikMetrics: the router's collector

`MikrotikTags` is the table `TAGS`.  `MikrotikMetrics` is one resource from
`prepare` (two requests: `Prepare`, `PrepareMonitor`) through the lines of
telegraf (`List`, `Monitor`).  A value is a form, which is what the parsers tell
apart (`int`, `bool`, `duration`, `pair`, `rate`, ... and `own`, the one
a named parser is written for); what is printed is a set of fields with their types.
`Change` (external) lets items appear, go away and change between any two requests;
`MaxRequests` bounds the lines.  Two variables are history: `removed`, an
item went away since the items were last listed, and `noneAtStart`, there were none
when the requests were prepared.  The items of the second request are asked about by
a set of ids, so they may be answered in any order.  `NamesAssumption` is what
the program takes for granted of `TAGS`: that no two properties of a resource
are printed under one name with two types, whatever forms they come in.
The run evaluates it for every row of the table as a whole (`WholeScenarios`).

### SwosFields, SwosMetrics: the switch's collector

`SwosFields` is the table `FIELDS`.  A setting is what a user of the switch sees; `Encode` (external) is how the
switch packs the settings of all ports, under the `Keys` of the field, `Format`,
`merge_64bit` and `LineOf` how the program unpacks them (`Poll`).
`FieldsAssumption` is what the program takes for granted of its table: that no two fields of a
section have a key in common, and that only a counter has the key of another
followed by an `h`.  Of the counters, which are all alike, one of each kind is
in `Stats`.

### QtExtract: the extractor

A file is a sequence of words of eight bytes.  `Packed` (external) is what the
framework writes, part by part; the operators below it, named as in the code, are the
positions the program derives from the first cookie in the last megabyte.
Where a part is in the file is the number of words `Before` it.  The program,
with `-x`, is `ReadHeader`, one `Extract` for each resource, and `Exit`.  `files` is
the destination: a file is opened for writing by the name of the resource alone, so
a resource that has the name of an earlier one, in this collection or
another, overwrites it; a name in `Unwritable`, which leads to a directory that is not
there, ends the program.

### MCHome, MCCollectors: several components in one run

The components of a run share no state and exchange nothing, so a behaviour is
one of one of them: `place` (or `program`) is chosen in the initial state and never
changes, and the variables of the others keep a fixed value.  Interleaving
components that cannot disturb each other would multiply the states and show
nothing.  A property of such a run says, of each component it is about, what that
component's module says.

## 4. Runs

| run | what it shows | bounds |
|---|---|---|
| `fluke_safety` | the futures refine `RequestLine`; a suspended task awaits the future the next prompt resolves; a prompt is owed while one waits; nobody writes before the handshake; the drift is bounded by the timeouts; no caller sleeps through the end of the handshake | 2 callers, 2 calls each, 2 timeouts, a port that may vanish |
| `fluke_live` | a written command is answered, a caller that gives up gets control back, and without a timeout every answer is one's own | 2 callers, 2 timeouts, a stale error prompt |
| `fluke_happy_place` | (violation) `^C` does not always bring the line back in step | 1 caller, 1 timeout |
| `dns_safety` | a run removes only what it saw and what is not wanted, adds nothing twice, and leaves the router in order when nobody interferes | 2 runs, 2 routers, 1 edit |
| `dns_converges` | runs that are repeated end with a router in order, whatever failed before | 2 runs, 1 edit, 1 failure |
| `dns_wildcard` | (violation) a wildcard and another record: nothing is added | 1 run |
| `home` | the toggles of the climates stay in step, the power state is known after one fresh reading, counted fan steps reach the speed; the display gets a picture of its size, of one request; the logger reads from a power gate that came back, or hangs in the one way it can; texts and icons can be read; a dotted line stays on its line | Kenmore: 3 calls, Frigidaire: 2, 1 trouble each, from the lowest target and fan speed, wrap after 4 periods; display: 2 layouts, 2 changes, 1 fault, 1 picture on its way; power gate: unplugged twice, 2 lines a read; 6 figures, 360 texts, rows of 3 icons; coordinates from -3 to 9 |
| `gpu_metrics` | a printed count is exact at its resolution, the resolution is the best there is, the counts add up to the time | 6 values up to 100, 5 buckets, 5 samples, 1 trouble, counters of 4 values, 2 versions |
| `syncoid_allow` | a running command has its permissions, delegations are taken back, a started command runs | 3 commands, 4 datasets, 3 permissions, 1 reboot |
| `syncoid_provisioning` | (violation) two new datasets of one parent: the end of one command takes the permission of the other | 2 commands |
| `collectors` | no sample is lost or counted twice, a mean lies within what was reported; a field keeps its type; of what happens to a router's items only three things end the program, one of them before the first line; a port's line tells that port's settings; the resources of an installer are extracted in order and whole, one of the same name over another | 2 GPUs, 4 reads, 3 lines, 4 kinds of file; every resource of `TAGS` with a property for each of its parsers, and with all it names at once, 3 items, 2 changes, 2 lines; 6 ports, one setting at a time; 3 executables, 7 sets of collections, among them one with the same name in two collections and one with a name that cannot be opened, 0 to 2 meta resources, 3 trailers |
| `collectors_layout` | (violation) the struct of version 1.1 leaves bytes of the file in no field | one file of each version |

Why the bounds are enough.  A wrong future needs two callers and one who gives
up; the second cancellation of one task needs two timeouts, which `fluke_live`
has too; a third call adds no new neighbour on the line, a third caller only
makes `PassOn` choose (what it does not wake is not in any property), and the
theorems of section 6 hold for every number.  A run of `dns_update` interferes with another one through one entry at
a time, so two runs, three records and one foreign entry show every overlap of a removal
and an addition; the second router shows that a type list is not carried over.
A toggle that is lost is visible after one call and repaired or made worse by
the next; the third call shows that the repair stays.  A settling time of one
period that may end before, at and after the wrap needs a clock of four values.
A request of the display that arrives while a size is read needs two layouts, and one that
is outdated when it is answered two changes; every kind of fault happens at
every point of that, and a second one adds nothing that its recovery does
not undo.  The coordinates of the lines have segments in all eight directions, flat,
steep, diagonal, of no length and beyond the edge; section 6 has the theorem for
all others.  Two GPUs show that a list is not taken for another's, four
reads that a sample comes before, between and after the two steps of an
average.  An item's property changes its form at most twice, which is from the first to
the second and back; two items are what it takes for one to be detected and the
other not.

## 5. Fairness

* Fluke45: weak fairness of every step of the event loop (a ready task runs,
  the port is read) and of the meter (it reads, obeys `^C` and answers all but
  a command that waits for a trigger).  None of calls, timeouts or a lost port.
* DnsUpdate: each run goes on and somebody starts the script again
  after it ended; edits and failures are bounded.  The restart is an
  assumption about the operator, stated in `FairSpec`.
* KenmoreAC, FrigidaireAC: the power sensor reports with a period of its own.
* Meteogram: the display redraws at an interval, the two threads of the
  grapher run on (`run_mqtt` catches what is raised), both clients connect
  again on their own, and the broker delivers what it has.  None of changes of
  the layout or of faults, which are bounded.
* PwrgateLogger: the Go scheduler runs a goroutine that can go on, ten seconds
  pass, a dead descriptor can be read.  None of a device that comes back.
* AmdGpu, MikrotikMetrics, SwosMetrics, QtExtract, Annotations, LineWalk: none.
* SyncoidAllow: systemd works its queue (each step of the scripts of a
  unit, and the start of a command whose units are active), and a command ends.
  None of starts or reboots.
* GpuMetrics: none; it has no liveness property.

## 6. Proofs

`Fluke45Proofs` proves, for any callers, calls and timeouts:

* `TypeCorrect`: `Spec => []TypeOK`;
* `AwaitsPendingAlways`, `HandshakeFirstAlways`, `AnswerOnTheWayAlways`;
* `TakesTurnsAlways`: `Spec => TakesTurns`, the refinement of `RequestLine`;
* `WokenAlways`: `Spec => []WokenWhenReady`; a caller that waits for the handshake
  when it is over was woken by the `notify_all` of `READY` and stays so until it runs
  (`NextWoken`), whoever else gives up meanwhile;
* `DriftBoundedAlways`: the prompts the meter owes too many are at most the
  timeouts so far and one of a previous session.  A timeout and the `^C` it leads to
  are steps of their own, so the invariant (`Drift`) adds to the surplus
  the tasks that were cancelled and have not written yet (`Due`, a finite set);
* `OwnAnswerAlways`: without a timeout an answer is the caller's own.  `Quiet` says
  that question, prompt and future are in step, except that until the first future
  has its outcome a prompt of a previous session may be in front (`Leftover`).

The inductive invariant is `IInv == TypeOK /\ Fresh /\ Holder /\ Suspended`.
`TypeOK` and the properties are not inductive by themselves: that a caller may
take the line needs `Fresh` (the future of a call that has not been made is
`none`), that two futures are never outstanding needs `Holder` (whatever is
`unset` or `cancelled` is `pending`), and that the future of a suspended task is
the pending one needs `Suspended` (its future was created).  `Handshake` adds what
the two commands of `_run` left.  Each action has one step, and under it one
step per conjunct the action can disturb.  The assumptions are those named in
`Fluke45`: `RunnerAssumption`, `MaxCallsAssumption` (the handshake makes two
calls), `MaxCancelsAssumption` and `StaleMarksAssumption`.

`DnsUpdateProofs` proves, for any routers, records, versions of the zone files and
any number of overlapping runs, edits and failures:

* `TypeCorrect`: `Spec => []TypeOK`, with `AtServer`: a run at work is at one of
  the routers, and has a listing only while it scans it;
* `RemovesOnlyUnwantedAlways`: the action property, from `RInv`, which adds that
  ids are unique (`UniqueIds`), that what was listed is static and stays so under its
  id (`ListedStatic`), and that a run has the records of one version
  (`OfVersion`).  The listing may be as old as it likes: an id is not used again for
  another entry while somebody has it listed, so what is removed is what was listed unless
  the administrator changed it in place;
* `ReconciledAlways` and `NoDoubleAddAlways`: for a run that is alone since it
  began, `Undisturbed` says how far it is, in five nested parts: the routers it is done with
  (`ServersDone`), the types of the present one (`TypesDone`), the entries of
  the present type (`EntriesDone`), and that it knows the table (`Knows`).  Each action is a
  lemma; `InOrderMeans` turns the end of it into `Reconciled`.

They use `RecordsAssumption`, `ServersAssumption`, `BoundsAssumption` and
`InputsAssumption` (the zone files are records, and the ids of the tables at the start
are unique).

`GpuMetricsProofs` proves every property of `GpuMetrics`, for any number of buckets
from three, range of scales, width of the counters and set of values:

* `CountsTimeAlways`: the count of the histogram is the clock of the last sample
  less that of the first one.  The invariant is `Counters /\ CountsTime`: the
  clocks are in range.  The step of `Record` is the lemma `Telescope`:
  differences modulo `Wrap` add up;
* `TypeAlways`: a histogram never has more than `MaxSize` buckets.  The loop of
  `resize_to_fit` makes room because it ends: at `CoarsestScale` two buckets
  hold every value (`IndexAtCoarsest`, `FitsAtCoarsest`), and until then the scale
  goes down by one each time (`Coarsening`);
* `BestResolutionAlways`: when the loop went on, the values recorded and the
  new one needed too many buckets at the finer scale (`NotFitting`), and values only
  get more;
* `CumulativeExactAlways`: what is printed for a bound is the weight of the values
  up to it.

The inductive invariant `HInv` relates the histogram to the values that went into it
(`Tells`): its buckets and offset have their shape (`Shaped`), every
recorded value has a bucket (`Inside`), the first and the last bucket have
a value unless a zero put them there (`Ends`), and the count in a bucket is
the weight of the values whose index it is (`Exact`).  Three facts about the code carry
the steps.  A value's index is halved, rounding down, when the scale is one
coarser (`IndexHalves`, at positive and negative scales and across zero), and
`compress` does just that to the buckets, whatever the parity of the first
(`CompressHalves`).  `resize_to_fit` moves the buckets to where they are needed
(`ResizePlaces`), so the new value's bucket exists when its weight is
added (`Adding`).  A value is up to a bound if and only if its index is
(`AtMostIsIndex`), so the buckets up to the bound add up to what is
asked for (`PrefixSums`).  The assumptions are the five named in
`Histogram` and `DeviceAssumption`: that a histogram has room for two positive
buckets and the zero bucket is one of them, without which the loop need not end.

`SyncoidAllowProofs` proves, for any commands, datasets and permissions:

* `TypeCorrect`: `Spec => []TypeOK`;
* `NoLeftoversAlways`: `NoLeftovers` is not inductive, since it says of a
  unit that has begun to stop that it may still answer for its dataset, and its
  next step takes back from the parent only.  `Answered` is: such a unit
  answers for its parent only;
* `RunsPermittedAlways`, under two hypotheses on the configuration.  `Separate`:
  no unit takes a permission back from where the unit of another dataset may
  delegate it.  `Rooted`: a new dataset is the child of one there is.  Without the first
  the theorem is false (`syncoid_provisioning`); `syncoid_allow` has a
  configuration that satisfies both.  The invariant `PInv` says besides the types
  that datasets only come (`Grows`), that a unit whose dataset was there from
  the beginning found it (`Looked`), that an active unit has its delegations
  (`InPlace`), and that a running command's units are active (`OnUnits`).  The lemma
  `Partition`, two units of one dataset share no permission, is why the
  grouping is right.

`CollectorsProofs` proves, for any GPUs, fields, files and bounds:

* `TypeCorrect`: `AmdGpu` is well typed; only metrics of a known version get into a
  list;
* `BufferAlways`: `Spec => BufferImplemented`, the refinement of `SampleBuffer`.
  The invariant adds to the types `Locked`: a sampler about to append holds the
  lock of its GPU and has the list that the next `average()` will take, and a reporter
  about to swap holds the lock.  Then `SamplerAppends` is an `Add`, `Swap` is a
  `Take`, and every other step stutters;
* `MeansAlways`: a mean lies within what was reported, since sum and number are of
  the same values and those leave the readings of all ones out.

They use `AmdGpuAssumption` only.  And, of `MikrotikMetrics`, for any resources,
items and bounds:

* `SurvivesAlways`: `RouterSpec => []Survives`: the program ends by an exception of
  its own in three ways, and no other.  While it prepares, before any line, when a
  parser that the table names refuses a value; later, when an item is gone that was
  listed for this line, or when there are items where there were none at the start.
  The invariant `SInv` adds that between the two requests of a line all items
  listed are still there unless one was removed since (`AllThere`), that only a
  resource with a second request is ever in that part of a line, and that a request
  is only missing if there were no items when it was prepared.  With `TInv` (below),
  it uses `ScenariosAssumption`: no table of a firewall has a second request.
* `TypesKeptAlways`: `RouterSpec => []TypesKept`.  The invariant `TInv` says where
  a field comes from (`From`): it is a default, or it is given by a property
  of one of the two requests under the parser that was chosen for it.  Parsers are
  chosen before anything is printed, and a parser that is chosen is one the
  property may get (`DetectsAll`), so all fields of one property that are ever printed
  are of one parser, in whatever order items come, go and change form.
  Besides `ScenariosAssumption` it uses `NamesAssumption`, for fields of one name that
  two properties give.

Of `SwosMetrics`, for any settings of a switch and any range of half a counter:

* `LinesAlways`: `SwitchSpec => []LinesTell`.  `BitsTell`: the bit of a port in
  a sum of weights is on exactly if the port is, and two of them make up a setting with
  four values (`DualTells`); `HalvesTell`: low and high half make up the counter but for a high half
  of all ones.  `AnswerIs`: the answer has the keys of the fields that the
  switch has and no others, each from its field, and what `merge_64bit` leaves of it has a
  field under its `id` exactly if the switch has the field (`MergeIs`).  Then
  `FormatIs` says what is printed, and `ValuesAre` that nothing else is.  They use
  `SwitchesAssumption` and `FieldsAssumption`, which TLC checks of the table.

Of `QtExtract`, for any executable, collections, resources, number of meta resources,
trailer and window (`InstallersAssumption`):

* `ExtractedAlways`: `InstallerSpec => []ExtractedWhole`, for installers whose cookie
  is the first in the window (`CookieIsFirst`).  `FlatInTurn` says that in
  sequences put together each lies behind those before it, by induction
  over their number; `LiesBoth` and `LiesEach` find a part of a part.  `Layout` is the
  file from its front, `PositionsAre` what the program derives from the cookie at
  its back: they are the same places.  From there on the program reads listings
  (`EntriesAre`), whose entries point at the segments and the data (`CollectionsAre`), so what
  it finds is what was packed (`FoundAre`).  `Extracting` says how far it
  is: the first resources have been written, each is in the destination under its name
  or a later one of that name is.

`MeteogramProofs` proves three things, each for sizes that are whole numbers
(`LayoutsAssumption`, `LengthsAssumption`: pixels of a display and half pixels of a
drawing):

* `TornOnlyBetweenAlways` for `Meteogram`.  `OneRequest`: the grapher's width
  and height are of one request, or will be when the `on_message` at work
  returns.  `ReadWhole`: what `send_graphs` has read so far is of one request, or
  `torn` is set.  Neither is inductive without the other, nor without
  `Requested`: whatever is on its way or retained is a layout;
* `LegibleAlways` for `Annotations`.  `Pointed`: the point of a text is in the axes
  and the text beside it is inside once it was adjusted, which `FitsBeside` and
  `FitsAbove` reduce to arithmetic; `Spread`: the icons looked at so far
  are drawn or overlap one that is;
* `NearLineAlways` (`LineSpec => []NearLine`) for `LineWalk` and every set
  of integer coordinates.  The invariant says that the error term is exactly how far the
  next step along the longer side will take the pen from the line, less half
  a pixel, times twice that side (`ErrorOf`), and that it stays between two bounds
  one pixel apart (`Bounded`); `OnTrack` puts the pen where the counts say.  The
  arithmetic is in the lemmas `StepKeepsError`, `FirstErrorBounded` and
  `WholePixels`; the rest keeps track of directions.  At the end of a
  segment the distance across is a whole number of pixels and less than half a pixel
  from the end, so it is the end.

`ClimateProofs` proves every safety property of `Climates` for both components
(`ClimatesTyped`, `ClimatesInStep`, `KenmoreTempInStep`, `ClimatesPowerKnown`,
`FrigidaireFanReached`), for any range of temperatures, settling time, lag, wrap and
number of calls and troubles, and any calls the types allow (`RequestsAssumption`).
The inductive invariants are `KInv` and `FInv`.  The argument has three parts.

* The clock.  `Timely`: while a reading may be an old one, less time has passed
  since the last command than since the unit changed, and the settling time ends before
  `millis()` wraps.  With `Lag <= Settle` (`TimeAssumption`) no old reading is taken
  at its word (`ClockTicks`); that is why `last_change_time_` is set by every call
  that sends anything (`KNothingSent`, `FNothingSent`).
* The toggles.  In step before a call, the unit is in step after each group of frames
  of it: `KModedInStep` for MODE and ESAVE, which depend on what the unit
  makes of the one before, `FModed3` for the commands of the Frigidaire; the power
  alone (`KModedOn`) needs no more than that the power was known.
  E-save goes with cooling only, on both sides, or a toggle of MODE would
  leave the unit in an e-save nobody asked for.
* The steps.  `TempArrives`: from the temperature known, or through one
  end of the range from any, the clamped steps end at the one asked for.  `FRest`: as many
  steps as there are speeds end at the end, from everywhere.

A call has a fixed number of places for frames so that this can be said without a
recursion.

`SumTheorems` holds what the others need of sums and of induction.  The
theorems of the library that prove an induction take an operator, which no
installed prover can instantiate; here an induction is over a set: a set that
has 0 and with every number the next one has all of them (`NatInd`), and
likewise for the subsets of a finite set (`SubsetInd`).  From those follow that a
function by recursion is what it says (`NatRec`), and what a sum over a finite set
is when an element comes or goes (`SumAdd`, `SumRemove`, `SumUnion`).

Only model-checked: everything about liveness, which with ENABLED is outside
what the prover does (`OwnAnswer` is safety); and that the table `TAGS` satisfies
`NamesAssumption`, which is a computation over its rows and their names.

## 7. What the checks found

* `fluke_happy_place`: the `except` branch of `_ask` says "Send a ^C to get
  back to a happy place"; when the answer is already on its way, the prompt of
  the `^C` is left over and every later answer goes to the wrong caller.
* `dns_wildcard`: "Add all of our entries" adds none when a wildcard and
  another record are missing, after the obsolete ones were removed.
* `syncoid_provisioning`: delegating on the parent "should solve the case of
  provisioning new datasets"; with two new datasets of one parent, the end
  of one command takes the permission back while the other one runs.
* `collectors_layout`: `temperature_hbm` of version 1.1 is a bit field of four bits
  where the kernel has an array of four; 6 of 96 bytes are in no field, though
  "not naturally aligned" is what the comments say of 1.0 only.
* Held back by no doc and so not a finding, but visible in the properties: a
  grapher that lost its connection is deaf to size requests until it is
  restarted, and a request lost after `publish()` returned true is never
  repeated (both exceptions of `Fits`); a property no item has when the
  collector starts is never reported, and a resource that had no items then
  ends the collector when it gets one, as a value does that a named parser
  refuses at the start (`Survives`); of two resources of one name, in two collections
  or in one, the extractor keeps the later one (`ExtractedWhole`), and a cookie
  in the content, if it is in the last megabyte too, is taken for the real one
  (`CookieIsFirst` excludes it); the
  power gate logger hangs for ever when it has a line in hand and the write of its pinger
  fails (`Hung`), and leaves a descriptor open when the device goes
  between `Open` and the first write; a property that both requests
  report under different types is printed under either (`Clash`); a
  caller that found the line busy is woken by no answer and waits until its own
  timeout, or that of another one from Python 3.13 on (`CancelledReturns` gets
  it out; no property can promise more); after a
  command sent just before `millis()` wraps, stale readings count
  (`InStep` excludes it by `WrapsSoon`) or none does (`Blind` in `Learns`); a
  router that holds two equal entries makes every later run fail with a
  `KeyError` (see `NoDoubleAdd`).

## 8. Not modelled

The text of commands and answers, zone file syntax, TTL formatting,
credentials, the fields of a power gate's line, IR timing, what Home Assistant is told; the queries and curves of a
meteogram, and all of the Pillow backend but its lines and the size of a
picture; the connections of the collectors, the escaping of a line of telegraf,
`parse_js`, the rule text of a firewall; that the picture sets the least width of
its widget, beyond that the layout may change at any moment (`Relayout`); a
climate that comes back without a restored state, or with one not yet written to
flash, and which of the first steps of opening a port failed; decompression and the operations of
an installer; and the components listed as `not_modelled` in `PROJECT.json` with
their reasons.
