-------------------------- MODULE MikrotikMetrics --------------------------
(***************************************************************************)
(* mikrotik_metrics.py (src/nix/modules/telegraf/mikrotik) with one of its *)
(* resources: at start the program looks at the items the router lists and *)
(* settles for each property how it is parsed; from then on, for every line*)
(* from telegraf, it lists the items again, asks a second command          *)
(* (`monitor`) about those it found, and joins the answers by id.  The     *)
(* other resources follow each other in the same way on the same           *)
(* connection, and an exception nobody catches ends them all.              *)
(*                                                                         *)
(* The router (external) lists its items in order and changes in between.  *)
(* A value is a form: what the parsers tell apart.  What is printed of a   *)
(* property is a set of fields, each a name and a type.                    *)
(***************************************************************************)
EXTENDS MikrotikTags, Integers, Sequences, SequencesExt, FiniteSets

CONSTANTS
  Scenarios,   \* [resource, items]: one of TAGS and what its items may be
  Ids,         \* ids of items
  MaxChanges,  \* bound: changes at the router
  MaxRequests  \* bound: lines from telegraf

(* No table of TAGS for a firewall has a second command, or skips any.     *)
ASSUME ScenariosAssumption ==
  \A s \in Scenarios : s.resource.firewall =>
    ~s.resource.monitored /\ \A p \in DOMAIN s.resource.types : s.resource.types[p] # "skip"

VARIABLES
  scenario,
  items,      \* at the router: a sequence of [id, shown, monitored]
  phase,      \* of the program
  parsers,    \* field_types of the resource
  monitor,    \* of its MonitorRequest; NotPrepared if it has no connection
  points,     \* id -> fields, of the list that was printed last
  types,      \* <<field, type>> of all fields printed so far
  removed,    \* (history) an item went away since they were last listed
  noneAtStart,\* (history) there were no items when it was prepared
  requests, changes

routerVars == <<scenario, items, phase, parsers, monitor, points, types, removed,
                noneAtStart, requests, changes>>

resource == scenario.resource
NotPrepared == [id |-> "not prepared"]

-----------------------------------------------------------------------------
(* Parsers.  One refuses a value (ValueError) or gives fields: the name of *)
(* the property with something added, and a type.                          *)

Refused == {<<"refused", "">>}
Gives(prop, types_of) == {<<prop \o t[1], t[2]>> : t \in types_of}

to_float(prop, form) ==
  IF prop = "sfp-supply-voltage" /\ form \in {"int", "decimal"}
  THEN Gives(prop, {<<"", "float">>}) ELSE Refused
to_int(prop, form) == IF form = "int" THEN Gives(prop, {<<"", "int">>}) ELSE Refused
to_duration(prop, form) ==
  CASE form = "duration" -> Gives(prop, {<<"-ns", "int">>})
    [] form = "never" -> {}
    [] OTHER -> Refused
to_txrx(prop, form) ==
  IF form = "pair" THEN {<<"tx-" \o prop, "int">>, <<"rx-" \o prop, "int">>} ELSE Refused
to_bool(prop, form) == IF form = "bool" THEN Gives(prop, {<<"", "bool">>}) ELSE Refused
(* By the name of the property; a rate without a unit is only a name.      *)
to_rate(prop, form) ==
  CASE prop \notin {"rate", "tx-rate"} -> Refused
    [] prop \in {"rate", "tx-rate"} /\ form = "rate" ->
         Gives(prop, {<<"-name", "str">>, <<"", "int">>})
    [] OTHER -> Gives(prop, {<<"-name", "str">>})

(* Those named in TAGS.  "own" is the form such a parser is written for.   *)
OwnFields(parser) ==
  CASE parser = "to_channel" ->
         {<<"-name", "str">>, <<"-center-frequency", "int">>,
          <<"-lower-frequency", "int">>, <<"-upper-frequency", "int">>}
    [] parser = "to_signal" -> {<<"", "int">>, <<"-rate-name", "str">>, <<"-rate", "int">>}
    [] parser = "to_strength_at_rates" -> {<<"", "int">>, <<"-age-ns", "int">>}
    [] parser = "to_current_tx_powers" -> {<<"", "int">>}
    [] parser = "to_expires_after" -> {<<"", "str">>, <<"-expires-after-ns", "int">>}
    [] parser = "to_bandwidth" -> {<<"-rx", "int">>, <<"-tx", "int">>}
    [] parser = "to_bridge_id" -> {<<"-priority", "int">>, <<"-mac-address", "str">>}

Named(parser, prop, form) ==
  CASE parser = "to_str" -> Gives(prop, {<<"", "str">>})
    [] parser = "is_good" -> Gives(prop, {<<"-good", "bool">>})
    [] parser = "is_in_bridge" -> Gives(prop, {<<"-in-bridge", "bool">>})
    [] parser = "is_enabled" -> {<<"state-enabled", "bool">>}
    [] parser = "to_ethernet_rates" ->
         IF form = "empty" THEN {} ELSE Gives(prop, {<<"", "bool">>})
    [] parser = "to_int_baseN" ->
         IF form \in {"int", "own"} THEN Gives(prop, {<<"", "int">>}) ELSE Refused
    [] parser = "to_expires_after" /\ form # "own" -> Gives(prop, {<<"", "str">>})
    [] OTHER -> IF form = "own" THEN Gives(prop, OwnFields(parser)) ELSE Refused

PARSERS == <<"to_float", "to_int", "to_duration", "to_txrx", "to_bool", "to_rate">>

Parse(parser, prop, form) ==
  CASE parser = "to_float" -> to_float(prop, form) [] parser = "to_int" -> to_int(prop, form)
    [] parser = "to_duration" -> to_duration(prop, form)
    [] parser = "to_txrx" -> to_txrx(prop, form)
    [] parser = "to_bool" -> to_bool(prop, form) [] parser = "to_rate" -> to_rate(prop, form)
    [] OTHER -> Named(parser, prop, form)

-----------------------------------------------------------------------------
(* Request.detect_parsers: the parser TAGS names, or the first that accepts*)
(* the value.  An explicit one that refuses raises out of the program.     *)

Accepting(prop, form) == {k \in DOMAIN PARSERS : Parse(PARSERS[k], prop, form) # Refused}
First(S) == CHOOSE k \in S : \A j \in S : k <= j

Explicit(named, prop) == prop \in DOMAIN named
Detectable(named, tags, entry) ==
  {p \in DOMAIN entry \ (tags \cup {"id"}) :
     IF Explicit(named, p) THEN named[p] # "skip" ELSE Accepting(p, entry[p]) # {}}
Detect(named, tags, entry) ==
  [p \in Detectable(named, tags, entry) |->
     IF Explicit(named, p) THEN named[p] ELSE PARSERS[First(Accepting(p, entry[p]))]]

Raises(named, tags, entry) ==
  \E p \in (DOMAIN entry \cap DOMAIN named) \ (tags \cup {"id"}) :
    named[p] # "skip" /\ Parse(named[p], p, entry[p]) = Refused

(* What can happen to a property: [prop, parser, form], whichever entries  *)
(* there are, when, of those there may be.                                 *)
ParsersFor(named, p, forms) ==
  IF Explicit(named, p) THEN {named[p]} \ {"skip"}
  ELSE {PARSERS[First(Accepting(p, form))] : form \in {f \in forms : Accepting(p, f) # {}}}
FormsOf(p, entries) == {entry[p] : entry \in {e \in entries : p \in DOMAIN e}}
Uses(named, entries) ==
  UNION {[prop : {p}, parser : ParsersFor(named, p, FormsOf(p, entries)), form : FormsOf(p, entries)]
           : p \in UNION {DOMAIN e : e \in entries}}
Given(use) == Parse(use.parser, use.prop, use.form) \ Refused

(* No two properties of a resource give a field of one name two types.     *)
ASSUME NamesAssumption ==
  \A s \in Scenarios :
    LET uses == Uses(s.resource.types, {item.shown : item \in s.items})
                \cup Uses(s.resource.monitor, {item.monitored : item \in s.items})
    IN  /\ \A u, v \in uses : (u.prop = v.prop => u.parser = v.parser) =>
             \A f \in Given(u), g \in Given(v) : f[1] = g[1] => f[2] = g[2]
        /\ \A u \in uses : \A f \in Given(u) : f[1] \in s.resource.defaults => f[2] = "bool"

(* Over all entries: the last one that has a property decides.             *)
DetectAll(named, tags, entries) ==
  LET found == [k \in DOMAIN entries |-> Detect(named, tags, entries[k])]
      With(p) == {k \in DOMAIN entries : p \in DOMAIN found[k]}
  IN  [p \in UNION {DOMAIN found[k] : k \in DOMAIN entries} |->
         found[CHOOSE k \in With(p) : \A j \in With(p) : j <= k][p]]
Without(dict, keys) == [k \in DOMAIN dict \ keys |-> dict[k]]
NotSkipped(named) == Without(named, {p \in DOMAIN named : named[p] = "skip"})

(* process_entry: the fields of the properties that still have the form    *)
(* they had at the start; what is refused now is left out.                 *)
(* Mistake: the parser is chosen again for each value.                     *)
DetectedAgain(by, p, form) ==
  IF Accepting(p, form) # {} THEN Parse(PARSERS[First(Accepting(p, form))], p, form)
  ELSE Refused
Settled(by, p, form) == Parse(by[p], p, form)

FieldsOf(by, entry) ==
  UNION {Settled(by, p, entry[p]) \ Refused : p \in DOMAIN by \cap DOMAIN entry}

(* Fields of the same name replace each other.                             *)
Overlay(new, old) == new \cup {f \in old : \A g \in new : g[1] # f[1]}

-----------------------------------------------------------------------------
Listed == [k \in DOMAIN items |-> items[k].shown]
IdsOf(list) == {list[k].id : k \in DOMAIN list}
Item(i) == CHOOSE item \in {items[k] : k \in DOMAIN items} : item.id = i

WithId(item, i) == [id |-> i, shown |-> item.shown, monitored |-> item.monitored]

RouterInit ==
  /\ scenario \in Scenarios
  /\ \E n \in 0..2 : \E of \in [1..n -> scenario.items] :
       items = [k \in 1..n |-> WithId(of[k], k)]
  /\ phase = "start"
  /\ parsers = Empty /\ monitor = NotPrepared
  /\ points = Empty /\ types = {} /\ removed = FALSE /\ noneAtStart = FALSE
  /\ requests = 0 /\ changes = 0

(* Resource.prepare, up to its second request.  A resource the router does *)
(* not have is left out; the tables of a firewall are taken as they are.   *)
(* Properties that no item has yet, and TAGS does not name, stay out.      *)
Prepare ==
  /\ phase = "start"
  /\ \/ /\ phase' = "left out"
        /\ UNCHANGED <<parsers, points>>
     \/ /\ resource.firewall
        /\ phase' = "ready" /\ parsers' = resource.types
        /\ UNCHANGED points
     \/ /\ ~resource.firewall
        /\ \E k \in DOMAIN Listed : Raises(resource.types, resource.tags, Listed[k])
        /\ phase' = "refused"
        /\ UNCHANGED <<parsers, points>>
     \/ /\ ~resource.firewall
        /\ \A k \in DOMAIN Listed : ~Raises(resource.types, resource.tags, Listed[k])
        /\ LET found == DetectAll(resource.types, resource.tags, Listed)
               named == NotSkipped(resource.types)
           IN  parsers' = [p \in (DOMAIN found \cup DOMAIN named) \ resource.tags |->
                             IF p \in DOMAIN found THEN found[p] ELSE named[p]]
        /\ points' = [i \in IdsOf(items) |-> {}]
        /\ phase' = IF resource.monitored /\ items # <<>> THEN "prepare monitor" ELSE "ready"
  /\ removed' = FALSE /\ noneAtStart' = (items = <<>>)
  /\ UNCHANGED <<scenario, items, monitor, types, requests, changes>>

(* An item that is gone by now is an error of the command.                 *)
AllThere == DOMAIN points \subseteq IdsOf(items)
Answers(order) == [k \in DOMAIN order |-> Item(order[k]).monitored]

(* Its second request, for a set of ids.  Only what the answers have now   *)
(* will be looked at from then on.                                         *)
PrepareMonitor ==
  /\ phase = "prepare monitor"
  /\ \/ ~AllThere /\ phase' = "dead" /\ UNCHANGED monitor
     \/ /\ AllThere
        /\ \E i \in DOMAIN points : Raises(resource.monitor, {}, Item(i).monitored)
        /\ phase' = "refused" /\ UNCHANGED monitor
     \/ /\ AllThere
        /\ \A i \in DOMAIN points : ~Raises(resource.monitor, {}, Item(i).monitored)
        /\ \E order \in SetToSeqs(DOMAIN points) :
             monitor' = Without(DetectAll(resource.monitor, {}, Answers(order)), resource.tags)
        /\ phase' = "ready"
  /\ UNCHANGED <<scenario, items, parsers, points, types, removed, noneAtStart, requests, changes>>

(* A line from telegraf: Resource.call and process_entry.  Without a       *)
(* MonitorRequest the points are printed at once.                          *)
List ==
  /\ phase = "ready" /\ requests < MaxRequests
  /\ requests' = requests + 1 /\ removed' = FALSE
  /\ points' = [i \in IdsOf(items) |->
       Overlay(FieldsOf(parsers, Item(i).shown), {<<d, "bool">> : d \in resource.defaults})]
  /\ IF resource.monitored
     THEN phase' = "monitor" /\ UNCHANGED types
     ELSE types' = types \cup UNION {points'[i] : i \in DOMAIN points'} /\ UNCHANGED phase
  /\ UNCHANGED <<scenario, items, parsers, monitor, noneAtStart, changes>>

(* Mistake: the router is asked about no items, too.                       *)
AsksAlways == TRUE
Asks == DOMAIN points # {}

(* MonitorRequest.call.  A request that was never prepared, because there  *)
(* were no items at the start, has no connection to call (AttributeError). *)
Monitor ==
  /\ phase = "monitor"
  /\ IF Asks /\ (monitor = NotPrepared \/ ~AllThere)
     THEN phase' = "dead" /\ UNCHANGED <<points, types>>
     ELSE /\ points' = [i \in DOMAIN points |->
                          Overlay(FieldsOf(monitor, Item(i).monitored), points[i])]
          /\ types' = types \cup UNION {points'[i] : i \in DOMAIN points'}
          /\ phase' = "ready"
  /\ UNCHANGED <<scenario, items, parsers, monitor, removed, noneAtStart, requests, changes>>

(* At the router an item appears at the end, goes away, or changes.        *)
Change ==
  /\ changes < MaxChanges
  /\ changes' = changes + 1
  /\ \/ \E i \in Ids \ IdsOf(items), new \in scenario.items :
          items' = Append(items, WithId(new, i)) /\ UNCHANGED removed
     \/ \E k \in DOMAIN items : items' = RemoveAt(items, k) /\ removed' = TRUE
     \/ \E k \in DOMAIN items, new \in scenario.items :
          items' = [items EXCEPT ![k] = WithId(new, @.id)] /\ UNCHANGED removed
  /\ UNCHANGED <<scenario, phase, parsers, monitor, points, types, noneAtStart, requests>>

RouterNext == Prepare \/ PrepareMonitor \/ List \/ Monitor \/ Change
RouterSpec == RouterInit /\ [][RouterNext]_routerVars

-----------------------------------------------------------------------------
(* Properties.                                                             *)

(* A property both requests report under different types.                  *)
Clash == \E p \in DOMAIN parsers \cap DOMAIN monitor : parsers[p] # monitor[p]

(* InfluxDB refuses a field whose type changes: whatever the router reports*)
(* later, a field keeps the type it was first printed with, for as long as *)
(* the program runs.                                                       *)
TypesKept == Clash \/ \A f, g \in types : f[1] = g[1] => f[2] = g[2]

(* What ends the program: a value that a parser TAGS names refuses, but    *)
(* only before the first line; an item that went away since the items were *)
(* listed, so that the second request asks for it; and, in a resource that *)
(* had no items at the start, an item.  Whatever else comes, goes or       *)
(* changes its form, before or between requests, ends nothing.             *)
Survives ==
  /\ phase = "refused" => requests = 0
  /\ phase = "dead" => removed \/ (noneAtStart /\ DOMAIN points # {})
=============================================================================
