---------------------------- MODULE SwosMetrics ----------------------------
(***************************************************************************)
(* mikrotik_swos_metrics.py (src/nix/modules/telegraf/mikrotik): a line for*)
(* every port of a SwOS switch, put together from answers that hold all    *)
(* ports at once: one bit per port in a number, two numbers for settings   *)
(* with three values, an index into a list of names, or the low and the    *)
(* high half of a counter in two lists.                                    *)
(*                                                                         *)
(* The switch (external) is the reverse of what the program takes it to be.*)
(* A setting is what a user of the switch sees: a Boolean, the index of a  *)
(* choice, or a number.                                                    *)
(***************************************************************************)
EXTENDS SwosFields, Integers, Sequences, Functions

CONSTANTS
  Half,      \* 2^32: what half of a counter holds
  Switches   \* the settings a switch may have: [name -> [Ports -> setting]]

Ports == 1..6    \* range(6)

(* A switch may have any of the settings, each of its type.                *)
Settings(f) ==
  CASE f.type = "bool" -> BOOLEAN [] f.type = "dual-bool" -> 0..3
    [] f.type \in {"enum", "number"} -> Nat
ASSUME SwitchesAssumption ==
  /\ Half \in Nat \ {0}
  /\ \A s \in Switches :
       /\ DOMAIN s \subseteq {f.name : f \in FIELDS}
       /\ \A f \in FIELDS : f.name \in DOMAIN s => \A p \in Ports : s[f.name][p] \in Settings(f)

VARIABLES
  settings,  \* of the switch
  portLines, \* of each port, as printed last: [tags, fields]
  alive

-----------------------------------------------------------------------------
(* What the switch answers (external).                                     *)

Weight == <<1, 2, 4, 8, 16, 32>>    \* of the bit of each port
Bits(on) == SumFunctionOnSet([p \in Ports |-> IF on[p] THEN Weight[p] ELSE 0], Ports)

(* Where an answer has a field.                                            *)
Keys(f) == {f.id} \cup CASE f.type = "dual-bool" -> {f.second}
                         [] f.type = "number" -> {f.id \o "h"}
                         [] f.type \in {"bool", "enum"} -> {}
Encode(f, s) ==
  [k \in Keys(f) |->
     CASE f.type = "bool" -> Bits(s)
       [] f.type = "enum" -> [p \in Ports |-> s[p]]
       [] f.type = "dual-bool" ->
            Bits([p \in Ports |-> (IF k = f.id THEN s[p] % 2 ELSE s[p] \div 2) = 1])
       [] f.type = "number" ->
            [p \in Ports |-> IF k = f.id THEN s[p] % Half ELSE s[p] \div Half]]

(* What a key or a name means is not in doubt.                             *)
ASSUME FieldsAssumption ==
  /\ \A f, g \in FIELDS : f.name = g.name => f = g
  /\ \A f \in FIELDS : /\ f.type \in {"bool", "enum", "dual-bool", "number"}
                       /\ f.second # f.id /\ f.id # f.id \o "h"
  /\ \A i \in DOMAIN Sections : \A f, g \in Sections[i] :
       /\ f # g => Keys(f) \cap Keys(g) = {}
       /\ \A k \in Keys(f) : k \o "h" \in Keys(g) => f.type = "number" /\ k = f.id

(* Dictionaries that have no key in common, in one.                        *)
Merged(dicts) ==
  [k \in UNION {DOMAIN d : d \in dicts} |-> (CHOOSE d \in dicts : k \in DOMAIN d)[k]]
Answer(section) ==
  Merged({Encode(f, settings[f.name]) : f \in {g \in section : g.name \in DOMAIN settings}})

-----------------------------------------------------------------------------
(* What the program makes of it.                                           *)

(* A counter without a high half has all ones there.                       *)
HighHalf(v) == IF v = Half - 1 THEN 0 ELSE v

(* merge_64bit: a list and the one with an h behind its name become one.   *)
merge_64bit(stats) ==
  LET keys_high == {k \o "h" : k \in DOMAIN stats} \cap DOMAIN stats
  IN  [k \in DOMAIN stats \ keys_high |->
         IF k \o "h" \in keys_high
         THEN [p \in Ports |-> stats[k][p] + HighHalf(stats[k \o "h"][p]) * Half]
         ELSE stats[k]]

(* Mistake: the two bits the other way round.                              *)
SwappedBits(first, second) == 2 * first + second
DualIndex(first, second) == 2 * second + first

Bit(value, p) == (value \div Weight[p]) % 2

(* format                                                                  *)
Format(data, f) ==
  CASE f.type = "bool" -> [p \in Ports |-> Bit(data[f.id], p) = 1]
    [] f.type = "enum" -> [p \in Ports |-> LET v == data[f.id][p]
                                           IN  IF v < Len(f.values) THEN f.values[v + 1] ELSE v]
    [] f.type = "dual-bool" ->
         [p \in Ports |-> f.values[DualIndex(Bit(data[f.id], p), Bit(data[f.second], p)) + 1]]
    [] f.type = "number" -> [p \in Ports |-> <<data[f.id][p] * 100, Scale(f.name)>>]

(* get_interface_metrics: the fields (or tags) of each port.  A port that  *)
(* negotiates advertises everything.                                       *)
Values(p) ==
  Merged({LET data == merge_64bit(Answer(Sections[i]))
          IN  Merged({[n \in {f.name} |-> Format(data, f)[p]] :
                        f \in {g \in Sections[i] : g.id \in DOMAIN data}})
            : i \in DOMAIN Sections})

LineOf(p) ==
  LET values == Values(p)
      fields == [n \in DOMAIN values \ Tags |-> values[n]]
  IN  [tags |-> [n \in DOMAIN values \cap Tags |-> values[n]],
       fields |-> IF fields["auto-negotiation"]
                  THEN [n \in DOMAIN fields \cup {"advertised-speed"} |->
                          IF n = "advertised-speed" THEN "1000" ELSE fields[n]]
                  ELSE fields]

SwitchInit == settings \in Switches /\ portLines = <<>> /\ alive = TRUE

(* A line from telegraf.  A switch that does not say whether a port        *)
(* negotiates raises an exception, and that ends the program.              *)
Poll ==
  /\ alive
  /\ IF "auto-negotiation" \in DOMAIN settings
     THEN portLines' = [p \in Ports |-> LineOf(p)] /\ UNCHANGED alive
     ELSE alive' = FALSE /\ UNCHANGED portLines
  /\ UNCHANGED settings

SwitchNext == Poll

switchVars == <<settings, portLines, alive>>
SwitchSpec == SwitchInit /\ [][SwitchNext]_switchVars

-----------------------------------------------------------------------------
(* The line of a port says what the switch is set to at that port, and of  *)
(* nothing else: the bits and halves of one port never end up at another,  *)
(* and a setting the switch does not have is not made up.  A high half of  *)
(* all ones cannot be told from none.                                      *)
LinesTell ==
  \A p \in DOMAIN portLines :
    LET tags == portLines[p].tags
        fields == portLines[p].fields
        negotiates == settings["auto-negotiation"][p]
    IN
    /\ DOMAIN tags = DOMAIN settings \cap Tags
    /\ DOMAIN fields = (DOMAIN settings \ Tags)
                       \cup (IF negotiates THEN {"advertised-speed"} ELSE {})
    /\ \A f \in {g \in FIELDS : g.name \in DOMAIN settings} :
         LET s == settings[f.name][p] IN
         (IF f.name \in Tags THEN tags ELSE fields)[f.name] =
           IF f.name = "advertised-speed" /\ negotiates THEN "1000"
           ELSE CASE f.type = "bool" -> s
                  [] f.type = "enum" -> IF s < Len(f.values) THEN f.values[s + 1] ELSE s
                  [] f.type = "dual-bool" -> f.values[s + 1]
                  [] f.type = "number" ->
                       <<100 * (IF s \div Half = Half - 1 THEN s % Half ELSE s), Scale(f.name)>>
=============================================================================
