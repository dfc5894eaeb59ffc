----------------------------- MODULE SwosFields -----------------------------
(***************************************************************************)
(* FIELDS of mikrotik_swos_metrics.py (src/nix/modules/telegraf/mikrotik): *)
(* what a SwOS switch tells of its ports, in which answer and how packed.  *)
(***************************************************************************)

(* FIELDS.  A field without a type is a list of numbers (or of names).     *)

Field(id, name, type, values) ==
  [id |-> id, name |-> name, type |-> type, values |-> values, second |-> ""]
Bool(id, name) == Field(id, name, "bool", <<>>)
Enum(id, name, values) == Field(id, name, "enum", values)
DualBool(id, second, name, values) ==
  [Field(id, name, "dual-bool", values) EXCEPT !.second = second]
Number(id, name) == Field(id, name, "number", <<>>)

Link ==
  {Bool("en", "enabled"), Number("nm", "if-name"), Bool("lnk", "running"),
   Bool("an", "auto-negotiation"), Enum("spdc", "advertised-speed", <<"10", "100", "1000">>),
   Enum("spd", "speed", <<"10", "100", "1000", "none">>), Bool("dpxc", "advertised-full-duplex"),
   Bool("dpx", "full-duplex"), Bool("fct", "flow-control"),
   Enum("poe", "poe-out", <<"off", "auto", "on", "calibr">>),
   Enum("prio", "poe-priority", <<"1", "2", "3", "4">>),
   Enum("poes", "poe-status", <<"none", "disabled", "waiting for load", "powered on",
        "overload", "short circuit", "voltage too low", "current too low", "power cycle",
        "voltage too high", "controller error">>),
   Number("curr", "poe-current"), Number("pwr", "poe-power")}

Fwd ==
  {Enum("vlan", "vlan-mode", <<"disabled", "optional", "enabled", "strict">>),
   Enum("vlni", "vlan-receive", <<"any", "only tagged", "only untagged">>),
   Number("dvid", "default-vlan-id"), Bool("fvid", "force-vlan-id"),
   Enum("vlnh", "vlan-header", <<"leave as is", "always strip", "add if missing">>)}

Rstp ==
  {Bool("ena", "rstp-enabled"), Bool("rstp", "rstp-rapid"),
   Enum("role", "rstp-role", <<"disabled", "alternate", "root", "designated", "backup">>),
   Number("rpc", "rstp-root-path-cost"),
   DualBool("p2p", "edge", "rstp-type", <<"shared", "point-to-point", "edge", "edge">>),
   DualBool("lrn", "fwd", "rstp-state",
            <<"discarding", "learning", "forwarding", "forwarding">>)}

(* Of the counters, which are all alike, one of each kind.                 *)
Stats == {Number("rrb", "rx-rate"), Number("rb", "rx-bytes"), Number("tte", "tx-total-error")}

Sections == <<Link, Fwd, Rstp, Stats>>
FIELDS == UNION {Sections[i] : i \in DOMAIN Sections}

Tags == {"if-name", "default-vlan-id", "rstp-type"}
(* Divisors, in hundredths.                                                *)
Scale(name) == IF name = "poe-power" THEN 1000 ELSE IF name = "rx-rate" THEN 8 ELSE 100
=============================================================================
