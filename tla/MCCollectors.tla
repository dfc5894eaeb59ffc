---------------------------- MODULE MCCollectors ----------------------------
(***************************************************************************)
(* The programs that collect metrics for telegraf: amdgpu.py (AmdGpu),     *)
(* mikrotik_metrics.py (MikrotikMetrics) and mikrotik_swos_metrics.py      *)
(* (SwosMetrics), and the extractor of Qt installers (QtExtract).  Each is *)
(* a process of its own and shares nothing with the others, so a behaviour *)
(* is one of one of them: program says which, and the variables of the     *)
(* others keep their first value.                                          *)
(***************************************************************************)
EXTENDS AmdGpu, MikrotikMetrics, SwosMetrics, QtExtract

VARIABLE program

allVars == <<program, vars, routerVars, switchVars, installerVars>>

-----------------------------------------------------------------------------
(* AmdGpu: a file that parses, one cut short, one of an unknown version, an*)
(* empty one; or, for the layout of the structs, one of every version with *)
(* the size it has when the kernel writes it.                              *)
File(size, declared, version) == [size |-> size, declared |-> declared, version |-> version]
SomeFiles == {File(128, 128, <<2, 2>>), File(60, 128, <<2, 2>>),
              File(132, 132, <<2, 3>>), File(0, 0, <<0, 0>>)}
Written == {<<<<1, 0>>, 80>>, <<<<1, 1>>, 96>>, <<<<1, 2>>, 104>>, <<<<1, 3>>, 120>>,
            <<<<2, 0>>, 120>>, <<<<2, 1>>, 120>>, <<<<2, 2>>, 128>>}
WholeFiles == {File(w[2], w[2], w[1]) : w \in Written}

-----------------------------------------------------------------------------
(* MikrotikMetrics: each resource with one property for each of its        *)
(* parsers, in both requests; and properties TAGS does not name, in every  *)
(* form.  An item has none of them or one of two forms.                    *)
Forms(parser) ==
  CASE parser = "to_str" -> <<"text", "int">>
    [] parser \in {"to_int", "to_int_baseN"} -> <<"int", "own">>
    [] parser = "to_duration" -> <<"duration", "never">>
    [] parser = "to_bool" -> <<"bool", "text">>
    [] parser = "to_ethernet_rates" -> <<"empty", "text">>
    [] parser \in {"is_good", "is_in_bridge", "is_enabled"} -> <<"text", "text">>
    [] OTHER -> <<"own", "other">>

PropertyOf(dict, parser) == CHOOSE p \in DOMAIN dict : dict[p] = parser
(* [name, forms] of a property of each kind.                               *)
OneOfEach(dict) == {[name |-> PropertyOf(dict, parser), forms |-> Forms(parser)] :
                  parser \in {dict[p] : p \in DOMAIN dict}}
Unnamed ==
  {[name |-> n, forms |-> f] :
     n \in {"mtu"}, f \in {<<"int", "bool">>, <<"bool", "text">>, <<"duration", "never">>,
                           <<"pair", "int">>, <<"text", "int">>}}
  \cup {[name |-> "rate", forms |-> <<"rate", "text">>],
        [name |-> "sfp-supply-voltage", forms |-> <<"decimal", "text">>]}
Nothing == [name |-> "none", forms |-> <<"text", "text">>]

ItemsWith(p, q) ==
  {[shown |-> Empty, monitored |-> Empty]}
  \cup {[shown |-> p.name :> p.forms[k], monitored |-> q.name :> q.forms[k]] : k \in {1, 2}}

MonitoredScenarios ==
  UNION {{[resource |-> r, items |-> ItemsWith(p, q)] : p \in OneOfEach(r.types), q \in OneOfEach(r.monitor)}
           : r \in {t \in TAGS : t.monitored}}
PlainScenarios ==
  UNION {{[resource |-> r, items |-> ItemsWith(p, Nothing)] : p \in OneOfEach(r.types)}
           : r \in {t \in TAGS : ~t.monitored}}
UnnamedScenarios ==
  {[resource |-> r, items |-> ItemsWith(p, p)] : r \in {Interface, Ethernet}, p \in Unnamed}

(* All properties TAGS names of a resource at once.                        *)
AllForms(dict, k) == [p \in DOMAIN dict |-> Forms(dict[p])[k]]
WholeScenarios ==
  {[resource |-> r, items |-> {[shown |-> Empty, monitored |-> Empty]}
      \cup {[shown |-> AllForms(r.types, k), monitored |-> AllForms(r.monitor, k)] : k \in {1, 2}}]
     : r \in TAGS}

AllScenarios == WholeScenarios \cup MonitoredScenarios \cup PlainScenarios \cup UnnamedScenarios

-----------------------------------------------------------------------------
(* SwosMetrics: a switch with the usual settings but for one, which has    *)
(* another value at one port; a switch without one of them; and ports that *)
(* do and do not negotiate.                                                *)
Usual(f) == CASE f.type = "bool" -> FALSE [] f.type = "enum" -> 0
              [] f.type = "dual-bool" -> 2 [] f.type = "number" -> 1
Others(f) == CASE f.type = "bool" -> {TRUE} [] f.type = "enum" -> 1..Len(f.values)
               [] f.type = "dual-bool" -> {0, 1, 3}
               [] f.type = "number" -> {0, 3, 4, 11, 14}
UsualSettings ==
  [name \in {f.name : f \in FIELDS} |->
     [p \in Ports |-> Usual(CHOOSE f \in FIELDS : f.name = name)]]
SwitchesLike(usual) ==
  UNION {{[usual EXCEPT ![f.name][p] = v] : p \in Ports, v \in Others(f)}
           : f \in FIELDS}
  \cup {[n \in DOMAIN usual \ {f.name} |-> usual[n]] : f \in FIELDS}
  \cup {[usual EXCEPT !["auto-negotiation"] = [p \in Ports |-> p > 3],
                      !["advertised-speed"] = [p \in Ports |-> p % 3]]}
MCSwitches == SwitchesLike(UsualSettings)

-----------------------------------------------------------------------------
(* QtExtract: installers with none to several collections, with something  *)
(* that looks like the end of one in the executable, in a resource or      *)
(* behind the content; resources of the same name, and one whose name is a *)
(* path.                                                                   *)
Resource1 == [name |-> 101, data |-> <<5, 6>>]
Resource2 == [name |-> 102, data |-> <<7>>]
Another1 == [name |-> 101, data |-> <<4>>]
WithCookie == [name |-> 103, data |-> <<-1, 3>>]
InDirectory == [name |-> 104, data |-> <<2>>]
MCInstallers ==
  [exe : {<<>>, <<9, 9, 9>>, <<9, -1, 9, 9, 9, 9>>},
   collections : {<<>>, <<<<Resource1>>>>, <<<<Resource1, Resource2>>>>,
                  <<<<Resource2>>, <<Resource1>>>>, <<<<>>, <<Resource1>>>>,
                  <<<<Resource1>>, <<Another1, Resource2>>>>,
                  <<<<Resource2, WithCookie>>, <<InDirectory, Resource1>>>>},
   metas : 0..2, trailer : {<<>>, <<8>>, <<8, -1>>}]

-----------------------------------------------------------------------------
NoGpu == Init
NoRouter ==
  /\ scenario = "idle" /\ items = <<>> /\ phase = "idle"
  /\ parsers = Empty /\ monitor = NotPrepared /\ points = Empty /\ types = {}
  /\ removed = FALSE /\ noneAtStart = FALSE /\ requests = 0 /\ changes = 0
NoSwitch == settings = "idle" /\ portLines = <<>> /\ alive = TRUE
NoInstaller == io = <<>> /\ packed = "idle" /\ status = "start" /\ upcoming = 1 /\ files = <<>>

AllInit ==
  \/ program = "amdgpu" /\ Init /\ NoRouter /\ NoSwitch /\ NoInstaller
  \/ program = "mikrotik_metrics" /\ RouterInit /\ NoGpu /\ NoSwitch /\ NoInstaller
  \/ program = "mikrotik_swos_metrics" /\ SwitchInit /\ NoGpu /\ NoRouter /\ NoInstaller
  \/ program = "extract" /\ InstallerInit /\ NoGpu /\ NoRouter /\ NoSwitch

GpuNext ==
  /\ program = "amdgpu" /\ Next
  /\ UNCHANGED <<program, routerVars, switchVars, installerVars>>
CollectorNext ==
  /\ program = "mikrotik_metrics" /\ RouterNext
  /\ UNCHANGED <<program, vars, switchVars, installerVars>>
SwosNext ==
  /\ program = "mikrotik_swos_metrics" /\ SwitchNext
  /\ UNCHANGED <<program, vars, routerVars, installerVars>>
ExtractorNext ==
  /\ program = "extract" /\ InstallerNext
  /\ UNCHANGED <<program, vars, routerVars, switchVars>>

AllNext == GpuNext \/ CollectorNext \/ SwosNext \/ ExtractorNext
AllSpec == AllInit /\ [][AllNext]_allVars
=============================================================================
