----------------------------- MODULE DnsUpdate -----------------------------
(***************************************************************************)
(* dns_update (src/dns/dns_update.py): make the static DNS entries and the *)
(* static DHCP leases of every Mikrotik router equal to the zone files.    *)
(* A run reads a router's table once, removes by id what is not wanted,    *)
(* then adds what is missing.  Nothing locks a router: other runs and the  *)
(* administrator change it meanwhile, and a run may die between any two    *)
(* calls and be started again.                                             *)
(*                                                                         *)
(* An action is one call of the router's API and what the code does up to  *)
(* the next one.  The router (its table and how it answers) is external.   *)
(***************************************************************************)
EXTENDS Integers, Sequences, FiniteSets

CONSTANTS
  Runs,        \* invocations of the script that may overlap
  Servers,     \* routers
  Order,       \* config["server"], a sequence of routers
  Records,     \* records of the zone files, as parse_file builds them
  Foreign,     \* other contents a router's entry may have
  Dns,         \* records and contents of /ip/dns/static; the others are leases
  TypeA,       \* those of type A
  Wild,        \* those with a regexp instead of a name
  Own,         \* Own[s]: records forwarded to router s itself
  Covered,     \* Covered[s]: leases without address, or in a network of s
  OldDns,      \* routers configured with old_dns
  Unknown,     \* Unknown[s]: records s rejects with 'unknown parameter'
  Lax,         \* routers that accept an entry equal to one they have
  Versions,    \* the contents the zone files may have: sequences of inputs
  Initial,     \* entries the routers may start with
  DryRuns,     \* which values of --dry-run are used
  Ids,         \* bound: the ids a router has for its entries
  MaxEdits,    \* bound: changes by the administrator
  MaxFails     \* bound: failed calls and killed runs

Contents == Records \cup Foreign
Resources == {"dns", "lease"}
Resource(r) == IF r \in Dns THEN "dns" ELSE "lease"

ASSUME RecordsAssumption ==
  /\ Wild \subseteq Dns /\ TypeA \subseteq Dns /\ Dns \subseteq Contents
  /\ Order \in Seq(Servers)
ASSUME ServersAssumption ==
  /\ Own \in [Servers -> SUBSET Records] /\ Covered \in [Servers -> SUBSET Records]
  /\ Unknown \in [Servers -> SUBSET Records] /\ Lax \subseteq Servers
ASSUME BoundsAssumption == Ids \subseteq Nat /\ MaxEdits \in Nat /\ MaxFails \in Nat

VARIABLES
  zone,     \* the zone files now
  table,    \* the entries of each router
  run,      \* the local state of each invocation
  alone,    \* runs since whose start nobody else changed a router or the zone
  edits, fails

vars == <<zone, table, run, alone, edits, fails>>

Entries == [id : Ids, rec : Contents, dynamic : BOOLEAN, disabled : BOOLEAN]

(* data.update(parse_file(f)) for each input: a name that occurs in a later*)
(* file loses the records of the earlier ones.                             *)
Hosts(files) ==
  LET has(i) == DOMAIN files[i].names \ files[i].skip
      last(n) == CHOOSE i \in DOMAIN files :
                   n \in has(i) /\ \A j \in DOMAIN files : n \in has(j) => j <= i
  IN  [n \in UNION {has(i) : i \in DOMAIN files} |-> files[last(n)].names[n]]

ZoneRecords(files) == UNION {Hosts(files)[n] : n \in DOMAIN Hosts(files)}

(* Files hold records; a router gives every entry an id of its own.        *)
ASSUME InputsAssumption ==
  /\ \A v \in Versions : ZoneRecords(v) \subseteq Records
  /\ Initial \subseteq SUBSET Entries
  /\ \A I \in Initial : \A e, f \in I : e.id = f.id => e = f
  /\ DryRuns \subseteq BOOLEAN

(* get_records_by_type, for router s.                                      *)
Wanted(s, records) == {r \in records \ Own[s] : r \in Dns \/ r \in Covered[s]}

(* Mistake: the leases are forgotten.                                      *)
DnsOnly(s, records) == {"dns"}
(* The types the run looks at: those with a record.                        *)
Types(s, records) == {Resource(r) : r \in Wanted(s, records)}

(* Mistake: entries the router made by itself are listed as well.          *)
WithDynamic(s, t) == {e \in table[s] : Resource(e.rec) = t}
(* The entries of one type the run looks at.  mikrotik_to_record forgets   *)
(* whether an entry is disabled.                                           *)
Listing(s, t) == {e \in table[s] : Resource(e.rec) = t /\ ~e.dynamic}

(* A router lists its entries in the order of their ids.                   *)
InTurn(entries) == {e \in entries : \A f \in entries : e.id <= f.id}

Idle == [pc |-> "idle", records |-> {}, at |-> 0, types |-> {}, res |-> "dns",
         listing |-> {}, toAdd |-> {}, dry |-> FALSE, ops |-> FALSE]

Init ==
  /\ zone \in Versions
  /\ table \in [Servers -> Initial]
  /\ run = [p \in Runs |-> Idle]
  /\ alone = {}
  /\ edits = 0 /\ fails = 0

-----------------------------------------------------------------------------
(* Building blocks.                                                        *)

Server(p) == Order[run[p].at]

Written(p) == alone' = alone \cap {p}

(* The process ends; an exception ends it like any other.                  *)
Exit(p, how) ==
  run' = [run EXCEPT ![p] = [Idle EXCEPT !.pc = how, !.records = run[p].records,
                                         !.dry = run[p].dry]]

(* remove(id): an error when the entry is gone.                            *)
Has(s, id) == \E e \in table[s] : e.id = id
Removed(s, id) == [table EXCEPT ![s] = {e \in @ : e.id # id}]

(* add(): under an id that no entry and no listing has.                    *)
FreeIds(s) == Ids \ ({e.id : e \in table[s]}
                     \cup UNION {{e.id : e \in run[p].listing} : p \in Runs})
Added(s, r) ==
  [table EXCEPT ![s] = @ \cup {[id |-> CHOOSE i \in FreeIds(s) : TRUE, rec |-> r,
                               dynamic |-> FALSE, disabled |-> FALSE]}]
Refuses(s, r) == s \notin Lax /\ \E e \in table[s] : e.rec = r /\ ~e.dynamic

(* Mistake: what is listed is removed without a look at the zone files.    *)
KeepsNothing(p, e) == FALSE
(* An entry that is in the zone files stays.                               *)
Keeps(p, e) == e.rec \in Wanted(Server(p), run[p].records)

(* Mistake: an entry that stays is added again.                            *)
ForgotPresent(p, e) == run[p].toAdd
LeftToAdd(p, e) == run[p].toAdd \ {e.rec}

-----------------------------------------------------------------------------
(* One run.                                                                *)

(* main() up to the first router.                                          *)
Start(p) ==
  /\ run[p].pc \in {"idle", "exit0", "exit2", "failed"}
  /\ \E d \in DryRuns :
       run' = [run EXCEPT ![p] = [Idle EXCEPT !.pc = "server", !.dry = d, !.at = 1,
                                              !.records = ZoneRecords(zone)]]
  /\ alone' = alone \cup {p}
  /\ UNCHANGED <<zone, table, edits, fails>>

(* The next router: connect, and sort the records by type.                 *)
NextServer(p) ==
  /\ run[p].pc = "server" /\ run[p].at <= Len(Order)
  /\ run' = [run EXCEPT ![p].pc = "type",
                        ![p].types = Types(Server(p), run[p].records)]
  /\ UNCHANGED <<zone, table, alone, edits, fails>>

(* No router is left.                                                      *)
Done(p) ==
  /\ run[p].pc = "server" /\ run[p].at > Len(Order)
  /\ Exit(p, IF run[p].ops THEN "exit0" ELSE "exit2")
  /\ UNCHANGED <<zone, table, alone, edits, fails>>

(* The next type of this router: read its static entries.                  *)
NextType(p) ==
  /\ run[p].pc = "type"
  /\ \/ \E t \in run[p].types :
          run' = [run EXCEPT ![p].pc = "scan", ![p].res = t,
                             ![p].types = @ \ {t},
                             ![p].listing = Listing(Server(p), t),
                             ![p].toAdd = {r \in Wanted(Server(p), run[p].records) :
                                             Resource(r) = t}]
     \/ /\ run[p].types = {}
        /\ run' = [run EXCEPT ![p].pc = "server", ![p].at = @ + 1]
  /\ UNCHANGED <<zone, table, alone, edits, fails>>

(* An entry that is wanted; set.remove raises when an equal one came before*)
ScanKeep(p) ==
  /\ run[p].pc = "scan"
  /\ \E e \in InTurn(run[p].listing) :
       /\ Keeps(p, e)
       /\ \/ /\ e.rec \in run[p].toAdd
             /\ run' = [run EXCEPT ![p].listing = @ \ {e}, ![p].toAdd = LeftToAdd(p, e)]
          \/ /\ e.rec \notin run[p].toAdd
             /\ Exit(p, "failed")
  /\ UNCHANGED <<zone, table, alone, edits, fails>>

(* An entry that is not: remove it by its id.                              *)
ScanRemove(p) ==
  /\ run[p].pc = "scan"
  /\ \E e \in InTurn(run[p].listing) :
       /\ ~Keeps(p, e)
       /\ \/ /\ run[p].dry
             /\ UNCHANGED <<table, alone>>
             /\ run' = [run EXCEPT ![p].listing = @ \ {e}, ![p].ops = TRUE]
          \/ /\ ~run[p].dry /\ Has(Server(p), e.id)
             /\ table' = Removed(Server(p), e.id)
             /\ Written(p)
             /\ run' = [run EXCEPT ![p].listing = @ \ {e}, ![p].ops = TRUE]
          \/ /\ ~run[p].dry /\ ~Has(Server(p), e.id)
             /\ Exit(p, "failed")
             /\ UNCHANGED <<table, alone>>
  /\ UNCHANGED <<zone, edits, fails>>

(* sorted() by name or MAC address: a regexp record has neither, and None  *)
(* does not compare with anything.                                         *)
Sort(p) ==
  /\ run[p].pc = "scan" /\ run[p].listing = {}
  /\ IF run[p].toAdd \cap Wild # {} /\ Cardinality(run[p].toAdd) > 1
     THEN Exit(p, "failed")
     ELSE run' = [run EXCEPT ![p].pc = "add"]
  /\ UNCHANGED <<zone, table, alone, edits, fails>>

(* A record that is not added: old_dns routers only ever get A records, one*)
(* that the router does not know is skipped (and counted), and a dry run   *)
(* adds nothing.                                                           *)
AddSkips(p) ==
  /\ run[p].pc = "add"
  /\ \E r \in run[p].toAdd :
       LET old == Server(p) \in OldDns /\ r \notin TypeA IN
       /\ old => r \in Dns
       /\ old \/ run[p].dry \/ r \in Unknown[Server(p)]
       /\ run' = [run EXCEPT ![p].toAdd = @ \ {r}, ![p].ops = @ \/ ~old]
  /\ UNCHANGED <<zone, table, alone, edits, fails>>

AddWrites(p) ==
  /\ run[p].pc = "add" /\ ~run[p].dry
  /\ \E r \in run[p].toAdd \ Unknown[Server(p)] :
       /\ Server(p) \in OldDns => r \in TypeA
       /\ ~Refuses(Server(p), r) /\ FreeIds(Server(p)) # {}
       /\ table' = Added(Server(p), r)
       /\ run' = [run EXCEPT ![p].toAdd = @ \ {r}, ![p].ops = TRUE]
  /\ Written(p)
  /\ UNCHANGED <<zone, edits, fails>>

(* The router has an equal entry; or old_dns looks for the type of a lease,*)
(* which has none.                                                         *)
AddRaises(p) ==
  /\ run[p].pc = "add"
  /\ \E r \in run[p].toAdd :
       \/ Server(p) \in OldDns /\ r \notin Dns
       \/ /\ ~run[p].dry /\ r \notin Unknown[Server(p)] /\ Refuses(Server(p), r)
          /\ Server(p) \in OldDns => r \in TypeA
  /\ Exit(p, "failed")
  /\ UNCHANGED <<zone, table, alone, edits, fails>>

AddsDone(p) ==
  /\ run[p].pc = "add" /\ run[p].toAdd = {}
  /\ run' = [run EXCEPT ![p].pc = "type"]
  /\ UNCHANGED <<zone, table, alone, edits, fails>>

(* A call of the API fails, or the process is killed.                      *)
Fail(p) ==
  /\ run[p].pc \in {"server", "type", "scan", "add"}
  /\ fails < MaxFails
  /\ fails' = fails + 1
  /\ Exit(p, "failed")
  /\ UNCHANGED <<zone, table, alone, edits>>

Step(p) == \/ NextServer(p) \/ Done(p) \/ NextType(p) \/ ScanKeep(p) \/ ScanRemove(p)
           \/ Sort(p) \/ AddSkips(p) \/ AddWrites(p) \/ AddRaises(p) \/ AddsDone(p)

-----------------------------------------------------------------------------
(* Everybody else (external).                                              *)

(* The administrator adds, changes or removes an entry of a router.        *)
Administer(s) ==
  /\ edits < MaxEdits
  /\ edits' = edits + 1
  /\ \/ \E r \in Contents : /\ FreeIds(s) # {} /\ ~Refuses(s, r)
                             /\ table' = Added(s, r)
     \/ \E e \in table[s] : table' = Removed(s, e.id)
     \/ \E e \in table[s] :
          table' = [table EXCEPT ![s] = (@ \ {e}) \cup {[e EXCEPT !.disabled = ~@]}]
     \/ \E e \in table[s], r \in Contents :
          /\ ~e.dynamic /\ Resource(r) = Resource(e.rec) /\ ~Refuses(s, r)
          /\ table' = [table EXCEPT ![s] = (@ \ {e}) \cup {[e EXCEPT !.rec = r]}]
  /\ alone' = {}
  /\ UNCHANGED <<zone, run, fails>>

(* The zone files change.                                                  *)
EditZone ==
  /\ edits < MaxEdits
  /\ edits' = edits + 1
  /\ \E v \in Versions \ {zone} : zone' = v
  /\ alone' = {}
  /\ UNCHANGED <<table, run, fails>>

-----------------------------------------------------------------------------

Next == \/ \E p \in Runs : Start(p) \/ Step(p) \/ Fail(p)
        \/ \E s \in Servers : Administer(s)
        \/ EditZone

(* A run that was started goes on; somebody keeps starting runs that are   *)
(* not dry (the script has no schedule of its own).                        *)
Fairness == \A p \in Runs : /\ WF_vars(Step(p))
                            /\ WF_vars(Start(p))

Spec == Init /\ [][Next]_vars
FairSpec == Spec /\ Fairness

-----------------------------------------------------------------------------
(* Properties.                                                             *)

RunStates ==
  [pc : {"idle", "server", "type", "scan", "add", "exit0", "exit2", "failed"},
   records : SUBSET Records, at : 0..(Len(Order) + 1), types : SUBSET Resources,
   res : Resources, listing : SUBSET {e \in Entries : ~e.dynamic}, toAdd : SUBSET Records,
   dry : BOOLEAN, ops : BOOLEAN]

TypeOK ==
  /\ zone \in Versions
  /\ table \in [Servers -> SUBSET Entries]
  /\ run \in [Runs -> RunStates]
  /\ alone \subseteq Runs
  /\ edits \in 0..MaxEdits /\ fails \in 0..MaxFails

(* What a router has of the types a run looks at: everything wanted that it*)
(* takes, and nothing else.                                                *)
Takes(s, r) == r \notin Unknown[s] /\ (s \in OldDns => r \in TypeA)
Present(s, t) == {e.rec : e \in Listing(s, t)}
Complete(s, records) ==
  \A r \in Wanted(s, records) : Takes(s, r) => r \in Present(s, Resource(r))
Pure(s, records) ==
  \A t \in Types(s, records) : Present(s, t) \subseteq Wanted(s, records)

(* A run that ends well and was not disturbed has done its work on every   *)
(* router, whatever the routers held before and whatever earlier runs left *)
(* when they died; and "No changes made" is only said of routers in order. *)
Reconciled ==
  \A p \in alone :
    run[p].pc = "exit2" \/ (run[p].pc = "exit0" /\ ~run[p].dry)
      => \A i \in DOMAIN Order : /\ Complete(Order[i], run[p].records)
                                 /\ Pure(Order[i], run[p].records)

(* Runs act on a listing that others make stale.  Still, no run removes a  *)
(* dynamic entry, and it removes an entry every version of the zone files  *)
(* wants only if the administrator changed that very entry in place after  *)
(* the run had listed it with other contents.                              *)
Permanent(s) == {r \in Records : \A v \in Versions : r \in Wanted(s, ZoneRecords(v))}
RemovesOnlyUnwanted ==
  [][edits' = edits =>
       \A s \in Servers : \A e \in table[s] \ table'[s] :
         /\ ~e.dynamic
         /\ e.rec \in Permanent(s) =>
              \E p \in Runs : \E l \in run[p].listing : l.id = e.id /\ l.rec # e.rec]_vars

(* A router that accepts equal entries gets one only from overlapping runs *)
(* (or the administrator), never from a run that had it to itself: an equal*)
(* entry makes every later run fail.                                       *)
NoDoubleAdd ==
  [][edits' = edits =>
       \A s \in Servers : \A e \in table'[s] \ table[s] :
         (\E f \in table[s] : f.rec = e.rec /\ ~f.dynamic)
           => \E p \in Runs \ alone : run'[p] # run[p]]_vars

(* When the changes and the failures stop, the routers end up in order and *)
(* stay so, if somebody keeps running the script.                          *)
Converges ==
  <>[](\A i \in DOMAIN Order : /\ Complete(Order[i], ZoneRecords(zone))
                              /\ Pure(Order[i], ZoneRecords(zone)))

(* The comment above the last loop, "Add all of our entries": a run that   *)
(* nobody disturbed and in which no call failed has added what the router  *)
(* takes.                                                                  *)
AddsAll ==
  \A p \in alone :
    run[p].pc \in {"exit0", "exit2", "failed"} /\ ~run[p].dry /\ fails = 0
      => \A i \in DOMAIN Order : Complete(Order[i], run[p].records)
=============================================================================
