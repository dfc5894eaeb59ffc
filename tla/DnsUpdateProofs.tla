-------------------------- MODULE DnsUpdateProofs --------------------------
(***************************************************************************)
(* Theorems about DnsUpdate, for every set of runs, routers and records.   *)
(***************************************************************************)
EXTENDS DnsUpdate, TLAPS

-----------------------------------------------------------------------------
(* Types.                                                                  *)

LEMMA ServerType ==
  ASSUME NEW i \in 1..Len(Order)
  PROVE  Order[i] \in Servers
  BY RecordsAssumption

LEMMA WantedType ==
  ASSUME NEW s, NEW R, R \subseteq Records
  PROVE  Wanted(s, R) \subseteq Records
  BY DEF Wanted

LEMMA ResourceType == \A r : Resource(r) \in Resources
  BY DEF Resource, Resources

LEMMA TypesType == \A s, R : Types(s, R) \subseteq Resources
  BY ResourceType DEF Types

(* A router's table with one entry more is a table.                        *)
LEMMA AddedType ==
  ASSUME TypeOK, NEW s \in Servers, NEW r \in Contents, FreeIds(s) # {}
  PROVE  /\ Added(s, r) \in [Servers -> SUBSET Entries]
         /\ \E n \in Entries :
              /\ n.rec = r /\ ~n.dynamic /\ n.id \in FreeIds(s)
              /\ Added(s, r) = [table EXCEPT ![s] = table[s] \cup {n}]
  <1> DEFINE i == CHOOSE j \in FreeIds(s) : TRUE
             n == [id |-> i, rec |-> r, dynamic |-> FALSE, disabled |-> FALSE]
  <1>1. i \in FreeIds(s) /\ i \in Ids
    BY DEF FreeIds
  <1>2. n \in Entries /\ n.rec = r /\ ~n.dynamic /\ n.id = i
    BY <1>1 DEF Entries
  <1>3. Added(s, r) = [table EXCEPT ![s] = table[s] \cup {n}]
    BY DEF Added
  <1> HIDE DEF n, i
  <1> QED
    BY <1>1, <1>2, <1>3 DEF TypeOK

LEMMA RemovedType ==
  ASSUME TypeOK, NEW s \in Servers, NEW i
  PROVE  Removed(s, i) \in [Servers -> SUBSET Entries]
  BY DEF Removed, TypeOK

-----------------------------------------------------------------------------
LEMMA IdleType == Idle \in RunStates
  BY RecordsAssumption DEF Idle, RunStates, Resources

(* Nothing runs at first.                                                  *)
LEMMA TypeInit == Init => TypeOK
  BY IdleType, InputsAssumption, BoundsAssumption DEF Init, TypeOK

(* An exit leaves a run with its records and its --dry-run.                *)
LEMMA ExitType ==
  ASSUME TypeOK, NEW p \in Runs, NEW how \in {"exit0", "exit2", "failed"}, Exit(p, how)
  PROVE  /\ run' \in [Runs -> RunStates]
         /\ run' = [run EXCEPT ![p] = run'[p]]
         /\ run'[p].pc = how /\ run'[p].listing = {} /\ run'[p].at = 0
         /\ run'[p].records = run[p].records /\ run'[p].dry = run[p].dry
  <1> DEFINE R == [Idle EXCEPT !.pc = how, !.records = run[p].records, !.dry = run[p].dry]
  <1>1. run[p] \in RunStates
    BY DEF TypeOK
  <1>2. /\ R \in RunStates /\ R.pc = how /\ R.listing = {} /\ R.at = 0
        /\ R.records = run[p].records /\ R.dry = run[p].dry
    BY <1>1, IdleType DEF RunStates, Idle
  <1>3. run' = [run EXCEPT ![p] = R]
    BY DEF Exit
  <1> HIDE DEF R
  <1> QED
    BY <1>2, <1>3 DEF TypeOK

(* At work on a router.                                                    *)
Working(p) == run[p].pc \in {"type", "scan", "add"}

(* The router a run works on is one of the order, and only a run that      *)
(* scans has a listing.                                                    *)
AtServer ==
  \A p \in Runs : /\ Working(p) => run[p].at \in 1..Len(Order)
                  /\ run[p].pc # "scan" => run[p].listing = {}
                  /\ run[p].pc = "server" => run[p].at >= 1

(* A run that goes on keeps the types, whatever it goes on to.             *)
LEMMA WorkingServer ==
  ASSUME TypeOK, AtServer, NEW p \in Runs, Working(p)
  PROVE  Server(p) \in Servers /\ run[p].at \in 1..Len(Order)
  BY ServerType DEF AtServer, Server

Typed == TypeOK /\ AtServer

(* run' differs from run at p only, where it is the record R.              *)
LEMMA RunUpdate ==
  ASSUME Typed, NEW p \in Runs, NEW R \in RunStates, run' = [run EXCEPT ![p] = R],
         R.pc \in {"type", "scan", "add"} => R.at \in 1..Len(Order),
         R.pc # "scan" => R.listing = {},
         R.pc = "server" => R.at >= 1
  PROVE  run' \in [Runs -> RunStates] /\ AtServer'
  BY DEF Typed, TypeOK, AtServer, Working

LEMMA StartType ==
  ASSUME Typed, NEW p \in Runs, Start(p)
  PROVE  Typed'
  <1>1. PICK d \in DryRuns :
           run' = [run EXCEPT ![p] = [Idle EXCEPT !.pc = "server", !.dry = d, !.at = 1,
                                                  !.records = ZoneRecords(zone)]]
    BY DEF Start
  <1> DEFINE R == [Idle EXCEPT !.pc = "server", !.dry = d, !.at = 1,
                               !.records = ZoneRecords(zone)]
  <1>2. Len(Order) \in Nat /\ d \in BOOLEAN /\ ZoneRecords(zone) \subseteq Records
    BY RecordsAssumption, InputsAssumption DEF Typed, TypeOK
  <1>3. R \in [pc : {"server"}, records : SUBSET Records, at : {1}, types : {{}},
               res : {"dns"}, listing : {{}}, toAdd : {{}}, dry : BOOLEAN, ops : {FALSE}]
    BY <1>2 DEF Idle
  <1>4. 1 \in 0..(Len(Order) + 1)
    BY <1>2
  <1>5. run' = [run EXCEPT ![p] = R]
    BY <1>1
  <1> HIDE DEF R
  <1>6. R.pc = "server" /\ R.listing = {} /\ R.at >= 1
    BY <1>3
  <1>7. R \in RunStates
    BY <1>3, <1>4 DEF RunStates, Resources
  <1>8. run' \in [Runs -> RunStates] /\ AtServer'
    <2>1. R.pc \notin {"type", "scan", "add"}
      BY <1>6
    <2> QED
      BY <1>5, <1>6, <1>7, <2>1, RunUpdate
  <1> QED
    BY <1>8 DEF Start, Typed, TypeOK

LEMMA StepTypeTable ==
  ASSUME Typed, NEW p \in Runs, Step(p)
  PROVE  /\ table' \in [Servers -> SUBSET Entries]
         /\ zone' = zone /\ edits' = edits /\ fails' = fails
         /\ alone' = alone \/ alone' = alone \cap {p}
  <1>1. CASE ScanRemove(p)
    <2>1. Server(p) \in Servers
      BY <1>1, WorkingServer DEF ScanRemove, Typed, Working
    <2> QED
      BY <1>1, <2>1, RemovedType DEF ScanRemove, Typed, TypeOK, Written
  <1>2. CASE AddWrites(p)
    <2>1. Server(p) \in Servers
      BY <1>2, WorkingServer DEF AddWrites, Typed, Working
    <2>2. run[p].toAdd \subseteq Contents
      BY DEF Typed, TypeOK, RunStates, Contents
    <2> QED
      BY <1>2, <2>1, <2>2, AddedType DEF AddWrites, Typed, TypeOK, Written
  <1> QED
    BY <1>1, <1>2 DEF Step, NextServer, Done, NextType, ScanKeep, Sort, AddSkips, AddRaises,
       AddsDone, Typed, TypeOK

(* One step of a run leaves a run of the right type.                       *)
LEMMA StepTypeRun ==
  ASSUME Typed, NEW p \in Runs, Step(p)
  PROVE  run' \in [Runs -> RunStates] /\ AtServer'
  <1> DEFINE r == run[p]
  <1>1. r \in RunStates /\ Len(Order) \in Nat
    BY RecordsAssumption DEF Typed, TypeOK
  <1>2. CASE \E how \in {"exit0", "exit2", "failed"} : Exit(p, how)
    <2>1. PICK how \in {"exit0", "exit2", "failed"} : Exit(p, how)
      BY <1>2
    <2>2. run' \in [Runs -> RunStates] /\ run' = [run EXCEPT ![p] = run'[p]]
          /\ run'[p].pc = how /\ run'[p].listing = {}
      BY <2>1, ExitType DEF Typed
    <2> QED
      BY <2>2, RunUpdate
  <1>3. CASE NextServer(p)
    <2> DEFINE R == [r EXCEPT !.pc = "type", !.types = Types(Server(p), r.records)]
    <2>1. run' = [run EXCEPT ![p] = R] /\ r.pc = "server" /\ r.at <= Len(Order)
      BY <1>3 DEF NextServer, Typed, TypeOK
    <2>2. r.at >= 1 /\ r.listing = {}
      BY <2>1 DEF Typed, AtServer
    <2>3. R \in RunStates /\ R.pc = "type" /\ R.at = r.at /\ R.listing = {}
      BY <1>1, <2>2, TypesType DEF RunStates
    <2>4. R.at \in 1..Len(Order)
      BY <1>1, <2>1, <2>2, <2>3 DEF RunStates
    <2> QED
      BY <2>1, <2>3, <2>4, RunUpdate
  <1>4. CASE NextType(p)
    <2>0. r.pc = "type" /\ r.at \in 1..Len(Order) /\ Server(p) \in Servers /\ r.listing = {}
      BY <1>4, WorkingServer DEF NextType, Working, Typed, AtServer
    <2>1. ASSUME NEW t \in r.types,
                 run' = [run EXCEPT ![p].pc = "scan", ![p].res = t,
                             ![p].types = @ \ {t},
                             ![p].listing = Listing(Server(p), t),
                             ![p].toAdd = {x \in Wanted(Server(p), run[p].records) :
                                             Resource(x) = t}]
          PROVE  run' \in [Runs -> RunStates] /\ AtServer'
      <3> DEFINE A == {x \in Wanted(Server(p), r.records) : Resource(x) = t}
                 R == [r EXCEPT !.pc = "scan", !.res = t, !.types = @ \ {t},
                                !.listing = Listing(Server(p), t), !.toAdd = A]
      <3>1. run' = [run EXCEPT ![p] = R]
        BY <2>1 DEF Typed, TypeOK
      <3>2. A \subseteq Records /\ Listing(Server(p), t) \subseteq {e \in Entries : ~e.dynamic}
        BY <1>1, <2>0, WantedType DEF Listing, Typed, TypeOK, RunStates
      <3> HIDE DEF A
      <3>3. R \in RunStates /\ R.pc = "scan" /\ R.at = r.at
        BY <1>1, <3>2, <2>1 DEF RunStates
      <3> HIDE DEF R
      <3> QED
        BY <3>1, <3>3, <2>0, RunUpdate
    <2>2. ASSUME run' = [run EXCEPT ![p].pc = "server", ![p].at = @ + 1]
          PROVE  run' \in [Runs -> RunStates] /\ AtServer'
      <3> DEFINE R == [r EXCEPT !.pc = "server", !.at = @ + 1]
      <3>1. run' = [run EXCEPT ![p] = R]
        BY <2>2 DEF Typed, TypeOK
      <3>2. r.at \in Int /\ r.at + 1 \in 0..(Len(Order) + 1) /\ r.at + 1 >= 1
        BY <1>1, <2>0
      <3>3. R \in RunStates /\ R.pc = "server" /\ R.at = r.at + 1 /\ R.listing = {}
        BY <1>1, <2>0, <3>2 DEF RunStates
      <3> HIDE DEF R
      <3> QED
        BY <3>1, <3>2, <3>3, RunUpdate
    <2> QED
      BY <1>4, <2>1, <2>2 DEF NextType
  <1>5. ASSUME NEW e, NEW A, A \subseteq r.toAdd, ScanKeep(p),
               run' = [run EXCEPT ![p].listing = @ \ {e}, ![p].toAdd = A]
        PROVE  run' \in [Runs -> RunStates] /\ AtServer'
    <2> DEFINE R == [r EXCEPT !.listing = @ \ {e}, !.toAdd = A]
    <2>1. run' = [run EXCEPT ![p] = R] /\ r.pc = "scan"
      BY <1>5 DEF Typed, TypeOK, ScanKeep
    <2>2. R \in RunStates /\ R.pc = "scan" /\ R.at = r.at
      BY <1>1, <1>5, <2>1 DEF RunStates
    <2>3. r.at \in 1..Len(Order)
      BY <2>1, WorkingServer DEF Typed, Working
    <2> QED
      BY <2>1, <2>2, <2>3, RunUpdate
  <1>6. ASSUME NEW e, ScanRemove(p),
               run' = [run EXCEPT ![p].listing = @ \ {e}, ![p].ops = TRUE]
        PROVE  run' \in [Runs -> RunStates] /\ AtServer'
    <2> DEFINE R == [r EXCEPT !.listing = @ \ {e}, !.ops = TRUE]
    <2>1. run' = [run EXCEPT ![p] = R] /\ r.pc = "scan"
      BY <1>6 DEF Typed, TypeOK, ScanRemove
    <2>2. R \in RunStates /\ R.pc = "scan" /\ R.at = r.at
      BY <1>1, <2>1 DEF RunStates
    <2>3. r.at \in 1..Len(Order)
      BY <2>1, WorkingServer DEF Typed, Working
    <2> QED
      BY <2>1, <2>2, <2>3, RunUpdate
  <1>7. ASSUME Sort(p), run' = [run EXCEPT ![p].pc = "add"]
        PROVE  run' \in [Runs -> RunStates] /\ AtServer'
    <2> DEFINE R == [r EXCEPT !.pc = "add"]
    <2>1. run' = [run EXCEPT ![p] = R] /\ r.pc = "scan" /\ r.listing = {}
      BY <1>7 DEF Typed, TypeOK, Sort
    <2>2. R \in RunStates /\ R.pc = "add" /\ R.at = r.at /\ R.listing = {}
      BY <1>1, <2>1 DEF RunStates
    <2>3. r.at \in 1..Len(Order)
      BY <2>1, WorkingServer DEF Typed, Working
    <2> QED
      BY <2>1, <2>2, <2>3, RunUpdate
  <1>8. ASSUME NEW x, NEW o \in BOOLEAN, r.pc = "add",
               run' = [run EXCEPT ![p].toAdd = @ \ {x}, ![p].ops = o]
        PROVE  run' \in [Runs -> RunStates] /\ AtServer'
    <2> DEFINE R == [r EXCEPT !.toAdd = @ \ {x}, !.ops = o]
    <2>1. run' = [run EXCEPT ![p] = R] /\ r.listing = {}
      BY <1>8 DEF Typed, TypeOK, AtServer
    <2>2. R \in RunStates /\ R.pc = "add" /\ R.at = r.at /\ R.listing = {}
      BY <1>1, <1>8, <2>1 DEF RunStates
    <2>3. r.at \in 1..Len(Order)
      BY <1>8, WorkingServer DEF Typed, Working
    <2> QED
      BY <2>1, <2>2, <2>3, RunUpdate
  <1>9. CASE AddsDone(p)
    <2> DEFINE R == [r EXCEPT !.pc = "type"]
    <2>1. run' = [run EXCEPT ![p] = R] /\ r.pc = "add" /\ r.listing = {}
      BY <1>9 DEF Typed, TypeOK, AddsDone, AtServer
    <2>2. R \in RunStates /\ R.pc = "type" /\ R.at = r.at /\ R.listing = {}
      BY <1>1, <2>1 DEF RunStates
    <2>3. r.at \in 1..Len(Order)
      BY <2>1, WorkingServer DEF Typed, Working
    <2> QED
      BY <2>1, <2>2, <2>3, RunUpdate
  <1>10. CASE ScanKeep(p)
    <2>1. PICK e : \/ run' = [run EXCEPT ![p].listing = @ \ {e},
                                        ![p].toAdd = LeftToAdd(p, e)]
                   \/ Exit(p, "failed")
      BY <1>10 DEF ScanKeep
    <2>2. LeftToAdd(p, e) \subseteq r.toAdd
      BY DEF LeftToAdd
    <2> HIDE DEF r
    <2> QED
      BY <1>2, <1>5, <1>10, <2>1, <2>2
  <1>11. CASE ScanRemove(p)
    BY <1>2, <1>6, <1>11 DEF ScanRemove
  <1>12. CASE Sort(p)
    BY <1>2, <1>7, <1>12 DEF Sort
  <1>13. CASE AddSkips(p)
    <2>1. PICK x \in r.toAdd :
             run' = [run EXCEPT ![p].toAdd = @ \ {x},
                                ![p].ops = @ \/ ~(Server(p) \in OldDns /\ x \notin TypeA)]
      BY <1>13 DEF AddSkips
    <2> DEFINE o == r.ops \/ ~(Server(p) \in OldDns /\ x \notin TypeA)
    <2>2. run' = [run EXCEPT ![p].toAdd = @ \ {x}, ![p].ops = o]
      BY <2>1 DEF Typed, TypeOK
    <2>3. o \in BOOLEAN
      OBVIOUS
    <2> HIDE DEF o
    <2> QED
      BY <1>8, <1>13, <2>2, <2>3 DEF AddSkips
  <1>14. CASE AddWrites(p)
    BY <1>8, <1>14 DEF AddWrites
  <1>15. CASE Done(p) \/ AddRaises(p)
    BY <1>2, <1>15 DEF Done, AddRaises
  <1> QED
    BY <1>3, <1>4, <1>9, <1>10, <1>11, <1>12, <1>13, <1>14, <1>15 DEF Step

LEMMA FailType ==
  ASSUME Typed, NEW p \in Runs, Fail(p)
  PROVE  Typed'
  <1>1. /\ run' \in [Runs -> RunStates] /\ run' = [run EXCEPT ![p] = run'[p]]
        /\ run'[p].pc = "failed" /\ run'[p].listing = {}
    BY ExitType DEF Fail, Typed
  <1>2. run' \in [Runs -> RunStates] /\ AtServer'
    BY <1>1, RunUpdate
  <1> QED
    BY <1>2, BoundsAssumption DEF Fail, Typed, TypeOK

(* The ways in which the administrator changes a router: a new entry, one  *)
(* less, or one changed that stays what it is.                             *)
Changes(s) ==
  \/ \E n \in Entries : /\ n.id \in FreeIds(s) /\ ~n.dynamic
                        /\ table' = [table EXCEPT ![s] = table[s] \cup {n}]
  \/ \E e \in table[s] : table' = Removed(s, e.id)
  \/ \E e \in table[s], f \in Entries :
       /\ f.id = e.id /\ f.dynamic = e.dynamic
       /\ table' = [table EXCEPT ![s] = (table[s] \ {e}) \cup {f}]

LEMMA AdministerChanges ==
  ASSUME TypeOK, NEW s \in Servers, Administer(s)
  PROVE  Changes(s)
  <1>1. ASSUME NEW r \in Contents, FreeIds(s) # {}, table' = Added(s, r)
        PROVE  Changes(s)
    BY <1>1, AddedType DEF Changes
  <1>2. ASSUME NEW e \in table[s],
               table' = [table EXCEPT ![s] = (@ \ {e}) \cup {[e EXCEPT !.disabled = ~@]}]
        PROVE  Changes(s)
    <2> DEFINE f == [e EXCEPT !.disabled = ~@]
    <2>1. e \in Entries
      BY DEF TypeOK
    <2>2. f \in Entries /\ f.id = e.id /\ f.dynamic = e.dynamic
      BY <2>1 DEF Entries
    <2>3. table' = [table EXCEPT ![s] = (table[s] \ {e}) \cup {f}]
      BY <1>2 DEF TypeOK
    <2> HIDE DEF f
    <2> QED
      BY <2>2, <2>3 DEF Changes
  <1>3. ASSUME NEW e \in table[s], NEW r \in Contents,
               table' = [table EXCEPT ![s] = (@ \ {e}) \cup {[e EXCEPT !.rec = r]}]
        PROVE  Changes(s)
    <2> DEFINE f == [e EXCEPT !.rec = r]
    <2>1. e \in Entries
      BY DEF TypeOK
    <2>2. f \in Entries /\ f.id = e.id /\ f.dynamic = e.dynamic
      BY <2>1 DEF Entries
    <2>3. table' = [table EXCEPT ![s] = (table[s] \ {e}) \cup {f}]
      BY <1>3 DEF TypeOK
    <2> HIDE DEF f
    <2> QED
      BY <2>2, <2>3 DEF Changes
  <1> QED
    BY <1>1, <1>2, <1>3 DEF Administer, Changes

LEMMA TypedStep == Typed /\ [Next]_vars => Typed'
  <1> SUFFICES ASSUME Typed, [Next]_vars PROVE Typed'
    OBVIOUS
  <1>1. ASSUME NEW p \in Runs, Step(p) PROVE Typed'
    <2>1. run' \in [Runs -> RunStates] /\ AtServer'
      BY <1>1, StepTypeRun
    <2> QED
      BY <1>1, <2>1, StepTypeTable DEF Typed, TypeOK
  <1>2. ASSUME NEW s \in Servers, Administer(s) PROVE Typed'
    <2>1. table' \in [Servers -> SUBSET Entries]
      <3>1. Changes(s)
        BY <1>2, AdministerChanges DEF Typed
      <3> QED
        BY <3>1, RemovedType DEF Changes, Typed, TypeOK
    <2>2. edits' \in 0..MaxEdits
      BY <1>2, BoundsAssumption DEF Administer, Typed, TypeOK
    <2> QED
      BY <1>2, <2>1, <2>2 DEF Administer, Typed, TypeOK, AtServer, Working
  <1>3. ASSUME EditZone PROVE Typed'
    <2>1. edits' \in 0..MaxEdits
      BY <1>3, BoundsAssumption DEF EditZone, Typed, TypeOK
    <2> QED
      BY <1>3, <2>1 DEF EditZone, Typed, TypeOK, AtServer, Working
  <1>4. ASSUME UNCHANGED vars PROVE Typed'
    BY <1>4 DEF vars, Typed, TypeOK, AtServer, Working
  <1> QED
    BY <1>1, <1>2, <1>3, <1>4, StartType, FailType DEF Next

LEMMA TypedInit == Init => Typed
  <1> SUFFICES ASSUME Init PROVE Typed
    OBVIOUS
  <1>1. AtServer
    BY DEF Init, AtServer, Working, Idle
  <1> QED
    BY <1>1, TypeInit DEF Typed

(* Every reachable state has its type.                                     *)
THEOREM TypeCorrect == Spec => []TypeOK
  <1>1. Typed => TypeOK
    BY DEF Typed
  <1> QED
    BY <1>1, TypedInit, TypedStep, PTL DEF Spec

-----------------------------------------------------------------------------
(* What the actions do to the run that takes them, field by field.         *)

Others(p) == \A q \in Runs \ {p} : run'[q] = run[q]
SameJob(p) == run'[p].records = run[p].records /\ run'[p].dry = run[p].dry
SamePlace(p) == /\ SameJob(p) /\ run'[p].at = run[p].at /\ run'[p].types = run[p].types
                /\ run'[p].res = run[p].res
Ends(p, how) == /\ Others(p) /\ SameJob(p) /\ run'[p].pc = how /\ run'[p].listing = {}

LEMMA ExitEnds ==
  ASSUME Typed, NEW p \in Runs, NEW how \in {"exit0", "exit2", "failed"}, Exit(p, how)
  PROVE  Ends(p, how)
  <1>1. /\ run \in [Runs -> RunStates] /\ run' = [run EXCEPT ![p] = run'[p]]
        /\ run'[p].pc = how /\ run'[p].listing = {} /\ SameJob(p)
    BY ExitType DEF Typed, TypeOK, SameJob
  <1> QED
    BY <1>1 DEF Ends, Others

LEMMA StartEffect ==
  ASSUME Typed, NEW p \in Runs, Start(p)
  PROVE  /\ Others(p) /\ run'[p].pc = "server" /\ run'[p].at = 1 /\ run'[p].listing = {}
         /\ run'[p].records = ZoneRecords(zone) /\ ~run'[p].ops
         /\ alone' = alone \cup {p} /\ UNCHANGED <<zone, table>>
  <1> QED
    BY DEF Start, Typed, TypeOK, RunStates, Others, Idle

LEMMA NextServerEffect ==
  ASSUME Typed, NEW p \in Runs, NextServer(p)
  PROVE  /\ Others(p) /\ SameJob(p) /\ run'[p].ops = run[p].ops
         /\ run[p].pc = "server" /\ run'[p].pc = "type" /\ run'[p].at = run[p].at
         /\ run'[p].types = Types(Server(p), run[p].records)
         /\ run'[p].listing = run[p].listing
         /\ UNCHANGED <<zone, table, alone>>
  BY DEF NextServer, Typed, TypeOK, RunStates, Others, SameJob

LEMMA NextTypeEffect ==
  ASSUME Typed, NEW p \in Runs, NextType(p)
  PROVE  /\ Others(p) /\ SameJob(p) /\ run'[p].ops = run[p].ops
         /\ run[p].pc = "type" /\ UNCHANGED <<zone, table, alone>>
         /\ \/ \E t \in run[p].types :
                /\ run'[p].pc = "scan" /\ run'[p].at = run[p].at /\ run'[p].res = t
                /\ run'[p].types = run[p].types \ {t}
                /\ run'[p].listing = Listing(Server(p), t)
                /\ run'[p].toAdd = {r \in Wanted(Server(p), run[p].records) :
                                     Resource(r) = t}
            \/ /\ run[p].types = {} /\ run'[p].pc = "server" /\ run'[p].at = run[p].at + 1
               /\ run'[p].listing = run[p].listing
  <1>1. run \in [Runs -> RunStates]
    BY DEF Typed, TypeOK
  <1>2. ASSUME NEW t \in run[p].types, NEW L, NEW A,
               run' = [run EXCEPT ![p].pc = "scan", ![p].res = t,
                             ![p].types = @ \ {t},
                             ![p].listing = L, ![p].toAdd = A]
        PROVE  /\ Others(p) /\ SameJob(p) /\ run'[p].ops = run[p].ops
               /\ run'[p].pc = "scan" /\ run'[p].at = run[p].at /\ run'[p].res = t
               /\ run'[p].types = run[p].types \ {t}
               /\ run'[p].listing = L /\ run'[p].toAdd = A
    BY <1>1, <1>2 DEF RunStates, Others, SameJob
  <1>3. ASSUME run' = [run EXCEPT ![p].pc = "server", ![p].at = @ + 1]
        PROVE  /\ Others(p) /\ SameJob(p) /\ run'[p].ops = run[p].ops
               /\ run'[p].pc = "server" /\ run'[p].at = run[p].at + 1
               /\ run'[p].listing = run[p].listing
    BY <1>1, <1>3 DEF RunStates, Others, SameJob
  <1>4. run[p].pc = "type" /\ UNCHANGED <<zone, table, alone>>
    BY DEF NextType
  <1>5. CASE run[p].types = {} /\ run' = [run EXCEPT ![p].pc = "server", ![p].at = @ + 1]
    BY <1>3, <1>4, <1>5
  <1>6. ASSUME NEW t \in run[p].types,
               run' = [run EXCEPT ![p].pc = "scan", ![p].res = t,
                             ![p].types = @ \ {t},
                             ![p].listing = Listing(Server(p), t),
                             ![p].toAdd = {r \in Wanted(Server(p), run[p].records) :
                                             Resource(r) = t}]
        PROVE  /\ Others(p) /\ SameJob(p) /\ run'[p].ops = run[p].ops
               /\ run'[p].pc = "scan" /\ run'[p].at = run[p].at /\ run'[p].res = t
               /\ run'[p].types = run[p].types \ {t}
               /\ run'[p].listing = Listing(Server(p), t)
               /\ run'[p].toAdd = {r \in Wanted(Server(p), run[p].records) :
                                    Resource(r) = t}
    <2> DEFINE A == {r \in Wanted(Server(p), run[p].records) : Resource(r) = t}
               L == Listing(Server(p), t)
    <2>1. run' = [run EXCEPT ![p].pc = "scan", ![p].res = t, ![p].types = @ \ {t},
                             ![p].listing = L, ![p].toAdd = A]
      BY <1>6
    <2> HIDE DEF A, L
    <2>2. /\ Others(p) /\ SameJob(p) /\ run'[p].ops = run[p].ops
          /\ run'[p].pc = "scan" /\ run'[p].at = run[p].at /\ run'[p].res = t
          /\ run'[p].types = run[p].types \ {t}
          /\ run'[p].listing = L /\ run'[p].toAdd = A
      BY <2>1, <1>2
    <2> QED
      BY <2>2 DEF A, L
  <1> QED
    BY <1>4, <1>5, <1>6 DEF NextType

LEMMA ScanKeepEffect ==
  ASSUME Typed, NEW p \in Runs, ScanKeep(p)
  PROVE  /\ run[p].pc = "scan" /\ UNCHANGED <<zone, table, alone>>
         /\ \/ Ends(p, "failed")
            \/ \E e \in run[p].listing :
                 /\ Others(p) /\ SamePlace(p) /\ run'[p].ops = run[p].ops
                 /\ run'[p].pc = "scan" /\ Keeps(p, e)
                 /\ run'[p].listing = run[p].listing \ {e}
                 /\ run'[p].toAdd = run[p].toAdd \ {e.rec}
  <1>1. run \in [Runs -> RunStates]
    BY DEF Typed, TypeOK
  <1>2. run[p].pc = "scan" /\ UNCHANGED <<zone, table, alone>>
    BY DEF ScanKeep
  <1>3. PICK e \in run[p].listing :
          /\ Keeps(p, e)
          /\ \/ run' = [run EXCEPT ![p].listing = @ \ {e}, ![p].toAdd = LeftToAdd(p, e)]
             \/ Exit(p, "failed")
    BY DEF ScanKeep, InTurn
  <1>4. CASE run' = [run EXCEPT ![p].listing = @ \ {e}, ![p].toAdd = LeftToAdd(p, e)]
    <2>1. /\ Others(p) /\ SamePlace(p) /\ run'[p].ops = run[p].ops
          /\ run'[p].pc = "scan"
          /\ run'[p].listing = run[p].listing \ {e} /\ run'[p].toAdd = LeftToAdd(p, e)
      BY <1>1, <1>2, <1>4 DEF RunStates, Others, SamePlace, SameJob
    <2> QED
      BY <2>1, <1>2, <1>3 DEF LeftToAdd
  <1> QED
    BY <1>2, <1>3, <1>4, ExitEnds

LEMMA ScanRemoveEffect ==
  ASSUME Typed, NEW p \in Runs, ScanRemove(p)
  PROVE  /\ run[p].pc = "scan" /\ zone' = zone
         /\ \/ Ends(p, "failed") /\ UNCHANGED <<table, alone>>
            \/ \E e \in run[p].listing :
                 /\ Others(p) /\ SamePlace(p) /\ run'[p].ops
                 /\ run'[p].pc = "scan" /\ ~Keeps(p, e)
                 /\ run'[p].listing = run[p].listing \ {e}
                 /\ run'[p].toAdd = run[p].toAdd
                 /\ \/ run[p].dry /\ UNCHANGED <<table, alone>>
                    \/ /\ ~run[p].dry /\ table' = Removed(Server(p), e.id)
                       /\ alone' = alone \cap {p}
  <1>1. run \in [Runs -> RunStates]
    BY DEF Typed, TypeOK
  <1>2. run[p].pc = "scan" /\ zone' = zone
    BY DEF ScanRemove
  <1>3. PICK e \in run[p].listing :
          /\ ~Keeps(p, e)
          /\ \/ /\ run' = [run EXCEPT ![p].listing = @ \ {e}, ![p].ops = TRUE]
                /\ \/ run[p].dry /\ UNCHANGED <<table, alone>>
                   \/ /\ ~run[p].dry /\ table' = Removed(Server(p), e.id)
                      /\ alone' = alone \cap {p}
             \/ Exit(p, "failed") /\ UNCHANGED <<table, alone>>
    BY DEF ScanRemove, InTurn, Written
  <1>4. CASE run' = [run EXCEPT ![p].listing = @ \ {e}, ![p].ops = TRUE]
    <2>1. /\ Others(p) /\ SamePlace(p) /\ run'[p].ops
          /\ run'[p].pc = "scan"
          /\ run'[p].listing = run[p].listing \ {e} /\ run'[p].toAdd = run[p].toAdd
      BY <1>1, <1>2, <1>4 DEF RunStates, Others, SamePlace, SameJob
    <2>2. \/ run[p].dry /\ UNCHANGED <<table, alone>>
          \/ /\ ~run[p].dry /\ table' = Removed(Server(p), e.id)
             /\ alone' = alone \cap {p}
          \/ Exit(p, "failed") /\ UNCHANGED <<table, alone>>
      BY <1>3
    <2> QED
      BY <2>1, <2>2, <1>2, <1>3, ExitEnds
  <1> QED
    BY <1>2, <1>3, <1>4, ExitEnds

LEMMA SortEffect ==
  ASSUME Typed, NEW p \in Runs, Sort(p)
  PROVE  /\ run[p].pc = "scan" /\ run[p].listing = {} /\ UNCHANGED <<zone, table, alone>>
         /\ \/ Ends(p, "failed")
            \/ /\ Others(p) /\ SamePlace(p) /\ run'[p].ops = run[p].ops
               /\ run'[p].pc = "add" /\ run'[p].toAdd = run[p].toAdd /\ run'[p].listing = {}
  <1>1. run \in [Runs -> RunStates]
    BY DEF Typed, TypeOK
  <1>2. CASE run' = [run EXCEPT ![p].pc = "add"]
    BY <1>1, <1>2 DEF Sort, RunStates, Others, SamePlace, SameJob
  <1>3. CASE Exit(p, "failed")
    BY <1>3, ExitEnds DEF Sort
  <1> QED
    BY <1>2, <1>3 DEF Sort

(* The record x is done with, whether it was added or not.                 *)
Handles(p, x) ==
  /\ Others(p) /\ SamePlace(p) /\ run'[p].pc = "add" /\ run'[p].listing = run[p].listing
  /\ run'[p].toAdd = run[p].toAdd \ {x}

LEMMA AddSkipsEffect ==
  ASSUME Typed, NEW p \in Runs, AddSkips(p)
  PROVE  /\ run[p].pc = "add" /\ UNCHANGED <<zone, table, alone>>
         /\ \E x \in run[p].toAdd :
              /\ Handles(p, x)
              /\ \/ Server(p) \in OldDns /\ x \notin TypeA
                 \/ run'[p].ops /\ (run[p].dry \/ x \in Unknown[Server(p)])
              /\ run[p].ops => run'[p].ops
  <1>1. run \in [Runs -> RunStates]
    BY DEF Typed, TypeOK
  <1>2. run[p].pc = "add" /\ UNCHANGED <<zone, table, alone>>
    BY DEF AddSkips
  <1>3. PICK x \in run[p].toAdd :
          /\ \/ Server(p) \in OldDns /\ x \notin TypeA
             \/ run[p].dry \/ x \in Unknown[Server(p)]
          /\ run' = [run EXCEPT ![p].toAdd = @ \ {x},
                                ![p].ops = @ \/ ~(Server(p) \in OldDns /\ x \notin TypeA)]
    BY DEF AddSkips
  <1> DEFINE o == run[p].ops \/ ~(Server(p) \in OldDns /\ x \notin TypeA)
  <1>4. run' = [run EXCEPT ![p].toAdd = @ \ {x}, ![p].ops = o]
    BY <1>1, <1>3
  <1>5. /\ run[p].ops => o
        /\ o \/ (Server(p) \in OldDns /\ x \notin TypeA)
    OBVIOUS
  <1> HIDE DEF o
  <1>6. Handles(p, x) /\ run'[p].ops = o
    BY <1>1, <1>2, <1>4 DEF RunStates, Others, SamePlace, SameJob, Handles
  <1> QED
    BY <1>2, <1>3, <1>5, <1>6

LEMMA AddWritesEffect ==
  ASSUME Typed, NEW p \in Runs, AddWrites(p)
  PROVE  /\ run[p].pc = "add" /\ ~run[p].dry /\ zone' = zone /\ alone' = alone \cap {p}
         /\ Server(p) \in Servers
         /\ \E n \in Entries :
              /\ n.rec \in run[p].toAdd /\ ~n.dynamic /\ n.id \in FreeIds(Server(p))
              /\ table' = [table EXCEPT ![Server(p)] = table[Server(p)] \cup {n}]
              /\ Handles(p, n.rec) /\ run'[p].ops
  <1>1. run \in [Runs -> RunStates]
    BY DEF Typed, TypeOK
  <1>2. /\ run[p].pc = "add" /\ ~run[p].dry /\ zone' = zone /\ alone' = alone \cap {p}
        /\ Server(p) \in Servers
    BY WorkingServer DEF AddWrites, Written, Typed, Working
  <1>3. PICK x \in run[p].toAdd : /\ FreeIds(Server(p)) # {}
                                  /\ table' = Added(Server(p), x)
                                  /\ run' = [run EXCEPT ![p].toAdd = @ \ {x}, ![p].ops = TRUE]
    BY DEF AddWrites
  <1>4. x \in Contents
    BY <1>1 DEF RunStates, Contents
  <1>5. PICK n \in Entries :
           /\ n.rec = x /\ ~n.dynamic /\ n.id \in FreeIds(Server(p))
           /\ Added(Server(p), x) = [table EXCEPT ![Server(p)] = table[Server(p)] \cup {n}]
    BY <1>2, <1>3, <1>4, AddedType DEF Typed
  <1>6. Handles(p, x) /\ run'[p].ops
    BY <1>1, <1>2, <1>3 DEF RunStates, Others, SamePlace, SameJob, Handles
  <1> QED
    BY <1>2, <1>3, <1>5, <1>6

LEMMA AddsDoneEffect ==
  ASSUME Typed, NEW p \in Runs, AddsDone(p)
  PROVE  /\ run[p].pc = "add" /\ run[p].toAdd = {} /\ UNCHANGED <<zone, table, alone>>
         /\ Others(p) /\ SamePlace(p) /\ run'[p].ops = run[p].ops
         /\ run'[p].pc = "type" /\ run'[p].listing = run[p].listing
  BY DEF AddsDone, Typed, TypeOK, RunStates, Others, SamePlace, SameJob

LEMMA DoneEffect ==
  ASSUME Typed, NEW p \in Runs, Done(p)
  PROVE  /\ run[p].pc = "server" /\ run[p].at > Len(Order) /\ UNCHANGED <<zone, table, alone>>
         /\ Ends(p, IF run[p].ops THEN "exit0" ELSE "exit2")
  BY ExitEnds DEF Done

(* A run that dies, or that raises.                                        *)
LEMMA EndEffect ==
  ASSUME Typed, NEW p \in Runs, AddRaises(p) \/ Fail(p)
  PROVE  Ends(p, "failed") /\ UNCHANGED <<zone, table, alone>>
  BY ExitEnds DEF AddRaises, Fail

-----------------------------------------------------------------------------
(* RemovesOnlyUnwanted.                                                    *)

(* A router gives no id twice.                                             *)
UniqueIds == \A s \in Servers : \A e, f \in table[s] : e.id = f.id => e = f

(* What stands under an id that a run has listed was not made by the       *)
(* router itself.                                                          *)
ListedStatic ==
  \A p \in Runs : \A l \in run[p].listing : \A e \in table[Server(p)] :
    e.id = l.id => ~e.dynamic

(* A run works with the zone files of one moment.                          *)
OfVersion ==
  \A p \in Runs : run[p].pc = "server" \/ Working(p) =>
    \E v \in Versions : run[p].records = ZoneRecords(v)

RInv == Typed /\ UniqueIds /\ ListedStatic /\ OfVersion

(* Entries keep their id and stay static or dynamic; new ones come under   *)
(* ids that nobody knows.                                                  *)
Evolves(s) ==
  \A e \in table'[s] : \/ \E f \in table[s] : f.id = e.id /\ f.dynamic = e.dynamic
                       \/ e.id \in FreeIds(s)

(* What a step can do to a router: the run p removes what stands under the *)
(* id of an entry it listed and does not keep, or adds what it has still to*)
(* add; or the administrator changes something.                            *)
Removes(p, l) == /\ ScanRemove(p) /\ run[p].pc = "scan" /\ Server(p) \in Servers
                 /\ ~run[p].dry /\ ~Keeps(p, l)
                 /\ table' = Removed(Server(p), l.id)
Adds(p, n) == /\ AddWrites(p) /\ run[p].pc = "add" /\ Server(p) \in Servers
              /\ n.rec \in run[p].toAdd /\ ~n.dynamic /\ n.id \in FreeIds(Server(p))
              /\ table' = [table EXCEPT ![Server(p)] = table[Server(p)] \cup {n}]

(* What each step does to the tables of the routers.                       *)
LEMMA TableStep ==
  ASSUME Typed, [Next]_vars
  PROVE  \/ table' = table
         \/ \E p \in Runs : \E l \in run[p].listing : Removes(p, l)
         \/ \E p \in Runs : \E n \in Entries : Adds(p, n)
         \/ \E s \in Servers : Administer(s) /\ Changes(s)
  <1>1. ASSUME NEW p \in Runs, ScanRemove(p)
        PROVE  table' = table \/ \E l \in run[p].listing : Removes(p, l)
    <2>1. Server(p) \in Servers
      BY <1>1, WorkingServer DEF ScanRemove, Typed, Working
    <2> QED
      BY <1>1, <2>1, ScanRemoveEffect DEF Removes
  <1>2. ASSUME NEW p \in Runs, AddWrites(p)
        PROVE  \E n \in Entries : Adds(p, n)
    BY <1>2, AddWritesEffect DEF Adds
  <1>3. ASSUME NEW s \in Servers, Administer(s)
        PROVE  Changes(s)
    BY <1>3, AdministerChanges DEF Typed
  <1> QED
    BY <1>1, <1>2, <1>3 DEF Next, Step, Start, Fail, NextServer, Done, NextType, ScanKeep, Sort,
       AddSkips, AddRaises, AddsDone, EditZone, vars

LEMMA FreeIdsAreNew ==
  ASSUME NEW s \in Servers
  PROVE  /\ \A e \in table[s] : e.id \notin FreeIds(s)
         /\ \A p \in Runs : \A l \in run[p].listing : l.id \notin FreeIds(s)
  BY DEF FreeIds

(* What run q has listed it had listed before, or it has just read it from *)
(* its router.                                                             *)
Lists(q) ==
  \A l \in run'[q].listing :
    \/ l \in run[q].listing /\ run'[q].at = run[q].at
    \/ /\ table' = table /\ run'[q].at = run[q].at
       /\ \E t : l \in Listing(Server(q), t)

LEMMA ListingStep ==
  ASSUME Typed, [Next]_vars, NEW q \in Runs
  PROVE  Lists(q)
  <1>1. ASSUME NEW p \in Runs, Others(p), Lists(p)
        PROVE  Lists(q)
    BY <1>1 DEF Others, Lists
  <1>2. ASSUME NEW p \in Runs, Step(p) \/ Start(p) \/ Fail(p)
        PROVE  Others(p) /\ Lists(p)
    <2>1. CASE Start(p)
      BY <2>1, StartEffect DEF Lists
    <2>2. CASE NextServer(p)
      BY <2>2, NextServerEffect DEF Lists
    <2>3. CASE NextType(p)
      <3>1. run[p].listing = {}
        BY <2>3, NextTypeEffect DEF Typed, AtServer
      <3> QED
        BY <2>3, <3>1, NextTypeEffect DEF Lists
    <2>4. CASE ScanKeep(p)
      BY <2>4, ScanKeepEffect DEF Lists, Ends, SamePlace
    <2>5. CASE ScanRemove(p)
      BY <2>5, ScanRemoveEffect DEF Lists, Ends, SamePlace
    <2>6. CASE Sort(p)
      BY <2>6, SortEffect DEF Lists, Ends
    <2>7. CASE AddSkips(p)
      BY <2>7, AddSkipsEffect DEF Lists, Handles, SamePlace
    <2>8. CASE AddWrites(p)
      BY <2>8, AddWritesEffect DEF Lists, Handles, SamePlace
    <2>9. CASE AddsDone(p)
      BY <2>9, AddsDoneEffect DEF Lists, SamePlace
    <2>10. CASE Done(p)
      BY <2>10, DoneEffect DEF Lists, Ends
    <2>11. CASE AddRaises(p) \/ Fail(p)
      BY <2>11, EndEffect DEF Lists, Ends
    <2> QED
      BY <1>2, <2>1, <2>2, <2>3, <2>4, <2>5, <2>6, <2>7, <2>8, <2>9, <2>10, <2>11 DEF Step
  <1>3. CASE UNCHANGED run
    BY <1>3 DEF Lists
  <1> QED
    BY <1>1, <1>2, <1>3 DEF Next, Administer, EditZone, vars

(* What happens to the entries that are there, and where new ones come     *)
(* from.                                                                   *)
LEMMA EntriesEvolve ==
  ASSUME Typed, [Next]_vars, NEW s \in Servers
  PROVE  Evolves(s)
  <1> USE DEF Typed, TypeOK, Evolves
  <1>1. CASE table' = table
    BY <1>1
  <1>2. ASSUME NEW p \in Runs, NEW l \in run[p].listing, Removes(p, l)
        PROVE  Evolves(s)
    BY <1>2 DEF Removes, Removed
  <1>3. ASSUME NEW p \in Runs, NEW n \in Entries, Adds(p, n)
        PROVE  Evolves(s)
    BY <1>3 DEF Adds
  <1>4. ASSUME NEW r \in Servers, Changes(r)
        PROVE  Evolves(s)
    BY <1>4 DEF Changes, Removed
  <1> QED
    BY <1>1, <1>2, <1>3, <1>4, TableStep

LEMMA UniqueIdsStep ==
  ASSUME Typed, UniqueIds, [Next]_vars
  PROVE  UniqueIds'
  <1> SUFFICES ASSUME NEW s \in Servers, NEW e \in table'[s], NEW f \in table'[s], e.id = f.id
               PROVE  e = f
    BY DEF UniqueIds
  <1> USE DEF Typed, TypeOK
  <1>1. CASE table' = table
    BY <1>1 DEF UniqueIds
  <1>2. ASSUME NEW p \in Runs, NEW l \in run[p].listing, Removes(p, l)
        PROVE  e = f
    BY <1>2 DEF Removes, Removed, UniqueIds
  <1>3. ASSUME NEW p \in Runs, NEW n \in Entries, Adds(p, n)
        PROVE  e = f
    BY <1>3, FreeIdsAreNew DEF Adds, UniqueIds
  <1>4. ASSUME NEW r \in Servers, Changes(r)
        PROVE  e = f
    BY <1>4, FreeIdsAreNew DEF Changes, Removed, UniqueIds
  <1> QED
    BY <1>1, <1>2, <1>3, <1>4, TableStep

LEMMA ListedStaticStep ==
  ASSUME Typed, UniqueIds, ListedStatic, [Next]_vars
  PROVE  ListedStatic'
  <1> SUFFICES ASSUME NEW q \in Runs, NEW l \in run'[q].listing,
                      NEW e \in table'[Order[run'[q].at]], e.id = l.id
               PROVE  ~e.dynamic
    BY DEF ListedStatic, Server
  <1>1. Typed' /\ run'[q].pc = "scan"
    BY TypedStep DEF Typed, AtServer
  <1>2. Order[run'[q].at] \in Servers
    BY <1>1, ServerType DEF Typed, AtServer, Working
  <1> DEFINE s == Order[run'[q].at]
  <1>3. Lists(q) /\ Evolves(s)
    BY <1>2, ListingStep, EntriesEvolve
  <1>4. CASE l \in run[q].listing /\ run'[q].at = run[q].at
    <2>1. e.id \notin FreeIds(s)
      BY <1>2, <1>4, FreeIdsAreNew
    <2>2. PICK f \in table[s] : f.id = e.id /\ f.dynamic = e.dynamic
      BY <1>3, <2>1 DEF Evolves
    <2> QED
      BY <1>4, <2>2 DEF ListedStatic, Server
  <1>5. ASSUME table' = table, run'[q].at = run[q].at, NEW t, l \in Listing(Server(q), t)
        PROVE  ~e.dynamic
    BY <1>2, <1>5 DEF Listing, UniqueIds, Server
  <1> QED
    BY <1>3, <1>4, <1>5 DEF Lists

LEMMA OfVersionStep ==
  ASSUME Typed, OfVersion, [Next]_vars
  PROVE  OfVersion'
  <1> DEFINE Dated(q) == run[q].pc = "server" \/ Working(q) =>
                           \E v \in Versions : run[q].records = ZoneRecords(v)
  <1>1. ASSUME NEW p \in Runs, Others(p), SameJob(p), run[p].pc = "server" \/ Working(p)
        PROVE  OfVersion'
    BY <1>1 DEF OfVersion, Others, SameJob, Working
  <1>2. ASSUME NEW p \in Runs, Start(p)
        PROVE  OfVersion'
    <2>1. zone \in Versions
      BY DEF Typed, TypeOK
    <2> QED
      BY <1>2, <2>1, StartEffect DEF OfVersion, Others, Working
  <1>3. ASSUME NEW p \in Runs, Step(p)
        PROVE  Others(p) /\ SameJob(p) /\ (run[p].pc = "server" \/ Working(p))
    BY <1>3, NextServerEffect, NextTypeEffect, ScanKeepEffect, ScanRemoveEffect, SortEffect,
       AddSkipsEffect, AddWritesEffect, AddsDoneEffect, DoneEffect, EndEffect
    DEF Step, AddRaises, Ends, SamePlace, Handles, Working
  <1>4. ASSUME NEW p \in Runs, Fail(p)
        PROVE  Others(p) /\ SameJob(p) /\ (run[p].pc = "server" \/ Working(p))
    BY <1>4, EndEffect DEF Fail, Ends, Working
  <1>5. CASE UNCHANGED run
    BY <1>5 DEF OfVersion, Working
  <1> QED
    BY <1>1, <1>2, <1>3, <1>4, <1>5 DEF Next, Administer, EditZone, vars

(* No run has listed anything at first.                                    *)
LEMMA RInvInit == Init => RInv
  <1> SUFFICES ASSUME Init PROVE RInv
    OBVIOUS
  <1>1. UniqueIds
    BY InputsAssumption DEF Init, UniqueIds
  <1>2. ListedStatic /\ OfVersion
    BY DEF Init, ListedStatic, OfVersion, Idle, Working
  <1> QED
    BY <1>1, <1>2, TypedInit DEF RInv

(* Every step keeps what a listing says about a table.                     *)
LEMMA RInvStep == RInv /\ [Next]_vars => RInv'
  BY TypedStep, UniqueIdsStep, ListedStaticStep, OfVersionStep DEF RInv

(* A run keeps an entry that every version of the zone files wants.        *)
LEMMA PermanentKept ==
  ASSUME RInv, NEW p \in Runs, Working(p), NEW l, l.rec \in Permanent(Server(p))
  PROVE  Keeps(p, l)
  BY DEF RInv, OfVersion, Permanent, Keeps

(* A step of a run removes entries that RemovesOnlyUnwanted lets it remove.*)
LEMMA RemovalsUnwanted ==
  ASSUME RInv, [Next]_vars, edits' = edits,
         NEW s \in Servers, NEW e \in table[s] \ table'[s]
  PROVE  /\ ~e.dynamic
         /\ e.rec \in Permanent(s) =>
              \E p \in Runs : \E l \in run[p].listing : l.id = e.id /\ l.rec # e.rec
  <1> USE DEF RInv, Typed, TypeOK
  <1>1. ASSUME NEW p \in Runs, NEW l \in run[p].listing, Removes(p, l)
        PROVE  /\ ~e.dynamic
               /\ e.rec \in Permanent(s) => l.id = e.id /\ l.rec # e.rec
    <2>1. s = Server(p) /\ e.id = l.id
      BY <1>1 DEF Removes, Removed
    <2>2. ~e.dynamic
      BY <2>1 DEF ListedStatic
    <2>3. e.rec \in Permanent(s) => l.rec # e.rec
      BY <1>1, <2>1, PermanentKept DEF Removes, Working
    <2> QED
      BY <2>1, <2>2, <2>3
  <1>2. ~(\E p \in Runs : \E n \in Entries : Adds(p, n))
    BY DEF Adds
  <1>3. ~(\E r \in Servers : Administer(r))
    BY DEF Administer
  <1> QED
    BY <1>1, <1>2, <1>3, TableStep

(* No run removes a dynamic entry, nor one that is always wanted unless it *)
(* was changed under its id after the run had listed it.                   *)
THEOREM RemovesOnlyUnwantedAlways == Spec => RemovesOnlyUnwanted
  <1>1. RInv /\ [Next]_vars =>
          [edits' = edits =>
             \A s \in Servers : \A e \in table[s] \ table'[s] :
               /\ ~e.dynamic
               /\ e.rec \in Permanent(s) =>
                    \E p \in Runs : \E l \in run[p].listing : l.id = e.id /\ l.rec # e.rec]_vars
    BY RemovalsUnwanted
  <1> QED
    BY <1>1, RInvInit, RInvStep, PTL DEF Spec, RemovesOnlyUnwanted

-----------------------------------------------------------------------------
(* NoDoubleAdd and Reconciled: what a run knows of a router as long as     *)
(* nobody else changes anything.                                           *)

(* Of the entries T of a router: those the run looks at for type t, as     *)
(* Listing has them.                                                       *)
Static(T, t) == {e \in T : Resource(e.rec) = t /\ ~e.dynamic}
(* Router s with the entries T is in order for the records R of type t.    *)
DoneIn(T, s, R, t) ==
  /\ \A e \in Static(T, t) : e.rec \in Wanted(s, R)
  /\ \A r \in Wanted(s, R) : Resource(r) = t /\ Takes(s, r) =>
       \E e \in Static(T, t) : e.rec = r
InOrder(T, s, R) == \A t \in Types(s, R) : DoneIn(T, s, R, t)

(* A table in order is reconciled.                                         *)
LEMMA InOrderMeans ==
  ASSUME NEW s \in Servers, NEW R
  PROVE  InOrder(table[s], s, R) <=> Complete(s, R) /\ Pure(s, R)
  <1>1. \A t : Present(s, t) = {e.rec : e \in Static(table[s], t)}
    BY DEF Present, Listing, Static
  <1>2. \A r \in Wanted(s, R) : Resource(r) \in Types(s, R)
    BY DEF Types
  <1> QED
    BY <1>1, <1>2 DEF InOrder, DoneIn, Complete, Pure

(* Removing what is not wanted and adding what is does no harm.            *)
LEMMA DoneRemoved ==
  ASSUME NEW T, NEW s, NEW R, NEW t, DoneIn(T, s, R, t),
         NEW l, l.rec \notin Wanted(s, R)
  PROVE  DoneIn(T \ {l}, s, R, t)
  BY DEF DoneIn, Static

(* One more static entry that is wanted does no harm.                      *)
LEMMA DoneAdded ==
  ASSUME NEW T, NEW s, NEW R, NEW t, DoneIn(T, s, R, t),
         NEW n, n.rec \in Wanted(s, R), ~n.dynamic
  PROVE  DoneIn(T \cup {n}, s, R, t)
  BY DEF DoneIn, Static

(* While run p scans and adds: it has yet to look at entries that are      *)
(* there; none of the others is one it would add; and it adds nothing but  *)
(* what is wanted.                                                         *)
KnowsIn(T, r, s) ==
  /\ r.listing \subseteq Static(T, r.res)
  /\ \A e \in Static(T, r.res) \ r.listing : e.rec \notin r.toAdd
  /\ \A x \in r.toAdd : x \in Wanted(s, r.records) /\ Resource(x) = r.res
Knows(p) == run[p].pc \in {"scan", "add"} => KnowsIn(table[Server(p)], run[p], Server(p))

(* What of the work is done, unless the run is dry and has found something *)
(* to do: the routers before, the types before, the entries before.        *)
Honest(r) == ~r.dry \/ ~r.ops
Left(r) == r.types \cup (IF r.pc = "type" THEN {} ELSE {r.res})
ServersDone(r) == \A i \in 1..Len(Order) : i < r.at => InOrder(table[Order[i]], Order[i], r.records)
TypesDone(r, T, s) == \A t \in Types(s, r.records) \ Left(r) : DoneIn(T, s, r.records, t)
EntriesDone(r, T, s) ==
  /\ \A e \in Static(T, r.res) \ r.listing : e.rec \in Wanted(s, r.records)
  /\ \A x \in Wanted(s, r.records) : Resource(x) = r.res /\ Takes(s, x) =>
       x \in r.toAdd \/ \E e \in Static(T, r.res) : e.rec = x
AllDone(r) == \A i \in 1..Len(Order) : InOrder(table[Order[i]], Order[i], r.records)

Progress(p) ==
  /\ Honest(run[p]) =>
      /\ run[p].pc = "server" \/ Working(p) => ServersDone(run[p])
      /\ Working(p) => TypesDone(run[p], table[Server(p)], Server(p))
      /\ run[p].pc \in {"scan", "add"} => EntriesDone(run[p], table[Server(p)], Server(p))
  /\ run[p].pc = "exit2" \/ (run[p].pc = "exit0" /\ ~run[p].dry) => AllDone(run[p])

Undisturbed == \A p \in alone : Knows(p) /\ Progress(p)
AInv == RInv /\ Undisturbed

(* Who is still alone after a step of another run has not been disturbed.  *)
LEMMA StillAlone ==
  ASSUME Typed, NEW p \in Runs, NEW q \in Runs, p # q, p \in alone',
         Start(q) \/ Step(q) \/ Fail(q)
  PROVE  p \in alone /\ table' = table /\ run'[p] = run[p]
  <1>1. CASE Start(q)
    BY <1>1, StartEffect DEF Others
  <1>2. CASE ScanRemove(q)
    BY <1>2, ScanRemoveEffect DEF Ends, Others
  <1>3. CASE AddWrites(q)
    BY <1>3, AddWritesEffect
  <1>4. CASE Step(q) /\ ~ScanRemove(q) /\ ~AddWrites(q)
    BY <1>4, NextServerEffect, NextTypeEffect, ScanKeepEffect, SortEffect,
       AddSkipsEffect, AddsDoneEffect, DoneEffect, EndEffect DEF Step, Ends, Handles, Others
  <1>5. CASE Fail(q)
    BY <1>5, EndEffect DEF Ends, Others
  <1> QED
    BY <1>1, <1>2, <1>3, <1>4, <1>5

(* A step of the run itself, action by action.                             *)
LEMMA UndisturbedStart ==
  ASSUME Typed, NEW p \in Runs, Start(p)
  PROVE  (Knows(p) /\ Progress(p))'
  <1>1. run'[p].pc = "server" /\ run'[p].at = 1
    BY StartEffect
  <1>2. ServersDone(run[p])'
    BY <1>1 DEF ServersDone
  <1> QED
    BY <1>1, <1>2 DEF Knows, Progress, Working

LEMMA UndisturbedNextServer ==
  ASSUME Typed, NEW p \in Runs, Knows(p), Progress(p), NextServer(p)
  PROVE  (Knows(p) /\ Progress(p))'
  <1>1. /\ run'[p].pc = "type" /\ run[p].pc = "server" /\ run'[p].at = run[p].at
        /\ run'[p].records = run[p].records /\ Honest(run[p])' = Honest(run[p])
        /\ table' = table /\ run'[p].types = Types(Server(p), run[p].records)
    BY NextServerEffect DEF SameJob, Honest
  <1>2. Honest(run[p])' => ServersDone(run[p])'
    BY <1>1 DEF Progress, ServersDone
  <1>3. TypesDone(run[p], table[Server(p)], Server(p))'
    BY <1>1 DEF TypesDone, Left, Server
  <1> QED
    BY <1>1, <1>2, <1>3 DEF Knows, Progress, Working

LEMMA UndisturbedNextType ==
  ASSUME Typed, NEW p \in Runs, Knows(p), Progress(p), NextType(p)
  PROVE  (Knows(p) /\ Progress(p))'
  <1>1. /\ run[p].pc = "type" /\ table' = table /\ Len(Order) \in Nat
        /\ run'[p].records = run[p].records /\ Honest(run[p])' = Honest(run[p])
        /\ run[p].at \in 1..Len(Order)
    BY NextTypeEffect, RecordsAssumption DEF SameJob, Honest, Typed, AtServer, Working
  <1>2. Honest(run[p]) => /\ ServersDone(run[p])
                          /\ TypesDone(run[p], table[Server(p)], Server(p))
    BY <1>1 DEF Progress, Working
  <1>3. ASSUME NEW t \in run[p].types,
               run'[p].pc = "scan", run'[p].at = run[p].at, run'[p].res = t,
               run'[p].types = run[p].types \ {t},
               run'[p].listing = Listing(Server(p), t),
               run'[p].toAdd = {r \in Wanted(Server(p), run[p].records) : Resource(r) = t}
        PROVE  (Knows(p) /\ Progress(p))'
    <2>1. Server(p)' = Server(p) /\ run'[p].listing = Static(table[Server(p)], t)
      BY <1>3 DEF Server, Listing, Static
    <2>2. Knows(p)'
      BY <1>1, <1>3, <2>1 DEF Knows, KnowsIn
    <2>3. Honest(run[p]) => ServersDone(run[p])'
      BY <1>1, <1>2, <1>3 DEF ServersDone
    <2>4. Honest(run[p]) => TypesDone(run[p], table[Server(p)], Server(p))'
      <3>1. Left(run[p])' = Left(run[p])
        BY <1>1, <1>3 DEF Left
      <3> QED
        BY <1>1, <1>2, <2>1, <3>1 DEF TypesDone
    <2>5. EntriesDone(run[p], table[Server(p)], Server(p))'
      BY <1>1, <1>3, <2>1 DEF EntriesDone
    <2> QED
      BY <1>1, <1>3, <2>1, <2>2, <2>3, <2>4, <2>5 DEF Progress
  <1>4. ASSUME run[p].types = {}, run'[p].pc = "server", run'[p].at = run[p].at + 1
        PROVE  (Knows(p) /\ Progress(p))'
    <2>1. Honest(run[p]) => InOrder(table[Server(p)], Server(p), run[p].records)
      BY <1>1, <1>2, <1>4 DEF TypesDone, Left, InOrder
    <2>2. ASSUME Honest(run[p]), NEW i \in 1..Len(Order), i < run'[p].at
          PROVE  InOrder(table[Order[i]], Order[i], run[p].records)'
      <3>1. i < run[p].at \/ i = run[p].at
        BY <1>1, <1>4, <2>2
      <3> QED
        BY <1>1, <1>2, <2>1, <2>2, <3>1 DEF ServersDone, Server
    <2>3. Honest(run[p]) => ServersDone(run[p])'
      BY <2>2 DEF ServersDone
    <2> QED
      BY <1>1, <1>4, <2>3 DEF Knows, Progress, Working
  <1> QED
    BY <1>3, <1>4, NextTypeEffect

LEMMA UndisturbedEnd ==
  ASSUME Typed, NEW p \in Runs, Ends(p, "failed")
  PROVE  (Knows(p) /\ Progress(p))'
  BY DEF Ends, Knows, Progress, Working

LEMMA UndisturbedDone ==
  ASSUME Typed, NEW p \in Runs, Knows(p), Progress(p), Done(p)
  PROVE  (Knows(p) /\ Progress(p))'
  <1>1. /\ run[p].pc = "server" /\ run[p].at > Len(Order) /\ table' = table
        /\ run'[p].records = run[p].records /\ run'[p].dry = run[p].dry
        /\ run'[p].pc = IF run[p].ops THEN "exit0" ELSE "exit2"
    BY DoneEffect DEF Ends, SameJob
  <1>2. ASSUME run'[p].pc = "exit2" \/ ~run'[p].dry
        PROVE  AllDone(run[p])'
    <2>1. Honest(run[p])
      BY <1>1, <1>2 DEF Honest
    <2>2. ServersDone(run[p])
      BY <1>1, <2>1 DEF Progress
    <2>3. \A i \in 1..Len(Order) : i < run[p].at
      BY <1>1, RecordsAssumption DEF Typed, TypeOK, RunStates
    <2> QED
      BY <1>1, <2>2, <2>3 DEF ServersDone, AllDone
  <1>3. run'[p].pc \in {"exit0", "exit2"}
    BY <1>1
  <1> QED
    BY <1>1, <1>2, <1>3 DEF Knows, Progress, Working

LEMMA UndisturbedSort ==
  ASSUME Typed, NEW p \in Runs, Knows(p), Progress(p), Sort(p)
  PROVE  (Knows(p) /\ Progress(p))'
  <1>1. run[p].pc = "scan" /\ run[p].listing = {} /\ table' = table
    BY SortEffect
  <1>2. CASE /\ SamePlace(p) /\ run'[p].ops = run[p].ops /\ run'[p].pc = "add"
             /\ run'[p].toAdd = run[p].toAdd /\ run'[p].listing = {}
    <2>1. Server(p)' = Server(p) /\ Honest(run[p])' = Honest(run[p]) /\ Left(run[p])' = Left(run[p])
      BY <1>1, <1>2 DEF Server, SamePlace, SameJob, Honest, Left
    <2>2. Knows(p)'
      BY <1>1, <1>2, <2>1 DEF Knows, KnowsIn, SamePlace, SameJob
    <2>3. Honest(run[p]) => /\ ServersDone(run[p])' /\ TypesDone(run[p], table[Server(p)], Server(p))'
                            /\ EntriesDone(run[p], table[Server(p)], Server(p))'
      BY <1>1, <1>2, <2>1 DEF Progress, Working, SamePlace, SameJob, ServersDone, TypesDone,
         EntriesDone
    <2> QED
      BY <1>2, <2>1, <2>2, <2>3 DEF Progress
  <1> QED
    BY <1>2, SortEffect, UndisturbedEnd

LEMMA UndisturbedAddsDone ==
  ASSUME Typed, NEW p \in Runs, Knows(p), Progress(p), AddsDone(p)
  PROVE  (Knows(p) /\ Progress(p))'
  <1>1. /\ run[p].pc = "add" /\ run[p].toAdd = {} /\ table' = table /\ run'[p].pc = "type"
        /\ SamePlace(p) /\ run'[p].ops = run[p].ops
    BY AddsDoneEffect
  <1>2. run[p].listing = {}
    BY <1>1 DEF Typed, AtServer
  <1>3. Server(p)' = Server(p) /\ Honest(run[p])' = Honest(run[p])
    BY <1>1 DEF Server, SamePlace, SameJob, Honest
  <1>4. ASSUME Honest(run[p])
        PROVE  ServersDone(run[p])' /\ TypesDone(run[p], table[Server(p)], Server(p))'
    <2>1. ServersDone(run[p])'
      BY <1>1, <1>4 DEF Progress, Working, SamePlace, SameJob, ServersDone
    <2>2. DoneIn(table[Server(p)], Server(p), run[p].records, run[p].res)
      BY <1>1, <1>2, <1>4 DEF Progress, EntriesDone, DoneIn
    <2>3. Left(run[p]) = run[p].types \cup {run[p].res} /\ Left(run[p])' = run[p].types
      BY <1>1 DEF Left, SamePlace
    <2>4. TypesDone(run[p], table[Server(p)], Server(p))
      BY <1>1, <1>4 DEF Progress, Working
    <2>5. TypesDone(run[p], table[Server(p)], Server(p))'
      BY <1>1, <1>3, <2>2, <2>3, <2>4 DEF TypesDone, SamePlace, SameJob
    <2> QED
      BY <2>1, <2>5
  <1> QED
    BY <1>1, <1>3, <1>4 DEF Knows, Progress

LEMMA UndisturbedScanKeep ==
  ASSUME Typed, NEW p \in Runs, Knows(p), Progress(p), ScanKeep(p)
  PROVE  (Knows(p) /\ Progress(p))'
  <1>1. run[p].pc = "scan" /\ table' = table
    BY ScanKeepEffect
  <1>2. ASSUME NEW e \in run[p].listing,
               SamePlace(p), run'[p].ops = run[p].ops, run'[p].pc = "scan", Keeps(p, e),
               run'[p].listing = run[p].listing \ {e},
               run'[p].toAdd = run[p].toAdd \ {e.rec}
        PROVE  (Knows(p) /\ Progress(p))'
    <2>1. Server(p)' = Server(p) /\ Honest(run[p])' = Honest(run[p]) /\ Left(run[p])' = Left(run[p])
      BY <1>1, <1>2 DEF Server, SamePlace, SameJob, Honest, Left
    <2>2. Knows(p)'
      BY <1>1, <1>2, <2>1 DEF Knows, KnowsIn, SamePlace, SameJob
    <2>3. ASSUME Honest(run[p])
          PROVE  EntriesDone(run[p], table[Server(p)], Server(p))'
      <3>1. EntriesDone(run[p], table[Server(p)], Server(p))
        BY <1>1, <2>3 DEF Progress
      <3>2. e \in Static(table[Server(p)], run[p].res) /\ e.rec \in Wanted(Server(p), run[p].records)
        BY <1>1, <1>2 DEF Knows, KnowsIn, Keeps
      <3> QED
        BY <1>1, <1>2, <2>1, <3>1, <3>2 DEF EntriesDone, SamePlace, SameJob
    <2>4. Honest(run[p]) => ServersDone(run[p])' /\ TypesDone(run[p], table[Server(p)], Server(p))'
      BY <1>1, <1>2, <2>1 DEF Progress, Working, SamePlace, SameJob, ServersDone, TypesDone
    <2> QED
      BY <1>2, <2>1, <2>2, <2>3, <2>4 DEF Progress
  <1> QED
    BY <1>2, ScanKeepEffect, UndisturbedEnd

LEMMA UndisturbedAddSkips ==
  ASSUME Typed, NEW p \in Runs, Knows(p), Progress(p), AddSkips(p)
  PROVE  (Knows(p) /\ Progress(p))'
  <1>1. run[p].pc = "add" /\ table' = table
    BY AddSkipsEffect
  <1>2. PICK x \in run[p].toAdd :
          /\ Handles(p, x)
          /\ \/ Server(p) \in OldDns /\ x \notin TypeA
             \/ run'[p].ops /\ (run[p].dry \/ x \in Unknown[Server(p)])
          /\ run[p].ops => run'[p].ops
    BY AddSkipsEffect
  <1>3. /\ SamePlace(p) /\ run'[p].pc = "add" /\ run'[p].listing = run[p].listing
        /\ run'[p].toAdd = run[p].toAdd \ {x}
    BY <1>2 DEF Handles
  <1>4. Server(p)' = Server(p) /\ (Honest(run[p])' => Honest(run[p])) /\ Left(run[p])' = Left(run[p])
    BY <1>1, <1>2, <1>3 DEF Server, SamePlace, SameJob, Honest, Left
  <1>5. Knows(p)'
    BY <1>1, <1>3, <1>4 DEF Knows, KnowsIn, SamePlace, SameJob
  <1>6. ASSUME Honest(run[p])'
        PROVE  EntriesDone(run[p], table[Server(p)], Server(p))'
    <2>1. EntriesDone(run[p], table[Server(p)], Server(p))
      BY <1>1, <1>4, <1>6 DEF Progress
    <2>2. ~Takes(Server(p), x)
      BY <1>2, <1>3, <1>6 DEF Takes, Honest, SamePlace, SameJob
    <2> QED
      BY <1>1, <1>3, <1>4, <2>1, <2>2 DEF EntriesDone, SamePlace, SameJob
  <1>7. Honest(run[p])' => ServersDone(run[p])' /\ TypesDone(run[p], table[Server(p)], Server(p))'
    BY <1>1, <1>3, <1>4 DEF Progress, Working, SamePlace, SameJob, ServersDone, TypesDone
  <1> QED
    BY <1>3, <1>4, <1>5, <1>6, <1>7 DEF Progress

(* A change of one router that does no harm leaves those done as they were.*)
LEMMA HarmlessChange ==
  ASSUME Typed, NEW p \in Runs, SamePlace(p), Working(p), NEW T,
         table' = [table EXCEPT ![Server(p)] = T],
         \A t : DoneIn(table[Server(p)], Server(p), run[p].records, t)
                  => DoneIn(T, Server(p), run[p].records, t)
  PROVE  /\ Server(p)' = Server(p) /\ table'[Server(p)] = T
         /\ ServersDone(run[p]) => ServersDone(run[p])'
  <1>1. Server(p) \in Servers /\ table \in [Servers -> SUBSET Entries]
    BY WorkingServer DEF Typed, TypeOK
  <1>2. Server(p)' = Server(p) /\ table'[Server(p)] = T
    BY <1>1 DEF Server, SamePlace
  <1>3. ASSUME ServersDone(run[p]), NEW i \in 1..Len(Order), i < run[p].at
        PROVE  InOrder(table'[Order[i]], Order[i], run[p].records)
    <2>1. InOrder(table[Order[i]], Order[i], run[p].records)
      BY <1>3 DEF ServersDone
    <2>2. Order[i] \in Servers
      BY ServerType
    <2>3. CASE Order[i] = Server(p)
      BY <1>2, <2>1, <2>3 DEF InOrder
    <2>4. CASE Order[i] # Server(p)
      BY <1>1, <2>1, <2>2, <2>4
    <2> QED
      BY <2>3, <2>4
  <1> QED
    BY <1>2, <1>3 DEF ServersDone, SamePlace, SameJob

(* Each removal leaves one entry less to remove.                           *)
LEMMA RemovesOne ==
  ASSUME Typed, UniqueIds, NEW s \in Servers, NEW e \in table[s]
  PROVE  Removed(s, e.id) = [table EXCEPT ![s] = table[s] \ {e}]
  <1>1. {f \in table[s] : f.id # e.id} = table[s] \ {e}
    BY DEF UniqueIds
  <1> QED
    BY <1>1 DEF Removed, Typed, TypeOK

LEMMA UndisturbedScanRemove ==
  ASSUME Typed, UniqueIds, NEW p \in Runs, Knows(p), Progress(p), ScanRemove(p)
  PROVE  (Knows(p) /\ Progress(p))'
  <1>1. run[p].pc = "scan"
    BY ScanRemoveEffect
  <1>2. ASSUME NEW e \in run[p].listing,
               SamePlace(p), run'[p].ops, run'[p].pc = "scan", ~Keeps(p, e),
               run'[p].listing = run[p].listing \ {e}, run'[p].toAdd = run[p].toAdd,
               \/ run[p].dry /\ UNCHANGED <<table, alone>>
               \/ ~run[p].dry /\ table' = Removed(Server(p), e.id)
        PROVE  (Knows(p) /\ Progress(p))'
    <2> DEFINE s == Server(p)
               T == table[s]
               R == run[p].records
    <2>1. s \in Servers /\ Working(p)
      BY <1>1, WorkingServer DEF Typed, Working
    <2>2. e \in Static(T, run[p].res) /\ e \in T /\ e.rec \notin Wanted(s, R)
      BY <1>1, <1>2 DEF Knows, KnowsIn, Keeps, Static
    <2>3. e.rec \notin run[p].toAdd
      BY <1>1, <2>2 DEF Knows, KnowsIn
    <2>4. CASE run[p].dry /\ UNCHANGED <<table, alone>>
      <3>1. Server(p)' = s /\ ~Honest(run[p])'
        BY <1>2, <2>4 DEF Server, SamePlace, SameJob, Honest
      <3>2. Knows(p)'
        BY <1>1, <1>2, <2>3, <2>4, <3>1 DEF Knows, KnowsIn, SamePlace, SameJob
      <3> QED
        BY <1>2, <3>1, <3>2 DEF Progress
    <2>5. CASE ~run[p].dry /\ table' = Removed(s, e.id)
      <3>1. table' = [table EXCEPT ![s] = T \ {e}]
        BY <2>1, <2>2, <2>5, RemovesOne
      <3>2. \A t : DoneIn(T, s, R, t) => DoneIn(T \ {e}, s, R, t)
        BY <2>2, DoneRemoved
      <3>3. Server(p)' = s /\ table'[s] = T \ {e} /\ (ServersDone(run[p]) => ServersDone(run[p])')
        BY <1>2, <2>1, <3>1, <3>2, HarmlessChange
      <3>4. Static(T \ {e}, run[p].res) = Static(T, run[p].res) \ {e}
        BY DEF Static
      <3>5. Knows(p)'
        BY <1>1, <1>2, <2>3, <3>3, <3>4 DEF Knows, KnowsIn, SamePlace, SameJob
      <3>6. Honest(run[p])' = Honest(run[p]) /\ Honest(run[p]) /\ Left(run[p])' = Left(run[p])
        BY <1>1, <1>2, <2>5 DEF Honest, Left, SamePlace, SameJob
      <3>7. /\ ServersDone(run[p]) /\ TypesDone(run[p], T, s) /\ EntriesDone(run[p], T, s)
        BY <1>1, <2>1, <3>6 DEF Progress
      <3>8. TypesDone(run[p], table[Server(p)], Server(p))'
        BY <1>2, <3>2, <3>3, <3>6, <3>7 DEF TypesDone, SamePlace, SameJob
      <3>9. EntriesDone(run[p], table[Server(p)], Server(p))'
        BY <1>2, <2>2, <3>3, <3>4, <3>7 DEF EntriesDone, SamePlace, SameJob
      <3> QED
        BY <1>2, <3>3, <3>5, <3>7, <3>8, <3>9 DEF Progress
    <2> QED
      BY <1>2, <2>4, <2>5
  <1> QED
    BY <1>2, ScanRemoveEffect, UndisturbedEnd

LEMMA UndisturbedAddWrites ==
  ASSUME Typed, NEW p \in Runs, Knows(p), Progress(p), AddWrites(p)
  PROVE  (Knows(p) /\ Progress(p))'
  <1> DEFINE s == Server(p)
             T == table[s]
             R == run[p].records
  <1>1. run[p].pc = "add" /\ ~run[p].dry /\ s \in Servers
    BY AddWritesEffect
  <1>2. PICK n \in Entries :
          /\ n.rec \in run[p].toAdd /\ ~n.dynamic
          /\ table' = [table EXCEPT ![s] = T \cup {n}]
          /\ Handles(p, n.rec)
    BY AddWritesEffect
  <1>3. /\ SamePlace(p) /\ run'[p].pc = "add" /\ run'[p].listing = run[p].listing
        /\ run'[p].toAdd = run[p].toAdd \ {n.rec}
    BY <1>2 DEF Handles
  <1>4. n.rec \in Wanted(s, R) /\ Resource(n.rec) = run[p].res
    BY <1>1, <1>2 DEF Knows, KnowsIn
  <1>5. \A t : DoneIn(T, s, R, t) => DoneIn(T \cup {n}, s, R, t)
    BY <1>2, <1>4, DoneAdded
  <1>6. Server(p)' = s /\ table'[s] = T \cup {n} /\ (ServersDone(run[p]) => ServersDone(run[p])')
    BY <1>1, <1>2, <1>3, <1>5, HarmlessChange DEF Working
  <1>7. Static(T \cup {n}, run[p].res) = Static(T, run[p].res) \cup {n}
    BY <1>2, <1>4 DEF Static
  <1>8. Knows(p)'
    BY <1>1, <1>3, <1>6, <1>7 DEF Knows, KnowsIn, SamePlace, SameJob
  <1>9. Honest(run[p]) /\ Left(run[p])' = Left(run[p])
    BY <1>1, <1>3 DEF Honest, Left, SamePlace
  <1>10. ServersDone(run[p]) /\ TypesDone(run[p], T, s) /\ EntriesDone(run[p], T, s)
    BY <1>1, <1>9 DEF Progress, Working
  <1>11. TypesDone(run[p], table[Server(p)], Server(p))'
    BY <1>3, <1>5, <1>6, <1>9, <1>10 DEF TypesDone, SamePlace, SameJob
  <1>12. EntriesDone(run[p], table[Server(p)], Server(p))'
    BY <1>3, <1>4, <1>6, <1>7, <1>10 DEF EntriesDone, SamePlace, SameJob
  <1> QED
    BY <1>3, <1>6, <1>8, <1>10, <1>11, <1>12 DEF Progress

(* Every step keeps the progress of a run that had the router to itself.   *)
LEMMA UndisturbedStep ==
  ASSUME RInv, Undisturbed, [Next]_vars
  PROVE  Undisturbed'
  <1> USE DEF RInv
  <1> SUFFICES ASSUME NEW p \in alone' PROVE (Knows(p) /\ Progress(p))'
    BY DEF Undisturbed
  <1>1. p \in Runs
    BY TypedStep DEF Typed, TypeOK
  <1>2. ASSUME table' = table, run'[p] = run[p], p \in alone
        PROVE  (Knows(p) /\ Progress(p))'
    <2>1. Knows(p) /\ Progress(p)
      BY <1>2 DEF Undisturbed
    <2> QED
      BY <1>2, <2>1 DEF Knows, Progress, Server, Working, ServersDone, AllDone
  <1>3. ASSUME NEW q \in Runs, q # p, Start(q) \/ Step(q) \/ Fail(q)
        PROVE  (Knows(p) /\ Progress(p))'
    BY <1>1, <1>2, <1>3, StillAlone
  <1>4. CASE Start(p)
    BY <1>1, <1>4, UndisturbedStart
  <1>5. CASE Step(p) \/ Fail(p)
    <2>1. p \in alone
      BY <1>1, <1>5, NextServerEffect, NextTypeEffect, ScanKeepEffect, ScanRemoveEffect,
         SortEffect, AddSkipsEffect, AddWritesEffect, AddsDoneEffect, DoneEffect, EndEffect DEF Step
    <2>2. Knows(p) /\ Progress(p)
      BY <2>1 DEF Undisturbed
    <2> QED
      BY <1>1, <1>5, <2>2, UndisturbedNextServer, UndisturbedNextType, UndisturbedScanKeep,
         UndisturbedScanRemove, UndisturbedSort, UndisturbedAddSkips, UndisturbedAddWrites,
         UndisturbedAddsDone, UndisturbedDone, UndisturbedEnd, EndEffect DEF Step
  <1>6. CASE UNCHANGED vars
    BY <1>2, <1>6 DEF vars
  <1>7. CASE EditZone \/ \E s \in Servers : Administer(s)
    BY <1>7 DEF EditZone, Administer
  <1> QED
    BY <1>3, <1>4, <1>5, <1>6, <1>7 DEF Next

LEMMA AInvInit == Init => AInv
  BY RInvInit DEF Init, AInv, Undisturbed

(* Every step keeps it.                                                    *)
LEMMA AInvStep == AInv /\ [Next]_vars => AInv'
  BY RInvStep, UndisturbedStep DEF AInv

(* A run that ends well and was not disturbed has put every router in      *)
(* order, whatever it found there.                                         *)
THEOREM ReconciledAlways == Spec => []Reconciled
  <1>1. AInv => Reconciled
    <2> SUFFICES ASSUME AInv, NEW p \in alone,
                        run[p].pc = "exit2" \/ (run[p].pc = "exit0" /\ ~run[p].dry),
                        NEW i \in DOMAIN Order
                 PROVE  Complete(Order[i], run[p].records) /\ Pure(Order[i], run[p].records)
      BY DEF Reconciled
    <2>1. i \in 1..Len(Order) /\ Order[i] \in Servers
      BY RecordsAssumption
    <2>2. AllDone(run[p])
      BY DEF AInv, Undisturbed, Progress
    <2> QED
      BY <2>1, <2>2, InOrderMeans DEF AllDone
  <1> QED
    BY <1>1, AInvInit, AInvStep, PTL DEF Spec

(* Only a run that was disturbed can add what is there already.            *)
LEMMA DoubleAddDisturbed ==
  ASSUME AInv, [Next]_vars, edits' = edits, NEW s \in Servers, NEW e \in table'[s] \ table[s],
         NEW f \in table[s], f.rec = e.rec, ~f.dynamic
  PROVE  \E p \in Runs \ alone : run'[p] # run[p]
  <1> USE DEF AInv, RInv
  <1>1. table \in [Servers -> SUBSET Entries]
    BY DEF Typed, TypeOK
  <1>2. ASSUME NEW p \in Runs, NEW n \in Entries, Adds(p, n)
        PROVE  p \notin alone /\ run'[p] # run[p]
    <2>1. s = Server(p) /\ e = n /\ run[p].pc = "add" /\ e.rec \in run[p].toAdd
      BY <1>1, <1>2 DEF Adds
    <2>2. run[p].listing = {}
      BY <2>1 DEF Typed, AtServer
    <2>3. ASSUME p \in alone PROVE FALSE
      <3>1. KnowsIn(table[s], run[p], s)
        BY <2>1, <2>3 DEF Undisturbed, Knows
      <3>2. f \in Static(table[s], run[p].res)
        BY <2>1, <3>1 DEF KnowsIn, Static
      <3> QED
        BY <2>1, <2>2, <3>1, <3>2 DEF KnowsIn
    <2>4. run'[p] # run[p]
      BY <1>2, AddWritesEffect DEF Adds, Handles
    <2> QED
      BY <2>3, <2>4
  <1>3. ~(\E p \in Runs : \E l \in run[p].listing : Removes(p, l))
    BY <1>1 DEF Removes, Removed
  <1>4. ~(\E r \in Servers : Administer(r))
    BY DEF Administer, Typed, TypeOK
  <1> QED
    BY <1>1, <1>2, <1>3, <1>4, TableStep

(* A router that accepts equal entries never gets one from a run that had  *)
(* it to itself.                                                           *)
THEOREM NoDoubleAddAlways == Spec => NoDoubleAdd
  <1>1. AInv /\ [Next]_vars =>
          [edits' = edits =>
             \A s \in Servers : \A e \in table'[s] \ table[s] :
               (\E f \in table[s] : f.rec = e.rec /\ ~f.dynamic)
                 => \E p \in Runs \ alone : run'[p] # run[p]]_vars
    BY DoubleAddDisturbed
  <1> QED
    BY <1>1, AInvInit, AInvStep, PTL DEF Spec, NoDoubleAdd
=============================================================================
