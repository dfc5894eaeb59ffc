---------------------------- MODULE MCDnsUpdate ----------------------------
(* DnsUpdate on small instances: two routers, the second one with old_dns; *)
(* an A record (a), one (m) of a type no router takes, a lease (l)   *)
(* and an entry made by hand (x).  The second version of the zone files    *)
(* names the host of the lease again, without it.                          *)
EXTENDS DnsUpdate, TLC

CONSTANTS r1, r2, p1, p2, a, w, m, l, x

MCServers == {r1, r2}
MCOrder == <<r1, r2>>
MCRecords == {a, m, l}
MCDns == {a, m, x}
MCOwn == [s \in MCServers |-> {}]
MCCovered == [s \in MCServers |-> {l}]
MCUnknown == (r1 :> {m}) @@ (r2 :> {})

(* An input: what its names hold, and the names to skip.                   *)
File(names, skip) == [names |-> names, skip |-> skip]
MCVersions ==
  {<<File([n1 |-> {a, l}, n2 |-> {m}], {"n2"})>>,
   <<File([n1 |-> {a, l}, n2 |-> {m}], {}), File([n1 |-> {a}], {})>>}
Entry(i, r, dyn) == [id |-> i, rec |-> r, dynamic |-> dyn, disabled |-> FALSE]
MCInitial == {{Entry(1, x, FALSE), Entry(2, a, FALSE), Entry(3, x, TRUE)}}

(* A wildcard record, as *.mit.edu in isz.zone, and an empty router.       *)
LiveOwn == r1 :> {m}
LiveCovered == r1 :> {l}
WildRecords == {a, w}
WildDns == {a, w, x}
WildVersions == {<<File([n1 |-> {a}, n2 |-> {w}], {})>>}
Symmetry == Permutations(Runs)
Nobody == [s \in {r1} |-> {}]
OneRouter == <<r1>>
EmptyRouter == {{Entry(1, x, FALSE)}}
=============================================================================
