------------------------ MODULE SyncoidAllowProofs ------------------------
(***************************************************************************)
(* Theorems about SyncoidAllow, for every set of commands and datasets:    *)
(* what is delegated is taken back, and running commands have their        *)
(* permissions when no two units delegate one permission on one dataset.   *)
(***************************************************************************)
EXTENDS SyncoidAllow, TLAPS

-----------------------------------------------------------------------------
(* The units.                                                              *)

(* What a unit is made of.                                                 *)
LEMMA UnitParts ==
  ASSUME NEW u \in Units
  PROVE  /\ u.dataset \in Datasets
         /\ u.permissions \subseteq Permissions
         /\ u.commands # {}
         /\ \A p \in u.permissions : Group(u.dataset, p) = u.commands
  <1>1. PICK dp \in {x \in Datasets \X Permissions : Group(x[1], x[2]) # {}} :
               u = Unit(dp[1], Group(dp[1], dp[2]))
    BY DEF Units
  <1>2. dp[1] \in Datasets /\ Group(dp[1], dp[2]) # {}
    BY <1>1
  <1> QED
    BY <1>1, <1>2 DEF Unit

(* Whoever needs a permission has a unit that delegates it.                *)
LEMMA UnitFor ==
  ASSUME NEW c \in Commands, NEW d \in Datasets, NEW p \in Permissions, Needs(c, d, p)
  PROVE  \E u \in UnitsOf(c) : u.dataset = d /\ p \in u.permissions
  <1> DEFINE u == Unit(d, Group(d, p))
  <1>1. c \in Group(d, p)
    BY DEF Group
  <1>2. u \in Units
    <2>1. <<d, p>> \in {x \in Datasets \X Permissions : Group(x[1], x[2]) # {}}
      BY <1>1
    <2> QED
      BY <2>1 DEF Units
  <1>3. u.dataset = d /\ u.commands = Group(d, p) /\ p \in u.permissions
    BY DEF Unit
  <1> QED
    BY <1>1, <1>2, <1>3 DEF UnitsOf

(* Two units of one dataset share no permission.                           *)
LEMMA Partition ==
  ASSUME NEW u \in Units, NEW v \in Units, u.dataset = v.dataset,
         NEW p \in u.permissions, p \in v.permissions
  PROVE  u = v
  <1>1. u.commands = v.commands
    BY UnitParts
  <1>2. PICK x \in Datasets \X Permissions : u = Unit(x[1], Group(x[1], x[2]))
    BY DEF Units
  <1>3. PICK y \in Datasets \X Permissions : v = Unit(y[1], Group(y[1], y[2]))
    BY DEF Units
  <1>4. x[1] = y[1] /\ Group(x[1], x[2]) = Group(y[1], y[2])
    BY <1>1, <1>2, <1>3 DEF Unit
  <1> QED
    BY <1>2, <1>3, <1>4

-----------------------------------------------------------------------------
(* Types.                                                                  *)

LEMMA TypeInit == Init => TypeOK
  BY DatasetsAssumption, BoundsAssumption DEF Init, TypeOK

LEMMA TypeStep == TypeOK /\ [Next]_vars => TypeOK'
  <1> SUFFICES ASSUME TypeOK, [Next]_vars PROVE TypeOK'
    OBVIOUS
  <1> USE DEF TypeOK
  <1>1. ASSUME NEW u \in Units, List(u) PROVE TypeOK'
    BY <1>1 DEF List
  <1>2. ASSUME NEW u \in Units, Allow(u) PROVE TypeOK'
    <2>1. Delegated(u) \subseteq Datasets \X Permissions
      BY UnitParts DEF Delegated, On
    <2> QED
      BY <1>2, <2>1 DEF Allow
  <1>3. ASSUME NEW u \in Units, Unallow(u) PROVE TypeOK'
    BY <1>3 DEF Unallow
  <1>4. ASSUME NEW u \in Units, UnallowParent(u) PROVE TypeOK'
    BY <1>4 DEF UnallowParent
  <1>5. ASSUME NEW c \in Commands, Start(c) \/ Run(c) \/ Finish(c) PROVE TypeOK'
    BY <1>5 DEF Start, Run, Finish
  <1>6. ASSUME NEW c \in Commands, Create(c) PROVE TypeOK'
    BY <1>6 DEF Create
  <1>7. ASSUME Reboot PROVE TypeOK'
    BY <1>7, BoundsAssumption DEF Reboot
  <1>8. ASSUME UNCHANGED vars PROVE TypeOK'
    BY <1>8 DEF vars
  <1> QED
    BY <1>1, <1>2, <1>3, <1>4, <1>5, <1>6, <1>7, <1>8 DEF Next

(* Every reachable state has its type.                                     *)
THEOREM TypeCorrect == Spec => []TypeOK
  BY TypeInit, TypeStep, PTL DEF Spec

-----------------------------------------------------------------------------
(* NoLeftovers.                                                            *)

(* Unit u answers for delegation g: it will take g back.  One that has     *)
(* begun to stop answers for its parent only.                              *)
AnswersFor(u, g) ==
  /\ g[2] \in u.permissions
  /\ \/ /\ unit[u] = "active" \/ (u \in crashed /\ unit[u] # "stopping")
        /\ g[1] \in {u.dataset, Parent[u.dataset]}
     \/ unit[u] = "stopping" /\ g[1] = Parent[u.dataset]
Answered == \A g \in granted : \E u \in Units : AnswersFor(u, g)

LEMMA AnsweredStep == TypeOK /\ Answered /\ [Next]_vars => Answered'
  <1> SUFFICES ASSUME TypeOK, Answered, [Next]_vars, NEW g \in granted'
               PROVE  \E u \in Units : AnswersFor(u, g)'
    BY DEF Answered
  <1> USE DEF TypeOK, AnswersFor
  <1>1. ASSUME NEW u \in Units, List(u) PROVE \E w \in Units : AnswersFor(w, g)'
    BY <1>1 DEF List, Answered
  <1>2. ASSUME NEW u \in Units, Allow(u) PROVE \E w \in Units : AnswersFor(w, g)'
    <2>1. CASE g \in granted
      BY <1>2, <2>1 DEF Allow, Answered
    <2>2. CASE g \in Delegated(u)
      <3>1. g \in On(Place(u), u.permissions)
        BY <2>2 DEF Delegated
      <3>2. g[2] \in u.permissions /\ g[1] = Place(u)
        BY <3>1 DEF On
      <3> QED
        BY <1>2, <3>2 DEF Allow, Place
    <2> QED
      BY <1>2, <2>1, <2>2 DEF Allow
  <1>3. ASSUME NEW u \in Units, Unallow(u) PROVE \E w \in Units : AnswersFor(w, g)'
    <2>1. g \in granted /\ g \notin On(u.dataset, u.permissions)
      BY <1>3 DEF Unallow
    <2>2. PICK w \in Units : AnswersFor(w, g)
      BY <2>1 DEF Answered
    <2>3. CASE w = u
      <3>1. g[1] # u.dataset
        <4>1. g = <<g[1], g[2]>>
          BY <2>1
        <4> QED
          BY <2>1, <2>2, <2>3, <4>1 DEF On
      <3> QED
        BY <1>3, <2>2, <2>3, <3>1 DEF Unallow
    <2>4. CASE w # u
      BY <1>3, <2>2, <2>4 DEF Unallow
    <2> QED
      BY <2>3, <2>4
  <1>4. ASSUME NEW u \in Units, UnallowParent(u) PROVE \E w \in Units : AnswersFor(w, g)'
    <2>1. g \in granted /\ g \notin On(Parent[u.dataset], u.permissions)
      BY <1>4 DEF UnallowParent, OnParent
    <2>2. PICK w \in Units : AnswersFor(w, g)
      BY <2>1 DEF Answered
    <2>3. w # u
      <3>1. g = <<g[1], g[2]>>
        BY <2>1
      <3> QED
        BY <1>4, <2>1, <2>2, <3>1 DEF On, UnallowParent
    <2> QED
      BY <1>4, <2>2, <2>3 DEF UnallowParent
  <1>5. ASSUME NEW c \in Commands, Start(c) \/ Run(c) \/ Create(c) \/ Finish(c)
        PROVE  \E w \in Units : AnswersFor(w, g)'
    BY <1>5 DEF Start, Run, Create, Finish, Answered
  <1>6. ASSUME Reboot PROVE \E w \in Units : AnswersFor(w, g)'
    BY <1>6 DEF Reboot, Answered
  <1>7. ASSUME UNCHANGED vars PROVE \E w \in Units : AnswersFor(w, g)'
    BY <1>7 DEF vars, Answered
  <1> QED
    BY <1>1, <1>2, <1>3, <1>4, <1>5, <1>6, <1>7 DEF Next

(* Whatever the commands, every delegation belongs to a unit that is up,   *)
(* or that was up at a crash and has not run since.                        *)
THEOREM NoLeftoversAlways == Spec => []NoLeftovers
  <1>1. Init => Answered
    BY DEF Init, Answered
  <1>2. Answered => NoLeftovers
    BY DEF Answered, AnswersFor, NoLeftovers
  <1> QED
    BY <1>1, <1>2, TypeInit, TypeStep, AnsweredStep, PTL DEF Spec

-----------------------------------------------------------------------------
(* RunsPermitted.                                                          *)

(* Dataset d has a unit for permission p.                                  *)
Wanted(d, p) == Group(d, p) # {}

(* Where the unit of dataset d may delegate.                               *)
Places(d) == IF d \in Existing THEN {d} ELSE {d, Parent[d]}

(* What a unit takes back was not delegated by the unit of another dataset.*)
Separate ==
  \A d \in Datasets, e \in Datasets, p \in Permissions :
    d # e /\ Wanted(d, p) /\ Wanted(e, p) => {d, Parent[d]} \cap Places(e) \subseteq {NoDataset}

(* A new dataset is a child of one there is.                               *)
Rooted ==
  \A d \in Datasets : (\E p \in Permissions : Wanted(d, p)) =>
    d \in Existing \/ Parent[d] \in Existing \cup {NoDataset}

(* Datasets only come, below others.                                       *)
Grows == /\ Existing \subseteq exists
         /\ \A d \in exists \ Existing : Parent[d] \in exists

(* A unit that is up found its dataset if it was there from the beginning. *)
Looked ==
  /\ \A u \in found : u.dataset \in exists
  /\ \A u \in Units : unit[u] \in {"listing", "active"} /\ u.dataset \in Existing => u \in found

(* The delegations of an active unit are in place.                         *)
InPlace ==
  \A u \in Units : unit[u] = "active" /\ Place(u) \in exists
                    => On(Place(u), u.permissions) \subseteq granted

(* A command runs on active units.                                         *)
OnUnits == \A c \in Commands : command[c] = "running" => \A u \in UnitsOf(c) : unit[u] = "active"

PInv == TypeOK /\ Grows /\ Looked /\ InPlace /\ OnUnits

LEMMA GrowsStep == TypeOK /\ Grows /\ [Next]_vars => Grows'
  <1> SUFFICES ASSUME TypeOK, Grows, [Next]_vars PROVE Grows'
    OBVIOUS
  <1>1. ASSUME NEW c \in Commands, Create(c) PROVE Grows'
    BY <1>1 DEF Create, Grows
  <1>2. CASE UNCHANGED exists
    BY <1>2 DEF Grows
  <1> QED
    BY <1>1, <1>2 DEF Next, vars, List, Allow, Unallow, UnallowParent, Start, Run, Finish, Reboot

LEMMA LookedStep == PInv /\ [Next]_vars => Looked'
  <1> SUFFICES ASSUME PInv, [Next]_vars PROVE Looked'
    OBVIOUS
  <1> USE DEF PInv, TypeOK, Looked, Grows
  <1>1. ASSUME NEW u \in Units, List(u) PROVE Looked'
    BY <1>1 DEF List
  <1>2. ASSUME NEW u \in Units, Allow(u) \/ Unallow(u) \/ UnallowParent(u) PROVE Looked'
    BY <1>2 DEF Allow, Unallow, UnallowParent
  <1>3. ASSUME NEW c \in Commands, Start(c) \/ Run(c) \/ Create(c) \/ Finish(c) PROVE Looked'
    BY <1>3 DEF Start, Run, Create, Finish
  <1>4. ASSUME Reboot PROVE Looked'
    BY <1>4 DEF Reboot
  <1>5. ASSUME UNCHANGED vars PROVE Looked'
    BY <1>5 DEF vars
  <1> QED
    BY <1>1, <1>2, <1>3, <1>4, <1>5 DEF Next

(* Where an active unit delegated was there already, or never is.          *)
LEMMA PlaceStays ==
  ASSUME Rooted, PInv, NEW u \in Units, unit[u] \in {"listing", "active"}
  PROVE  Place(u) \in exists \cup {NoDataset} /\ Place(u) \in Places(u.dataset)
  <1>1. CASE u \in found
    BY <1>1, UnitParts DEF Place, Places, PInv, Looked
  <1>2. CASE u \notin found
    <2>1. u.dataset \notin Existing
      BY <1>2 DEF PInv, Looked
    <2>2. \E p \in Permissions : Wanted(u.dataset, p)
      <3>1. PICK x \in {y \in Datasets \X Permissions : Group(y[1], y[2]) # {}} :
                   u = Unit(x[1], Group(x[1], x[2]))
        BY DEF Units
      <3> QED
        BY <3>1 DEF Unit, Wanted
    <2>3. Parent[u.dataset] \in Existing \cup {NoDataset}
      BY <2>1, <2>2, UnitParts DEF Rooted
    <2> QED
      BY <1>2, <2>1, <2>3 DEF Place, Places, PInv, Grows
  <1> QED
    BY <1>1, <1>2

(* The stop of unit v leaves the delegations of another active unit alone. *)
LEMMA StopSpares ==
  ASSUME Separate, Rooted, PInv, NEW u \in Units, NEW v \in Units, u # v,
         unit[u] = "active", Place(u) \in exists,
         NEW d \in {v.dataset, Parent[v.dataset]}
  PROVE  On(Place(u), u.permissions) \cap On(d, v.permissions) = {}
  <1> SUFFICES ASSUME NEW p \in u.permissions, p \in v.permissions, d = Place(u)
               PROVE  FALSE
    BY DEF On
  <1>1. u.dataset # v.dataset
    BY Partition
  <1>2. p \in Permissions /\ Wanted(u.dataset, p) /\ Wanted(v.dataset, p)
    BY UnitParts DEF Wanted
  <1>3. Place(u) \in Places(u.dataset) /\ Place(u) # NoDataset
    BY PlaceStays, DatasetsAssumption DEF PInv, TypeOK
  <1> QED
    BY <1>1, <1>2, <1>3, UnitParts DEF Separate

LEMMA InPlaceStep ==
  ASSUME Separate, Rooted, PInv, [Next]_vars, Looked'
  PROVE  InPlace'
  <1> SUFFICES ASSUME NEW w \in Units, unit'[w] = "active", Place(w)' \in exists'
               PROVE  On(Place(w)', w.permissions) \subseteq granted'
    BY DEF InPlace, On
  <1> USE DEF PInv, TypeOK
  <1>1. ASSUME NEW u \in Units, List(u)
        PROVE  On(Place(w)', w.permissions) \subseteq granted'
    <2>1. w # u /\ unit[w] = "active" /\ Place(w)' = Place(w)
      BY <1>1 DEF List, Place
    <2> QED
      BY <1>1, <2>1 DEF List, InPlace
  <1>2. ASSUME NEW u \in Units, Allow(u)
        PROVE  On(Place(w)', w.permissions) \subseteq granted'
    <2>1. Place(w)' = Place(w)
      BY <1>2 DEF Allow, Place
    <2>2. CASE w = u
      BY <1>2, <2>1, <2>2 DEF Allow, Delegated
    <2>3. CASE w # u
      BY <1>2, <2>1, <2>3 DEF Allow, InPlace
    <2> QED
      BY <2>2, <2>3
  <1>3. ASSUME NEW u \in Units, Unallow(u)
        PROVE  On(Place(w)', w.permissions) \subseteq granted'
    <2>1. w # u /\ unit[w] = "active" /\ Place(w)' = Place(w) /\ Place(w) \in exists
      BY <1>3 DEF Unallow, Place
    <2>2. On(Place(w), w.permissions) \cap On(u.dataset, u.permissions) = {}
      BY <2>1, StopSpares
    <2> QED
      BY <1>3, <2>1, <2>2 DEF Unallow, InPlace
  <1>4. ASSUME NEW u \in Units, UnallowParent(u)
        PROVE  On(Place(w)', w.permissions) \subseteq granted'
    <2>1. w # u /\ unit[w] = "active" /\ Place(w)' = Place(w) /\ Place(w) \in exists
      BY <1>4 DEF UnallowParent, Place
    <2>2. On(Place(w), w.permissions) \cap On(Parent[u.dataset], u.permissions) = {}
      BY <2>1, StopSpares
    <2> QED
      BY <1>4, <2>1, <2>2 DEF UnallowParent, OnParent, InPlace
  <1>5. ASSUME NEW c \in Commands, Start(c) \/ Run(c) \/ Finish(c)
        PROVE  On(Place(w)', w.permissions) \subseteq granted'
    BY <1>5 DEF Start, Run, Finish, InPlace, Place
  <1>6. ASSUME NEW c \in Commands, Create(c)
        PROVE  On(Place(w)', w.permissions) \subseteq granted'
    <2>1. unit[w] = "active" /\ Place(w)' = Place(w) /\ granted' = granted
      BY <1>6 DEF Create, Place
    <2>2. Place(w) \in exists
      <3>1. NoDataset \notin exists'
        BY <1>6, DatasetsAssumption DEF Create
      <3> QED
        BY <2>1, <3>1, PlaceStays
    <2> QED
      BY <2>1, <2>2 DEF InPlace
  <1>7. ASSUME Reboot
        PROVE  On(Place(w)', w.permissions) \subseteq granted'
    BY <1>7 DEF Reboot
  <1>8. ASSUME UNCHANGED vars
        PROVE  On(Place(w)', w.permissions) \subseteq granted'
    BY <1>8 DEF vars, InPlace, Place
  <1> QED
    BY <1>1, <1>2, <1>3, <1>4, <1>5, <1>6, <1>7, <1>8 DEF Next

LEMMA OnUnitsStep == TypeOK /\ OnUnits /\ [Next]_vars => OnUnits'
  <1> SUFFICES ASSUME TypeOK, OnUnits, [Next]_vars,
                      NEW c \in Commands, command'[c] = "running", NEW w \in UnitsOf(c)
               PROVE  unit'[w] = "active"
    BY DEF OnUnits, UnitsOf
  <1> USE DEF TypeOK, OnUnits
  <1>0. w \in Units /\ c \in w.commands
    BY DEF UnitsOf
  <1>1. ASSUME NEW u \in Units, List(u) \/ Allow(u) \/ UnallowParent(u) PROVE unit'[w] = "active"
    BY <1>0, <1>1 DEF List, Allow, UnallowParent
  <1>2. ASSUME NEW u \in Units, Unallow(u) PROVE unit'[w] = "active"
    BY <1>0, <1>2 DEF Unallow, Unneeded
  <1>3. ASSUME NEW b \in Commands, Start(b) \/ Run(b) \/ Create(b) \/ Finish(b)
        PROVE  unit'[w] = "active"
    BY <1>3 DEF Start, Run, Create, Finish
  <1>4. ASSUME Reboot PROVE unit'[w] = "active"
    BY <1>4 DEF Reboot
  <1>5. ASSUME UNCHANGED vars PROVE unit'[w] = "active"
    BY <1>5 DEF vars
  <1> QED
    BY <1>1, <1>2, <1>3, <1>4, <1>5 DEF Next

LEMMA PInvPermits == Rooted /\ PInv => RunsPermitted
  <1> SUFFICES ASSUME Rooted, PInv, NEW c \in Commands, command[c] = "running",
                      NEW d \in Datasets, NEW p \in Permissions, Needs(c, d, p),
                      d \in exists \/ Parent[d] \in exists
               PROVE  Allowed(d, p)
    BY DEF RunsPermitted, Permitted
  <1>1. PICK u \in UnitsOf(c) : u.dataset = d /\ p \in u.permissions
    BY UnitFor
  <1>2. u \in Units /\ unit[u] = "active"
    BY <1>1 DEF PInv, OnUnits, UnitsOf
  <1>3. Place(u) \in exists
    <2>1. CASE u \in found
      BY <1>1, <2>1 DEF Place, PInv, Looked
    <2>2. CASE u \notin found
      BY <1>1, <1>2, <2>2 DEF Place, PInv, Looked, Grows
    <2> QED
      BY <2>1, <2>2
  <1>4. <<Place(u), p>> \in granted
    BY <1>1, <1>2, <1>3 DEF PInv, InPlace, On
  <1> QED
    BY <1>1, <1>4 DEF Allowed, Place

(* Where no unit takes back what the unit of another dataset delegated, a  *)
(* running command has its permissions, whatever the others do.            *)
THEOREM RunsPermittedAlways == ASSUME Separate, Rooted PROVE Spec => []RunsPermitted
  <1>1. Init => PInv
    BY TypeInit, DatasetsAssumption DEF Init, PInv, Grows, Looked, InPlace, OnUnits, Place
  <1>2. PInv /\ [Next]_vars => PInv'
    BY TypeStep, GrowsStep, LookedStep, InPlaceStep, OnUnitsStep DEF PInv
  <1>3. PInv => RunsPermitted
    BY PInvPermits
  <1> QED
    BY <1>1, <1>2, <1>3, PTL DEF Spec
=============================================================================
