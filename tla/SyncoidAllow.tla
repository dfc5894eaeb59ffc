--------------------------- MODULE SyncoidAllow ---------------------------
(***************************************************************************)
(* services.syncoid (src/nix/modules/syncoid.nix): which ZFS permissions   *)
(* the user of the syncoid commands has while they run.  The module groups *)
(* what the commands need into units; the start of a unit delegates        *)
(* permissions and its stop takes them back.                               *)
(*                                                                         *)
(* systemd and ZFS are external.  A command requires its units and runs    *)
(* when all are active; a unit stops when no command needs it              *)
(* (StopWhenUnneeded).  Delegations are kept on disk and cover descendants.*)
(* The scripts of a unit run two zfs commands each, in two actions.        *)
(***************************************************************************)
EXTENDS FiniteSets, Naturals

CONSTANTS
  Commands,     \* cfg.commands
  Datasets,     \* local datasets
  NoDataset,    \* no dataset: a remote one, or the parent of a pool
  Parent,       \* dirOf
  Permissions,
  Source, Target,             \* source and target of each command
  SourceAllow, TargetAllow,   \* localSourceAllow, localTargetAllow
  Existing,     \* datasets there are in the beginning
  MaxReboots    \* bound: reboots

ASSUME DatasetsAssumption ==
  /\ NoDataset \notin Datasets
  /\ Parent \in [Datasets -> Datasets \cup {NoDataset}]
  /\ Existing \subseteq Datasets
ASSUME CommandsAssumption ==
  /\ Source \in [Commands -> Datasets \cup {NoDataset}]
  /\ Target \in [Commands -> Datasets \cup {NoDataset}]
  /\ SourceAllow \in [Commands -> SUBSET Permissions]
  /\ TargetAllow \in [Commands -> SUBSET Permissions]
ASSUME BoundsAssumption == MaxReboots \in Nat

-----------------------------------------------------------------------------
(* allowCommands: one unit for each dataset and set of commands.           *)

(* Whether command c needs permission p on its local dataset d.            *)
Needs(c, d, p) == \/ d = Source[c] /\ p \in SourceAllow[c]
                  \/ d = Target[c] /\ p \in TargetAllow[c]

(* The commands of one (dataset, permission).                              *)
Group(d, p) == {c \in Commands : Needs(c, d, p)}

Unit(d, cs) == [dataset |-> d, commands |-> cs,
                permissions |-> {p \in Permissions : Group(d, p) = cs}]

(* Mistake: every command has units of its own.                            *)
UnitPerCommand ==
  {[dataset |-> x[2], commands |-> {x[1]},
    permissions |-> {p \in Permissions : Needs(x[1], x[2], p)}] :
     x \in {y \in Commands \X Datasets : \E p \in Permissions : Needs(y[1], y[2], p)}}

Units ==
  {Unit(dp[1], Group(dp[1], dp[2])) :
     dp \in {x \in Datasets \X Permissions : Group(x[1], x[2]) # {}}}

(* allowUnitsByCommand                                                     *)
UnitsOf(c) == {u \in Units : c \in u.commands}

VARIABLES
  command,   \* each command: idle, waiting for its units, running
  unit,      \* each unit: inactive, listing, active, stopping
  found,     \* units whose dataset was there when they looked
  granted,   \* delegations to the user: <<dataset, permission>>
  exists,    \* the datasets there are
  crashed,   \* units that were up when the machine went down
  reboots

vars == <<command, unit, found, granted, exists, crashed, reboots>>

On(d, ps) == {d} \X ps

Init ==
  /\ command = [c \in Commands |-> "idle"]
  /\ unit = [u \in Units |-> "inactive"]
  /\ found = {} /\ granted = {}
  /\ exists = Existing
  /\ crashed = {} /\ reboots = 0

-----------------------------------------------------------------------------
(* The units.                                                              *)

(* ExecStart looks whether the dataset exists.                             *)
List(u) ==
  /\ unit[u] = "inactive" /\ \E c \in u.commands : command[c] = "waiting"
  /\ unit' = [unit EXCEPT ![u] = "listing"]
  /\ found' = IF u.dataset \in exists THEN found \cup {u} ELSE found \ {u}
  /\ UNCHANGED <<command, granted, exists, crashed, reboots>>

(* It delegates on the dataset, or on its parent if it was not there.  A   *)
(* pool has no parent, and a command of the script that fails is ignored.  *)
Place(u) == IF u \in found THEN u.dataset ELSE Parent[u.dataset]

(* Mistake: the case of a pool is forgotten.                               *)
OnPlace(u) == On(Place(u), u.permissions)
Delegated(u) == IF Place(u) \in exists THEN On(Place(u), u.permissions) ELSE {}

Allow(u) ==
  /\ unit[u] = "listing"
  /\ unit' = [unit EXCEPT ![u] = "active"]
  /\ granted' = granted \cup Delegated(u)
  /\ UNCHANGED <<command, found, exists, crashed, reboots>>

(* Mistake: a command that waits for its units does not count.             *)
NotRunning(u) == \A c \in u.commands : command[c] # "running"
(* StopWhenUnneeded                                                        *)
Unneeded(u) == \A c \in u.commands : command[c] = "idle"

(* ExecStop takes the permissions back from the dataset ...                *)
Unallow(u) ==
  /\ unit[u] = "active" /\ Unneeded(u)
  /\ unit' = [unit EXCEPT ![u] = "stopping"]
  /\ granted' = granted \ On(u.dataset, u.permissions)
  /\ UNCHANGED <<command, found, exists, crashed, reboots>>

(* Mistake: the parent is left out, though the delegation may be there.    *)
DatasetOnly(u) == {}
(* What the second command of ExecStop takes back.                         *)
OnParent(u) == On(Parent[u.dataset], u.permissions)

(* ... and from its parent, whether or not they were delegated there.      *)
UnallowParent(u) ==
  /\ unit[u] = "stopping"
  /\ unit' = [unit EXCEPT ![u] = "inactive"]
  /\ granted' = granted \ OnParent(u)
  /\ crashed' = crashed \ {u}
  /\ UNCHANGED <<command, found, exists, reboots>>

-----------------------------------------------------------------------------
(* The commands, and the machine.                                          *)

(* The timer, or somebody, starts a command.                               *)
Start(c) ==
  /\ command[c] = "idle"
  /\ command' = [command EXCEPT ![c] = "waiting"]
  /\ UNCHANGED <<unit, found, granted, exists, crashed, reboots>>

(* requires and after: it runs once its units are active.                  *)
Run(c) ==
  /\ command[c] = "waiting" /\ \A u \in UnitsOf(c) : unit[u] = "active"
  /\ command' = [command EXCEPT ![c] = "running"]
  /\ UNCHANGED <<unit, found, granted, exists, crashed, reboots>>

(* A running command receives into a new dataset.                          *)
Create(c) ==
  /\ command[c] = "running" /\ Target[c] \in Datasets \ exists
  /\ Parent[Target[c]] \in exists
  /\ exists' = exists \cup {Target[c]}
  /\ UNCHANGED <<command, unit, found, granted, crashed, reboots>>

(* It ends, in whatever way.                                               *)
Finish(c) ==
  /\ command[c] = "running"
  /\ command' = [command EXCEPT ![c] = "idle"]
  /\ UNCHANGED <<unit, found, granted, exists, crashed, reboots>>

(* The machine goes down and comes up; the delegations are still there.    *)
Reboot ==
  /\ reboots < MaxReboots
  /\ reboots' = reboots + 1
  /\ command' = [c \in Commands |-> "idle"]
  /\ unit' = [u \in Units |-> "inactive"]
  /\ found' = {}
  /\ crashed' = crashed \cup {u \in Units : unit[u] # "inactive"}
  /\ UNCHANGED <<granted, exists>>

Next ==
  \/ \E u \in Units : List(u) \/ Allow(u) \/ Unallow(u) \/ UnallowParent(u)
  \/ \E c \in Commands : Start(c) \/ Run(c) \/ Create(c) \/ Finish(c)
  \/ Reboot

(* systemd works its queue; commands end.                                  *)
Fairness ==
  /\ \A u \in Units : /\ WF_vars(List(u)) /\ WF_vars(Allow(u))
                      /\ WF_vars(Unallow(u)) /\ WF_vars(UnallowParent(u))
  /\ \A c \in Commands : WF_vars(Run(c)) /\ WF_vars(Finish(c))

Spec == Init /\ [][Next]_vars
FairSpec == Spec /\ Fairness

-----------------------------------------------------------------------------
(* Properties.                                                             *)

TypeOK ==
  /\ command \in [Commands -> {"idle", "waiting", "running"}]
  /\ unit \in [Units -> {"inactive", "listing", "active", "stopping"}]
  /\ found \subseteq Units
  /\ granted \subseteq Datasets \X Permissions
  /\ exists \subseteq Datasets
  /\ crashed \subseteq Units
  /\ reboots \in 0..MaxReboots

(* p is delegated on d or on its parent.                                   *)
Allowed(d, p) == <<d, p>> \in granted \/ <<Parent[d], p>> \in granted

(* A running command has every permission it asked for, on its dataset (or,*)
(* before it is created, on the one above), whichever other commands begin *)
(* and end meanwhile.                                                      *)
Permitted(c) ==
  \A d \in Datasets, p \in Permissions :
    Needs(c, d, p) /\ (d \in exists \/ Parent[d] \in exists) => Allowed(d, p)
RunsPermitted == \A c \in Commands : command[c] = "running" => Permitted(c)

(* Nothing stays delegated: each delegation belongs to a unit that is up,  *)
(* or that was up when the machine went down and has not run since.        *)
NoLeftovers ==
  \A g \in granted : \E u \in Units :
    /\ unit[u] # "inactive" \/ u \in crashed
    /\ g[1] \in {u.dataset, Parent[u.dataset]} /\ g[2] \in u.permissions

(* The comment of buildAllowCommand on a dataset that does not exist yet:  *)
(* delegating on the parent "should solve the case of provisioning new     *)
(* datasets", that is, such a command runs with its permissions, too.      *)
ProvisioningWorks ==
  \A c \in Commands :
    command[c] = "running" /\ Target[c] \in Datasets /\ Target[c] \notin Existing
      => Permitted(c)

(* A command that was started runs, however often the units it shares with *)
(* others go down and up again.                                            *)
StartedRuns == \A c \in Commands : command[c] = "waiting" ~> command[c] # "waiting"
=============================================================================
