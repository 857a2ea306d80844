------------------------------ MODULE MCAlerts ------------------------------
(***************************************************************************)
(* Small instances of the alert engine.  The readings are 0 (fine), 1      *)
(* (between the clear value and the threshold) and 2 (over the threshold). *)
(***************************************************************************)
EXTENDS Alerts, TLC

Base == [metric |-> "number", op |-> ">=", threshold |-> 2, clear |-> 2, for |-> 1,
         off |-> FALSE, subs |-> Sub, scope |-> {}, overrides |-> << >>]
OfflineRule == [Base EXCEPT !.metric = "offline", !.threshold = 1, !.clear = 1, !.for = 0]
DiskRule == [Base EXCEPT !.metric = "disk.used", !.clear = 1]
ContainerRule == [Base EXCEPT !.metric = "container.down", !.threshold = 1, !.clear = 1]

OffFor(who) == <<[who |-> who, off |-> TRUE, threshold |-> 0]>>
ThresholdFor(who, th) == <<[who |-> who, off |-> FALSE, threshold |-> th]>>

-----------------------------------------------------------------------------
(* Disks: the defaults, and an edited list in which offline is off for     *)
(* tagged nodes and the disk rule has another threshold there.             *)
DiskRules == ("offline" :> OfflineRule) @@ ("disk_full" :> DiskRule)
EditedRules == [DiskRules EXCEPT !["offline"].overrides = OffFor("lab"),
                                 !["disk_full"].overrides = ThresholdFor("lab", 1)]
DiskRuleSets == {DiskRules, EditedRules}

(* A disk with a reading, one that is gone, or no list of disks.           *)
DiskViews == {"disk.used" :> ("/" :> x) : x \in 0 .. 2} \cup {"disk.used" :> << >>, << >>}

-----------------------------------------------------------------------------
(* Containers: the rule as it is, off, or gone from the list.              *)
ContainerRules == ("offline" :> OfflineRule) @@ ("c_db" :> ContainerRule)
ContainerRuleSets == {ContainerRules, [ContainerRules EXCEPT !["c_db"].off = TRUE],
                      "offline" :> OfflineRule}

(* A container up, unhealthy or down, one that is gone (another is listed) *)
(* or an empty list, as from a docker daemon that crashed.                 *)
ContainerViews == {"container.down" :> ("db" :> h) : h \in Health}
                  \cup {"container.down" :> ("web" :> "up"), "container.down" :> << >>}

-----------------------------------------------------------------------------
(* For alerts that never end: one list of rules, a disk full or fine.      *)
DiskOnly == {DiskRules}
FewViews == {"disk.used" :> ("/" :> 2), "disk.used" :> ("/" :> 0)}
=============================================================================
