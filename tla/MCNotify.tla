------------------------------ MODULE MCNotify ------------------------------
(***************************************************************************)
(* Small instances of the notifier.  A day has three units: the settings   *)
(* put quiet hours in the middle of it, over midnight, or nowhere.         *)
(***************************************************************************)
EXTENDS Notify, TLC

OneWarning == [k \in {"w"} |-> "warning"]
WarningAndCritical == ("w" :> "warning") @@ ("c" :> "critical")
WarningAndInfo == ("w" :> "warning") @@ ("i" :> "info")

Always == [on |-> Channel, min |-> [c \in Channel |-> "warning"], digest |-> Channel,
           quiet |-> NoHours, digestAt |-> 1]
AtNoon == [Always EXCEPT !.quiet = [from |-> 1, to |-> 2]]
AtNight == [Always EXCEPT !.quiet = [from |-> 2, to |-> 1], !.digestAt = 2]
NoChannels == [Always EXCEPT !.on = {}]

Daytime == {AtNoon}
AnyHours == {Always, AtNoon, AtNight}
DigestTimes == {Always, [Always EXCEPT !.digestAt = 2], NoChannels}
=============================================================================
