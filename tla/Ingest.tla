------------------------------- MODULE Ingest -------------------------------
(***************************************************************************)
(* What happens to a push that the agent API accepted (onSnapshot in       *)
(* src/hub/server.js): the snapshot is validated and viewed, and the       *)
(* series its view gives go to the history.                                *)
(***************************************************************************)
EXTENDS Snapshot, History

vars == <<snapVars, histVars>>

(* seriesOf: a series only where the view has a number                     *)
SeriesOf(rate) == {"cpu"} \cup IF rate # Null THEN {"net"} ELSE {}

(* onSnapshot, for what a host with its troubles sends                     *)
OnSnapshot(s, written, q) ==
    /\ fault = "host"
    /\ TakeView(s, written)
    /\ Range(q) = SeriesOf(rateRx')
    /\ Add(q, [x \in Series |-> Whole])

(* ... and for a healthy one, whose view may have any of the series        *)
OnHealthySnapshot(q, k) ==
    /\ fault # "host"
    /\ q # << >> /\ k \in Reached
    /\ Add(q, k)
    /\ UNCHANGED snapVars

Orders == UNION {SetToSeqs(X) : X \in SUBSET Named}
Host == \E d \in Steps, g \in Grades : Measure(d, g)

Init == SnapInit /\ HistInit

Next ==
    \/ fault = "host" /\ Host /\ UNCHANGED histVars
    \/ fault = "host" /\ HostBoots /\ UNCHANGED histVars
    \/ fault = "host" /\ (\E i \in Iface : HostMoves(i)) /\ UNCHANGED histVars
    \/ fault = "host" /\ Reload /\ UNCHANGED histVars
    \/ \E s \in taken, written \in BOOLEAN, q \in Orders : OnSnapshot(s, written, q)
    \/ \E q \in Orders, k \in Reached : OnHealthySnapshot(q, k)
    \/ fault # "host" /\ (\E q \in Orders, k \in Reached : Flush(q, k)) /\ UNCHANGED snapVars
    \/ \E q \in Orders, k \in Reached : StopStart(q, k) /\ UNCHANGED snapVars
    \/ Sweep /\ UNCHANGED snapVars
    \/ fault # "host" /\ RemoveNode /\ UNCHANGED snapVars
    \/ Minute /\ UNCHANGED snapVars
    \/ \E m \in 0 .. MaxTime : ClockGoesBack(m) /\ UNCHANGED snapVars

Spec == Init /\ [][Next]_vars
=============================================================================
