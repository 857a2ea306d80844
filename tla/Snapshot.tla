------------------------------ MODULE Snapshot ------------------------------
(***************************************************************************)
(* A snapshot on its way into the hub (src/hub/lib/snapshot.js): it is     *)
(* validated, then what only the hub can derive, rates between counters of *)
(* two snapshots, is added.  The counter modelled is the one of a network  *)
(* interface; disks (io) and containers (docker) are compared the same     *)
(* way, by device and by id.  A host counts from 0 again when it boots and *)
(* may change its interface; what it measured arrives in any order, late,  *)
(* twice, or after a restart of the hub.                                   *)
(***************************************************************************)
EXTENDS Integers

CONSTANTS
    Iface,      \* network interfaces
    Grades,     \* what agents send, a subset of Grade
    Steps,      \* the traffic between two measurements
    MaxTs       \* bound on the measurements (the host's clock)

VARIABLES
    host,       \* the monitored host: its clock, interface, counter, and true traffic
    taken,      \* snapshots it took
    snap,       \* the hub's latest snapshot
    rateRx,     \* ... and the rate its view shows
    shown,      \* history: the two snapshots that rate compares
    stored      \* the latest snapshot on the hub's disk

snapVars == <<host, taken, snap, rateRx, shown, stored>>

-----------------------------------------------------------------------------
(* Data.                                                                   *)

(* What is wrong with a snapshot: nothing, an optional group, or a part    *)
(* that is required.                                                       *)
Grade == {"good", "net", "required"}
Null == -1
NoNet == [iface |-> "none"]
NoSnap == [ts |-> Null]

(* A measurement; flow is history, the true traffic of every interface.    *)
Sample(h, g) == [ts |-> h.ts, iface |-> h.iface, rx |-> h.rx[h.iface], flow |-> h.flow, grade |-> g]

ASSUME IfaceAssumption == Iface # {}
ASSUME GradesAssumption == Grades \subseteq Grade
ASSUME TrafficAssumption == Steps \subseteq Nat /\ MaxTs \in Nat

-----------------------------------------------------------------------------
(* validate: a bad required part refuses the snapshot, a bad group is left *)
(* out alone                                                               *)
Valid(s) == s.grade # "required"
Validated(s) ==
    [ts |-> s.ts, flow |-> s.flow,
     net |-> IF s.grade = "net" THEN NoNet ELSE [iface |-> s.iface, rx |-> s.rx]]

Round(x, dt) == (2 * x + dt) \div (2 * dt)      \* Math.round(x / dt)

(* Variant: a counter that went back has wrapped.                          *)
RateWraps(cur, prev, dt) ==
    IF dt <= 0 THEN Null ELSE Round(IF cur < prev THEN cur + 8 - prev ELSE cur - prev, dt)

(* rate: nothing when the counters cannot be compared                      *)
Rate(cur, prev, dt) == IF dt <= 0 \/ cur < prev THEN Null ELSE Round(cur - prev, dt)

(* view: only counters of the same interface are compared                  *)
View(cur, prev) ==
    IF prev # NoSnap /\ cur.net # NoNet /\ prev.net # NoNet /\ cur.net.iface = prev.net.iface
    THEN Rate(cur.net.rx, prev.net.rx, cur.ts - prev.ts)
    ELSE Null

-----------------------------------------------------------------------------
(* The host measures: some traffic went over its interface since.          *)
Measure(d, g) ==
    LET h == [host EXCEPT !.ts = @ + 1, !.rx[host.iface] = @ + d, !.flow[host.iface] = @ + d]
    IN  /\ host.ts < MaxTs
        /\ host' = h
        /\ taken' = taken \cup {Sample(h, g)}
        /\ UNCHANGED <<snap, rateRx, shown, stored>>

HostBoots ==
    /\ \E i \in Iface : host.rx[i] > 0
    /\ host' = [host EXCEPT !.rx = [i \in Iface |-> 0]]
    /\ UNCHANGED <<taken, snap, rateRx, shown, stored>>

HostMoves(i) ==
    /\ i # host.iface
    /\ host' = [host EXCEPT !.iface = i]
    /\ UNCHANGED <<taken, snap, rateRx, shown, stored>>

(* onSnapshot, up to the history: the view compares with the latest one,   *)
(* which it replaces in memory and, if it can be written, on disk          *)
TakeView(s, written) ==
    /\ Valid(s)
    /\ snap' = Validated(s)
    /\ rateRx' = View(snap', snap)
    /\ shown' = <<snap, snap'>>
    /\ stored' = IF written THEN snap' ELSE stored
    /\ UNCHANGED <<host, taken>>

(* The hub starts again: it has what is on its disk.                       *)
Reload ==
    /\ snap' = stored
    /\ rateRx' = Null /\ shown' = <<NoSnap, NoSnap>>
    /\ UNCHANGED <<host, taken, stored>>

SnapInit ==
    /\ host = [ts |-> 0, iface |-> CHOOSE i \in Iface : TRUE, rx |-> [j \in Iface |-> 0], flow |-> [j \in Iface |-> 0]]
    /\ taken = {}
    /\ snap = NoSnap /\ stored = NoSnap
    /\ rateRx = Null /\ shown = <<NoSnap, NoSnap>>

-----------------------------------------------------------------------------
(* A rate is never more than what really went over the interface between   *)
(* the two snapshots, rounded: not when the host booted, changed its       *)
(* interface or sent a broken group in between, and not when snapshots     *)
(* come late or twice (snapshot.js 169-173, 187-195).                      *)
RateIsTrue ==
    rateRx # Null =>
        LET prev == shown[1]
            cur == shown[2]
            dt == cur.ts - prev.ts
            flow == cur.flow[cur.net.iface] - prev.flow[cur.net.iface]
        IN  dt > 0 /\ 2 * rateRx * dt <= 2 * flow + dt
=============================================================================
