---------------------------- MODULE IngestProofs ----------------------------
(***************************************************************************)
(* Proofs about Ingest: the rates a view shows (Snapshot) and the ring     *)
(* files (History).                                                        *)
(***************************************************************************)
EXTENDS Ingest, FiniteSetTheorems, SequenceTheorems, WellFoundedInduction, TLAPS

-----------------------------------------------------------------------------
(* Rates.  What makes a rate true is a fact about the samples and not the  *)
(* hub: between two samples of an interface its counter grows by no more   *)
(* than what went over it, because it only ever starts again.              *)

SampleType == [ts : Nat, iface : Iface, rx : Nat, flow : [Iface -> Nat], grade : Grade]

HostType ==
    /\ host \in [ts : Nat, iface : Iface, rx : [Iface -> Nat], flow : [Iface -> Nat]]
    /\ taken \subseteq SampleType

(* A counter never gains on the traffic: from a sample to a later one, and *)
(* from a sample to what the host counts now.                              *)
CounterInv ==
    /\ \A a \in taken : a.ts <= host.ts /\ host.rx[a.iface] - a.rx <= host.flow[a.iface] - a.flow[a.iface]
    /\ \A a, b \in taken :
          a.ts < b.ts /\ a.iface = b.iface => b.rx - a.rx <= b.flow[a.iface] - a.flow[a.iface]

(* What the hub has is a sample, as validate leaves it.                    *)
FromSample(v) == v = NoSnap \/ \E a \in taken : v = Validated(a)

RateInv == HostType /\ CounterInv /\ FromSample(snap) /\ FromSample(stored) /\ RateIsTrue

(* Math.round: never more than half a unit above the quotient (snapshot.js *)
(* 169-173).                                                               *)
LEMMA RoundIsClose ==
    ASSUME NEW x \in Nat, NEW dt \in Nat \ {0}
    PROVE  Round(x, dt) \in Nat /\ 2 * Round(x, dt) * dt <= 2 * x + dt
<1> DEFINE n == 2 * x + dt
           d == 2 * dt
<1>1. n \in Nat /\ d \in Nat \ {0}
  OBVIOUS
<1>2. Round(x, dt) = n \div d
  BY DEF Round
<1> HIDE DEF n, d
<1>3. n \div d \in Nat /\ (n \div d) * d <= n
  BY <1>1
<1>4. 2 * Round(x, dt) * dt = Round(x, dt) * d
  BY <1>2, <1>3 DEF d
<1> QED BY <1>2, <1>3, <1>4 DEF n

(* view compares two samples of one interface, the older of them first, or *)
(* shows nothing (snapshot.js 187-195).                                    *)
LEMMA ViewIsTrue ==
    ASSUME HostType, CounterInv, NEW s \in taken, FromSample(snap),
           View(Validated(s), snap) # Null
    PROVE  LET cur == Validated(s)
               dt == cur.ts - snap.ts
               flow == cur.flow[cur.net.iface] - snap.flow[cur.net.iface]
           IN  dt > 0 /\ 2 * View(cur, snap) * dt <= 2 * flow + dt
<1> DEFINE cur == Validated(s)
<1>1. snap # NoSnap /\ cur.net # NoNet /\ snap.net # NoNet /\ cur.net.iface = snap.net.iface
      /\ View(cur, snap) = Rate(cur.net.rx, snap.net.rx, cur.ts - snap.ts)
  BY DEF View
<1>2. PICK p \in taken : snap = Validated(p)
  BY <1>1 DEF FromSample
<1>3. cur.net = [iface |-> s.iface, rx |-> s.rx] /\ snap.net = [iface |-> p.iface, rx |-> p.rx]
  BY <1>1, <1>2 DEF Validated
<1>4. cur.ts = s.ts /\ cur.flow = s.flow /\ snap.ts = p.ts /\ snap.flow = p.flow
  BY <1>2 DEF Validated
<1>5. /\ s.ts \in Nat /\ p.ts \in Nat /\ s.rx \in Nat /\ p.rx \in Nat /\ s.iface \in Iface
      /\ s.flow \in [Iface -> Nat] /\ p.flow \in [Iface -> Nat] /\ p.iface = s.iface
  BY <1>1, <1>3 DEF HostType, SampleType
<1>6. View(cur, snap) = Rate(s.rx, p.rx, s.ts - p.ts)
  BY <1>1, <1>3, <1>4
<1>7. s.ts - p.ts > 0 /\ s.rx >= p.rx /\ View(cur, snap) = Round(s.rx - p.rx, s.ts - p.ts)
  BY <1>5, <1>6 DEF Rate
<1>8. s.rx - p.rx <= s.flow[s.iface] - p.flow[s.iface]
  BY <1>5, <1>7 DEF CounterInv
<1>9. View(cur, snap) \in Nat
      /\ 2 * View(cur, snap) * (s.ts - p.ts) <= 2 * (s.rx - p.rx) + (s.ts - p.ts)
  <2>1. s.rx - p.rx \in Nat /\ s.ts - p.ts \in Nat \ {0}
    BY <1>5, <1>7
  <2> QED BY <2>1, <1>7, RoundIsClose
<1>10. s.flow[s.iface] \in Nat /\ p.flow[s.iface] \in Nat
  BY <1>5
<1>11. 2 * View(cur, snap) * (s.ts - p.ts) <= 2 * (s.flow[s.iface] - p.flow[s.iface]) + (s.ts - p.ts)
  <2> DEFINE r == 2 * View(cur, snap) * (s.ts - p.ts)
  <2>1. r \in Int
    BY <1>5, <1>9
  <2>2. r <= 2 * (s.rx - p.rx) + (s.ts - p.ts)
    BY <1>9
  <2> HIDE DEF r
  <2>3. r <= 2 * (s.flow[s.iface] - p.flow[s.iface]) + (s.ts - p.ts)
    BY <2>1, <2>2, <1>5, <1>8, <1>10
  <2> QED BY <2>3 DEF r
<1> HIDE DEF cur
<1>12. cur.net.iface = s.iface
  BY <1>3
<1> QED BY <1>4, <1>7, <1>11, <1>12 DEF cur

(* The host measures: its counter and the true traffic grow alike.         *)
LEMMA MeasureKeepsRates ==
    ASSUME RateInv, NEW d \in Steps, NEW g \in Grades, Measure(d, g)
    PROVE  RateInv'
<1> DEFINE e == host.iface
           h == [ts |-> host.ts + 1, iface |-> e,
                 rx |-> [host.rx EXCEPT ![e] = @ + d], flow |-> [host.flow EXCEPT ![e] = @ + d]]
<1>1. /\ host \in [ts : Nat, iface : Iface, rx : [Iface -> Nat], flow : [Iface -> Nat]]
      /\ taken \subseteq SampleType /\ d \in Nat /\ g \in Grade
  BY TrafficAssumption, GradesAssumption DEF RateInv, HostType
<1>2. host' = h
  BY <1>1 DEF Measure
<1>3. taken' = taken \cup {Sample(h, g)} /\ UNCHANGED <<snap, rateRx, shown, stored>>
  BY <1>1, <1>2 DEF Measure
<1>4. /\ h \in [ts : Nat, iface : Iface, rx : [Iface -> Nat], flow : [Iface -> Nat]]
      /\ h.ts = host.ts + 1 /\ h.iface = e /\ e \in Iface
      /\ \A i \in Iface : h.rx[i] - host.rx[i] = h.flow[i] - host.flow[i]
  <2>1. host.rx \in [Iface -> Nat] /\ host.flow \in [Iface -> Nat] /\ e \in Iface /\ host.ts \in Nat
    BY <1>1
  <2>2. h.rx \in [Iface -> Nat] /\ h.flow \in [Iface -> Nat]
    BY <1>1, <2>1
  <2>3. \A i \in Iface : h.rx[i] - host.rx[i] = h.flow[i] - host.flow[i]
    BY <1>1, <2>1
  <2> QED BY <2>1, <2>2, <2>3
<1> HIDE DEF h, e
<1> DEFINE n == Sample(h, g)
<1>5. /\ n \in SampleType /\ n.ts = h.ts /\ n.iface = e /\ n.rx = h.rx[e] /\ n.flow = h.flow
  BY <1>1, <1>4 DEF Sample, SampleType
<1> HIDE DEF n
<1>6. taken' = taken \cup {n}
  BY <1>3 DEF n
<1>7. HostType'
  BY <1>1, <1>2, <1>4, <1>5, <1>6 DEF HostType
<1>8. \A a \in taken : a.ts <= host.ts /\ h.rx[a.iface] - a.rx <= h.flow[a.iface] - a.flow[a.iface]
  <2> TAKE a \in taken
  <2>1. a.ts <= host.ts /\ host.rx[a.iface] - a.rx <= host.flow[a.iface] - a.flow[a.iface]
    BY DEF RateInv, CounterInv
  <2>2. a.iface \in Iface /\ a.rx \in Nat /\ a.flow \in [Iface -> Nat]
    BY <1>1 DEF SampleType
  <2> DEFINE i == a.iface
  <2>3. /\ a.flow[i] \in Nat /\ h.rx[i] \in Nat /\ h.flow[i] \in Nat
        /\ host.rx[i] \in Nat /\ host.flow[i] \in Nat
        /\ h.rx[i] - host.rx[i] = h.flow[i] - host.flow[i]
    BY <2>2, <1>1, <1>4
  <2> HIDE DEF i
  <2>4. host.rx[i] - a.rx <= host.flow[i] - a.flow[i]
    BY <2>1 DEF i
  <2>5. h.rx[i] - a.rx <= h.flow[i] - a.flow[i]
    BY <2>2, <2>3, <2>4
  <2> QED BY <2>1, <2>5 DEF i
<1>9. CounterInv'
  <2>1. ASSUME NEW a \in taken'
        PROVE  a.ts <= h.ts /\ h.rx[a.iface] - a.rx <= h.flow[a.iface] - a.flow[a.iface]
    <3>1. CASE a \in taken
      <4>1. a.ts \in Nat /\ host.ts \in Nat
        BY <3>1, <1>1 DEF SampleType
      <4> QED BY <3>1, <4>1, <1>4, <1>8
    <3>2. CASE a = n
      <4>1. h.ts \in Nat /\ h.rx[e] \in Nat /\ h.flow[e] \in Nat
        BY <1>4
      <4> QED BY <3>2, <4>1, <1>5
    <3> QED BY <3>1, <3>2, <1>6
  <2>2. ASSUME NEW a \in taken', NEW b \in taken', a.ts < b.ts, a.iface = b.iface
        PROVE  b.rx - a.rx <= b.flow[a.iface] - a.flow[a.iface]
    <3>1. CASE a \in taken /\ b \in taken
      BY <2>2, <3>1 DEF RateInv, CounterInv
    <3>2. CASE a \in taken /\ b = n
      BY <2>2, <3>2, <1>5, <1>8
    <3>3. CASE a = n
      <4>1. a.ts \in Nat /\ b.ts \in Nat /\ b.ts <= a.ts
        BY <3>3, <2>1, <1>4, <1>5, <1>7 DEF HostType, SampleType
      <4> QED BY <4>1, <2>2
    <3> QED BY <3>1, <3>2, <3>3, <1>6
  <2> QED BY <2>1, <2>2, <1>2 DEF CounterInv
<1>10. FromSample(snap)' /\ FromSample(stored)'
  BY <1>3, <1>6 DEF RateInv, FromSample
<1>11. RateIsTrue'
  BY <1>3 DEF RateInv, RateIsTrue
<1> QED BY <1>7, <1>9, <1>10, <1>11 DEF RateInv

(* A boot starts the counters again, another interface changes nothing.    *)
LEMMA HostKeepsRates ==
    ASSUME RateInv, HostBoots \/ \E i \in Iface : HostMoves(i)
    PROVE  RateInv'
<1>1. /\ host \in [ts : Nat, iface : Iface, rx : [Iface -> Nat], flow : [Iface -> Nat]]
      /\ taken \subseteq SampleType
  BY DEF RateInv, HostType
<1>2. UNCHANGED <<taken, snap, rateRx, shown, stored>>
  BY DEF HostBoots, HostMoves
<1>3. /\ host' \in [ts : Nat, iface : Iface, rx : [Iface -> Nat], flow : [Iface -> Nat]]
      /\ host'.ts = host.ts /\ host'.flow = host.flow /\ \A i \in Iface : host'.rx[i] <= host.rx[i]
  <2>1. CASE HostBoots
    <3>1. host' = [ts |-> host.ts, iface |-> host.iface, rx |-> [i \in Iface |-> 0], flow |-> host.flow]
      BY <1>1, <2>1 DEF HostBoots
    <3> QED BY <3>1, <1>1
  <2>2. CASE \E i \in Iface : HostMoves(i)
    <3>1. PICK i \in Iface : HostMoves(i)
      BY <2>2
    <3>2. host' = [ts |-> host.ts, iface |-> i, rx |-> host.rx, flow |-> host.flow]
      BY <1>1, <3>1 DEF HostMoves
    <3> QED BY <3>2, <1>1
  <2> QED BY <2>1, <2>2
<1>4. HostType'
  BY <1>1, <1>2, <1>3 DEF HostType
<1>5. CounterInv'
  <2>1. ASSUME NEW a \in taken
        PROVE  a.ts <= host'.ts /\ host'.rx[a.iface] - a.rx <= host'.flow[a.iface] - a.flow[a.iface]
    <3>1. a.ts <= host.ts /\ host.rx[a.iface] - a.rx <= host.flow[a.iface] - a.flow[a.iface]
      BY DEF RateInv, CounterInv
    <3>2. a.iface \in Iface /\ a.rx \in Nat /\ a.flow[a.iface] \in Nat
      BY <1>1 DEF SampleType
    <3>3. /\ host.rx[a.iface] \in Nat /\ host'.rx[a.iface] \in Nat /\ host.flow[a.iface] \in Nat
          /\ host'.rx[a.iface] <= host.rx[a.iface]
      BY <3>2, <1>1, <1>3
    <3> QED BY <3>1, <3>2, <3>3, <1>3
  <2> QED BY <2>1, <1>2 DEF RateInv, CounterInv
<1>6. FromSample(snap)' /\ FromSample(stored)' /\ RateIsTrue'
  BY <1>2 DEF RateInv, FromSample, RateIsTrue
<1> QED BY <1>4, <1>5, <1>6 DEF RateInv

(* The hub takes a snapshot, or starts again with the one on its disk.     *)
LEMMA HubKeepsRates ==
    ASSUME RateInv, Reload \/ \E s \in taken, written \in BOOLEAN : TakeView(s, written)
    PROVE  RateInv'
<1>1. UNCHANGED <<host, taken>>
  BY DEF Reload, TakeView
<1>2. HostType' /\ CounterInv'
  BY <1>1 DEF RateInv, HostType, CounterInv
<1>3. CASE Reload
  <2>1. FromSample(snap)' /\ FromSample(stored)'
    BY <1>1, <1>3 DEF RateInv, FromSample, Reload
  <2>2. RateIsTrue'
    BY <1>3 DEF RateIsTrue, Reload
  <2> QED BY <1>2, <2>1, <2>2 DEF RateInv
<1>4. CASE \E s \in taken, written \in BOOLEAN : TakeView(s, written)
  <2>1. PICK s \in taken, written \in BOOLEAN : TakeView(s, written)
    BY <1>4
  <2>2. snap' = Validated(s) /\ (stored' = stored \/ stored' = snap')
    BY <2>1 DEF TakeView
  <2>3. FromSample(snap)' /\ FromSample(stored)'
    BY <1>1, <2>2 DEF RateInv, FromSample
  <2>4. rateRx' = View(Validated(s), snap) /\ shown' = <<snap, Validated(s)>>
    BY <2>1, <2>2 DEF TakeView
  <2>5. RateIsTrue'
    <3> SUFFICES ASSUME rateRx' # Null PROVE RateIsTrue'
      BY DEF RateIsTrue
    <3>1. shown'[1] = snap /\ shown'[2] = Validated(s)
      BY <2>4
    <3>2. LET cur == Validated(s)
              dt == cur.ts - snap.ts
              flow == cur.flow[cur.net.iface] - snap.flow[cur.net.iface]
          IN  dt > 0 /\ 2 * View(cur, snap) * dt <= 2 * flow + dt
      BY <2>4, ViewIsTrue DEF RateInv
    <3> QED BY <2>4, <3>1, <3>2 DEF RateIsTrue
  <2> QED BY <1>2, <2>3, <2>5 DEF RateInv
<1> QED BY <1>3, <1>4

(* A view never shows a rate above what really went over the interface     *)
(* (view and rate, snapshot.js 169-195), for every number of interfaces    *)
(* and any traffic.                                                        *)
THEOREM RatesAreTrue == Spec => []RateIsTrue
<1>1. Init => RateInv
  <2>1. (CHOOSE i \in Iface : TRUE) \in Iface
    BY IfaceAssumption
  <2> QED BY <2>1 DEF Init, SnapInit, RateInv, HostType, CounterInv, FromSample, RateIsTrue
<1>2. RateInv /\ [Next]_vars => RateInv'
  <2> SUFFICES ASSUME RateInv, [Next]_vars PROVE RateInv'
    OBVIOUS
  <2>1. CASE UNCHANGED snapVars
    BY <2>1 DEF snapVars, RateInv, HostType, CounterInv, FromSample, RateIsTrue
  <2>2. CASE Host
    BY <2>2, MeasureKeepsRates DEF Host
  <2>3. CASE HostBoots \/ \E i \in Iface : HostMoves(i)
    BY <2>3, HostKeepsRates
  <2>4. CASE Reload \/ \E s \in taken, written \in BOOLEAN : TakeView(s, written)
    BY <2>4, HubKeepsRates
  <2>5. [Next]_vars => \/ UNCHANGED snapVars \/ Host
                       \/ HostBoots \/ (\E i \in Iface : HostMoves(i))
                       \/ Reload \/ \E s \in taken, written \in BOOLEAN : TakeView(s, written)
    BY DEF Next, vars, OnSnapshot, OnHealthySnapshot
  <2> QED BY <2>1, <2>2, <2>3, <2>4, <2>5
<1>3. RateInv => RateIsTrue
  BY DEF RateInv
<1> QED BY <1>1, <1>2, <1>3, PTL DEF Spec

-----------------------------------------------------------------------------
(* Folds.  add and flush go through series one after the other; what is    *)
(* true of every step of the loop is shown by taking the first step for    *)
(* which it would be wrong.                                                *)

(* Every set of naturals has a least one.                                  *)
LEMMA LeastNatural ==
    ASSUME NEW S, S \subseteq Nat, S # {}
    PROVE  \E n \in S : \A m \in S : n <= m
<1>1. \E R : IsWellFoundedOn(R, Nat) /\ \A x, y \in Nat : y < x => <<y, x>> \in R
  <2>1. \A x, y \in Nat : y < x => <<y, x>> \in OpToRel(<, Nat)
    BY DEF OpToRel
  <2> QED BY <2>1, NatLessThanWellFounded, Zenon
<1>2. PICK R : IsWellFoundedOn(R, Nat) /\ \A x, y \in Nat : y < x => <<y, x>> \in R
  BY <1>1
<1>3. PICK n \in S : \A y \in S : <<y, n>> \notin R
  BY <1>2, WFMin
<1>4. \A y \in S : ~ (y < n)
  BY <1>2, <1>3
<1> QED BY <1>4

(* Induction up to n, over a set of numbers.                               *)
LEMMA Induction ==
    ASSUME NEW n \in Nat, NEW Good, 0 \in Good, \A i \in 1 .. n : i - 1 \in Good => i \in Good
    PROVE  \A i \in 0 .. n : i \in Good
<1> DEFINE Bad == {i \in 0 .. n : i \notin Good}
<1> SUFFICES ASSUME Bad # {} PROVE FALSE
  OBVIOUS
<1>1. PICK m \in Bad : \A j \in Bad : m <= j
  <2>1. Bad \subseteq Nat
    OBVIOUS
  <2> HIDE DEF Bad
  <2> QED BY <2>1, LeastNatural
<1>2. m \in 1 .. n /\ m - 1 \notin Bad
  <2>1. m \in 1 .. n
    OBVIOUS
  <2>2. m - 1 < m /\ m - 1 \in Int
    BY <2>1
  <2>3. m - 1 \in Bad => m <= m - 1
    BY <1>1
  <2> HIDE DEF Bad
  <2> QED BY <2>1, <2>2, <2>3
<1> QED BY <1>2

(* One step of the loop of add, or of that of flush.                       *)
OneStep(add, st, x, k) == IF add THEN AddOne(st, x, k) ELSE FlushOne(st, x, k)
Folded(add, st, q, k) ==
    IF add THEN FoldLeft(LAMBDA acc, x : AddOne(acc, x, k), st, q)
    ELSE FoldLeft(LAMBDA acc, x : FlushOne(acc, x, k), st, q)

(* The last index is the greatest one.                                     *)
LEMMA MaxOfPrefix ==
    ASSUME NEW n \in Nat \ {0}, NEW s \in SUBSET (1 .. n), n \in s
    PROVE  Max(s) = n
<1>1. \E x \in s : \A y \in s : x >= y
  <2>1. \A y \in s : n >= y
    OBVIOUS
  <2> QED BY <2>1
<1>2. Max(s) \in s /\ \A y \in s : Max(s) >= y
  BY <1>1, Zenon DEF Max
<1>3. Max(s) \in 1 .. n /\ Max(s) >= n
  BY <1>2
<1> QED BY <1>3

(* The equation of the function that the fold is defined with.             *)
Iterates(add, b, q, k, n, it) ==
    it = [s \in SUBSET (1 .. n) |->
             IF s = {} THEN b ELSE OneStep(add, it[s \ {Max(s)}], q[Max(s)], k)]

(* That function exists.                                                   *)
LEMMA FoldExists ==
    ASSUME NEW add, NEW q, NEW k, NEW b, NEW n \in Nat
    PROVE  \E it : Iterates(add, b, q, k, n, it)
<1> DEFINE Rec(it, m) == Iterates(add, b, q, k, m, it)
           Good == {m \in Nat : \E it : Rec(it, m)}
<1> USE DEF Iterates
<1>1. 0 \in Good
  <2>1. SUBSET (1 .. 0) = {{}}
    OBVIOUS
  <2>2. Rec([s \in {{}} |-> b], 0)
    BY <2>1
  <2> QED BY <2>2
<1>2. ASSUME NEW m \in 1 .. n, m - 1 \in Good PROVE m \in Good
  <2>0. m \in Nat \ {0}
    OBVIOUS
  <2>1. PICK old : Rec(old, m - 1)
    BY <1>2
  <2> DEFINE new == [s \in SUBSET (1 .. m) |->
                       IF m \in s THEN OneStep(add, old[s \ {m}], q[m], k) ELSE old[s]]
  <2>2. ASSUME NEW s \in SUBSET (1 .. m)
        PROVE  new[s] = IF s = {} THEN b ELSE OneStep(add, new[s \ {Max(s)}], q[Max(s)], k)
    <3>1. CASE m \in s
      <4>1. Max(s) = m /\ s # {}
        BY <2>0, <3>1, MaxOfPrefix
      <4>2. s \ {m} \in SUBSET (1 .. m) /\ m \notin s \ {m} /\ s \ {m} \in SUBSET (1 .. m - 1)
        BY <2>0
      <4>3. new[s \ {m}] = old[s \ {m}]
        BY <4>2
      <4>4. new[s] = OneStep(add, old[s \ {m}], q[m], k)
        BY <3>1
      <4> HIDE DEF new
      <4> QED BY <4>1, <4>3, <4>4
    <3>2. CASE m \notin s
      <4>1. s \in SUBSET (1 .. m - 1) /\ new[s] = old[s]
        BY <2>0, <3>2
      <4>2. CASE s = {}
        BY <4>1, <4>2, <2>1
      <4>3. CASE s # {}
        <5>1. s \ {Max(s)} \in SUBSET (1 .. m) /\ m \notin s \ {Max(s)}
          BY <3>2
        <5>2. new[s \ {Max(s)}] = old[s \ {Max(s)}]
          BY <5>1
        <5>3. old[s] = OneStep(add, old[s \ {Max(s)}], q[Max(s)], k)
          BY <4>1, <4>3, <2>1
        <5> HIDE DEF new
        <5> QED BY <4>1, <4>3, <5>2, <5>3
      <4> QED BY <4>2, <4>3
    <3> QED BY <3>1, <3>2
  <2>3. Rec(new, m)
    BY <2>2
  <2> QED BY <2>0, <2>3
<1> HIDE DEF Good, Iterates
<1>3. \A i \in 0 .. n : i \in Good
  BY <1>1, <1>2, Induction
<1>4. n \in Good
  BY <1>3
<1> QED BY <1>4 DEF Good

(* A fold is what a loop ends with that starts with st and takes one step  *)
(* for every name (history.js 189-201, 204-209).                           *)
LEMMA FoldIsLoop ==
    ASSUME NEW add \in BOOLEAN, NEW n \in Nat, NEW q, DOMAIN q = 1 .. n, NEW k, NEW st
    PROVE  \E tr : /\ tr[0] = st /\ tr[n] = Folded(add, st, q, k)
                   /\ \A i \in 1 .. n : tr[i] = OneStep(add, tr[i - 1], q[i], k)
<1> DEFINE Rec(it) == Iterates(add, st, q, k, n, it)
<1>1. \E it : Rec(it) /\ Folded(add, st, q, k) = it[1 .. n]
  <2>0. \E it : Rec(it)
    BY FoldExists
  <2> USE DEF Iterates
  <2>1. CASE add
    <3> DEFINE RecA(it) == it = [s \in SUBSET DOMAIN q |->
                            IF s = {} THEN st ELSE AddOne(it[s \ {Max(s)}], q[Max(s)], k)]
    <3>1. \E it : RecA(it)
      BY <2>0, <2>1 DEF OneStep
    <3>2. RecA(CHOOSE it : RecA(it))
      BY <3>1
    <3>3. Rec(CHOOSE it : RecA(it))
      BY <3>2, <2>1 DEF OneStep
    <3>4. FoldLeft(LAMBDA acc, x : AddOne(acc, x, k), st, q) = (CHOOSE it : RecA(it))[DOMAIN q]
      BY DEF FoldLeft, MapThenFoldSet
    <3>5. Folded(TRUE, st, q, k) = (CHOOSE it : RecA(it))[1 .. n]
      BY <3>4 DEF Folded
    <3> QED BY <2>1, <3>3, <3>5
  <2>2. CASE ~add
    <3> DEFINE RecF(it) == it = [s \in SUBSET DOMAIN q |->
                            IF s = {} THEN st ELSE FlushOne(it[s \ {Max(s)}], q[Max(s)], k)]
    <3>1. \E it : RecF(it)
      BY <2>0, <2>2 DEF OneStep
    <3>2. RecF(CHOOSE it : RecF(it))
      BY <3>1
    <3>3. Rec(CHOOSE it : RecF(it))
      BY <3>2, <2>2 DEF OneStep
    <3>4. FoldLeft(LAMBDA acc, x : FlushOne(acc, x, k), st, q) = (CHOOSE it : RecF(it))[DOMAIN q]
      BY DEF FoldLeft, MapThenFoldSet
    <3>5. Folded(FALSE, st, q, k) = (CHOOSE it : RecF(it))[1 .. n]
      BY <3>4 DEF Folded
    <3> QED BY <2>2, <3>3, <3>5
  <2> QED BY <2>1, <2>2
<1>2. PICK it : Rec(it) /\ Folded(add, st, q, k) = it[1 .. n]
  BY <1>1
<1> DEFINE tr == [i \in 0 .. n |-> it[1 .. i]]
<1>3. tr[0] = st
  <2>1. 1 .. 0 = {} /\ {} \in SUBSET (1 .. n) /\ 0 \in 0 .. n
    OBVIOUS
  <2>2. it[{}] = st
    BY <1>2, <2>1 DEF Iterates
  <2> QED BY <2>1, <2>2
<1>4. tr[n] = Folded(add, st, q, k)
  BY <1>2
<1>5. ASSUME NEW i \in 1 .. n PROVE tr[i] = OneStep(add, tr[i - 1], q[i], k)
  <2>1. 1 .. i \in SUBSET (1 .. n) /\ i \in 1 .. i /\ 1 .. i # {} /\ i \in Nat \ {0}
        /\ i \in 0 .. n /\ i - 1 \in 0 .. n
    <3>1. i \in Nat \ {0} /\ i <= n
      OBVIOUS
    <3> HIDE DEF tr
    <3>2. \A j \in 1 .. i : j \in 1 .. n
      BY <3>1
    <3>3. 1 .. i \in SUBSET (1 .. n)
      BY <3>2
    <3>4. i \in 1 .. i /\ i \in 0 .. n /\ i - 1 \in 0 .. n
      BY <3>1
    <3> QED BY <3>1, <3>3, <3>4
  <2>2. Max(1 .. i) = i
    BY <2>1, MaxOfPrefix
  <2>3. (1 .. i) \ {i} = 1 .. i - 1
    BY <2>1
  <2>4. it[1 .. i] = OneStep(add, it[(1 .. i) \ {Max(1 .. i)}], q[Max(1 .. i)], k)
    BY <1>2, <2>1 DEF Iterates
  <2>5. it[1 .. i] = OneStep(add, it[1 .. i - 1], q[i], k)
    BY <2>2, <2>3, <2>4
  <2> QED BY <2>1, <2>5
<1> HIDE DEF tr
<1> QED BY <1>3, <1>4, <1>5

-----------------------------------------------------------------------------
(* Ring files.  First what each stage of a write leaves in the file.       *)

PointType == (0 .. MaxTime) \X Nat
Slots(t) == 0 .. Size(t) - 1

IsFile(f) ==
    /\ f = [last |-> f.last, at |-> f.at]
    /\ f.last \in [Tier -> Int] /\ \A t \in Tier : f.last[t] >= -1
    /\ DOMAIN f.at = Tier /\ \A t \in Tier : f.at[t] \in [Slots(t) -> SUBSET PointType]

(* The slots that become gaps.                                             *)
Gone(f, t, i) ==
    CASE StartsOver(f, t, i) -> Slots(t)
      [] f.last[t] >= 0 /\ i > f.last[t] + 1 -> {k % Size(t) : k \in f.last[t] + 1 .. i - 1}
      [] OTHER -> {}

LastAfter(f, t, i) == IF StartsOver(f, t, i) \/ i > f.last[t] THEN i ELSE f.last[t]

(* What is in a slot once the point is written.                            *)
SlotAfter(f, t, i, p, s) ==
    IF s = i % Size(t) THEN p ELSE IF s \in Gone(f, t, i) THEN Gap ELSE f.at[t][s]

(* The sizes of a tier are positive.                                       *)
LEMMA Sizes ==
    /\ Len1 \in Nat \ {0} /\ Len2 \in Nat \ {0} /\ Step \in Nat \ {0} /\ Step <= Len1
    /\ MaxTime \in Nat
    /\ \A t \in Tier : Size(t) \in Nat \ {0}
  BY TiersAssumption, HistoryBounds DEF Size, Tier

(* An index has a slot.                                                    *)
LEMMA SlotOfIndex ==
    ASSUME NEW t \in Tier, NEW i \in Int
    PROVE  i % Size(t) \in Slots(t)
  BY Sizes DEF Slots

(* A file that was just made is one of gaps (history.js 96-106).           *)
LEMMA FreshIsFile ==
    /\ IsFile(Fresh) /\ \A t \in Tier : Fresh.last[t] = -1
    /\ \A t \in Tier : \A s \in Slots(t) : Fresh.at[t][s] = {}
  BY DEF Fresh, IsFile, Slots, Gap, Tier

(* A file is not the absence of one.                                       *)
LEMMA FileIsThere ==
    ASSUME NEW f, IsFile(f)
    PROVE  f # NoRing
<1>1. DOMAIN f.last = Tier /\ 1 \in Tier
  BY DEF IsFile, Tier
<1>2. DOMAIN NoRing.last = {}
  BY DEF NoRing
<1> QED BY <1>1, <1>2

(* put, stage by stage (history.js 139-147): the other tier is as it was,  *)
(* and of this one the gaps, the point and the index are written in turn.  *)
LEMMA PutIsExact ==
    ASSUME NEW f, IsFile(f), NEW t \in Tier, NEW i \in Nat, NEW p \in SUBSET PointType,
           NEW u \in 1 .. 3
    PROVE  LET g == Put(f, t, i, p)[u]
           IN  /\ IsFile(g)
               /\ \A v \in Tier \ {t} : g.last[v] = f.last[v] /\ g.at[v] = f.at[v]
               /\ g.last[t] = IF u = 3 THEN LastAfter(f, t, i) ELSE f.last[t]
               /\ \A s \in Slots(t) :
                     g.at[t][s] = IF u = 1
                                  THEN IF s \in Gone(f, t, i) THEN Gap ELSE f.at[t][s]
                                  ELSE SlotAfter(f, t, i, p, s)
<1> DEFINE a == Gaps(f, t, i)
           b == Point(a, t, i, p)
           c == LastIndex(b, f, t, i)
           n == i % Size(t)
           sa == [k \in Slots(t) |-> IF k \in Gone(f, t, i) THEN Gap ELSE f.at[t][k]]
           sb == [sa EXCEPT ![n] = p]
<1>1. /\ f = [last |-> f.last, at |-> f.at] /\ f.last \in [Tier -> Int] /\ f.last[t] \in Int
      /\ \A v \in Tier : f.last[v] >= -1
      /\ DOMAIN f.at = Tier /\ f.at[t] \in [Slots(t) -> SUBSET PointType] /\ n \in Slots(t)
      /\ \A v \in Tier : f.at[v] \in [Slots(v) -> SUBSET PointType]
  BY SlotOfIndex DEF IsFile
<1>2. a = [last |-> f.last, at |-> [f.at EXCEPT ![t] = sa]]
  <2>1. a = [f EXCEPT !.at[t] = [k \in DOMAIN f.at[t] |-> IF k \in Gone(f, t, i) THEN Gap ELSE f.at[t][k]]]
    BY DEF Gaps, Gone, Slots
  <2>2. DOMAIN f.at[t] = Slots(t)
    BY <1>1
  <2>3. a = [f EXCEPT !.at[t] = sa]
    BY <2>1, <2>2
  <2> HIDE DEF a, sa
  <2> QED BY <1>1, <2>3
<1>3. sa \in [Slots(t) -> SUBSET PointType]
  BY <1>1 DEF Gap
<1>4. b = [last |-> f.last, at |-> [f.at EXCEPT ![t] = sb]]
  <2>1. b = [a EXCEPT !.at[t][n] = p]
    BY DEF Point
  <2> HIDE DEF b, sa, n
  <2> QED BY <1>1, <1>2, <1>3, <2>1, SMTT(30)
<1>5. sb \in [Slots(t) -> SUBSET PointType]
      /\ \A s \in Slots(t) : sb[s] = SlotAfter(f, t, i, p, s)
  BY <1>1, <1>3 DEF SlotAfter
<1>6. LastAfter(f, t, i) \in Int /\ LastAfter(f, t, i) >= -1
      /\ (~(StartsOver(f, t, i) \/ i > f.last[t]) => LastAfter(f, t, i) = f.last[t])
      /\ (StartsOver(f, t, i) \/ i > f.last[t] => LastAfter(f, t, i) = i)
  BY <1>1 DEF LastAfter
<1>7. c = [last |-> [f.last EXCEPT ![t] = LastAfter(f, t, i)], at |-> [f.at EXCEPT ![t] = sb]]
  <2> HIDE DEF b, sb
  <2>1. CASE StartsOver(f, t, i) \/ i > f.last[t]
    <3>1. c = [b EXCEPT !.last[t] = i]
      BY <2>1 DEF LastIndex
    <3> HIDE DEF c
    <3> QED BY <1>1, <1>4, <1>6, <2>1, <3>1
  <2>2. CASE ~(StartsOver(f, t, i) \/ i > f.last[t])
    <3>1. c = b
      BY <2>2 DEF LastIndex
    <3>2. [f.last EXCEPT ![t] = LastAfter(f, t, i)] = f.last
      BY <1>1, <1>6, <2>2
    <3> HIDE DEF c
    <3> QED BY <1>4, <3>1, <3>2
  <2> QED BY <2>1, <2>2
<1>8. Put(f, t, i, p) = <<a, b, c>>
  BY DEF Put
<1> HIDE DEF a, b, c, n
<1>9. sa = [k \in Slots(t) |-> IF k \in Gone(f, t, i) THEN Gap ELSE f.at[t][k]]
  OBVIOUS
<1> HIDE DEF sa, sb
<1>10. CASE u = 1
  <2>1. Put(f, t, i, p)[u] = a
    BY <1>8, <1>10
  <2>2. IsFile(a) /\ \A v \in Tier \ {t} : a.last[v] = f.last[v] /\ a.at[v] = f.at[v]
    BY <1>1, <1>2, <1>3 DEF IsFile
  <2>3. a.last[t] = f.last[t] /\ a.at[t] = sa
    BY <1>1, <1>2
  <2> QED BY <1>9, <1>10, <2>1, <2>2, <2>3
<1>11. CASE u = 2
  <2>1. Put(f, t, i, p)[u] = b
    BY <1>8, <1>11
  <2>2. IsFile(b) /\ \A v \in Tier \ {t} : b.last[v] = f.last[v] /\ b.at[v] = f.at[v]
    BY <1>1, <1>4, <1>5 DEF IsFile
  <2>3. b.last[t] = f.last[t] /\ b.at[t] = sb
    BY <1>1, <1>4
  <2> QED BY <1>5, <1>11, <2>1, <2>2, <2>3
<1>12. CASE u = 3
  <2>1. Put(f, t, i, p)[u] = c
    BY <1>8, <1>12
  <2>2. IsFile(c) /\ \A v \in Tier \ {t} : c.last[v] = f.last[v] /\ c.at[v] = f.at[v]
    BY <1>1, <1>5, <1>6, <1>7 DEF IsFile
  <2>3. c.last[t] = LastAfter(f, t, i) /\ c.at[t] = sb
    BY <1>1, <1>7
  <2> QED BY <1>5, <1>12, <2>1, <2>2, <2>3
<1> QED BY <1>10, <1>11, <1>12

(* Two indices of one slot that are less than a turn apart are equal.      *)
LEMMA SameSlot ==
    ASSUME NEW n \in Nat \ {0}, NEW a \in Int, NEW b \in Int, a % n = b % n, a - b < n, b - a < n
    PROVE  a = b
<1> DEFINE x == a \div n
           y == b \div n
<1>1. x \in Int /\ y \in Int /\ a = n * x + (a % n) /\ b = n * y + (b % n) /\ a % n \in Int
  OBVIOUS
<1> HIDE DEF x, y
<1>2. a - b = n * (x - y)
  BY <1>1
<1>3. ~(x - y >= 1)
  <2> SUFFICES ASSUME x - y >= 1 PROVE FALSE
    OBVIOUS
  <2>1. n * (x - y) >= n * 1
    BY <1>1
  <2> QED BY <1>2, <2>1
<1>4. ~(y - x >= 1)
  <2> SUFFICES ASSUME y - x >= 1 PROVE FALSE
    OBVIOUS
  <2>1. n * (y - x) >= n * 1
    BY <1>1
  <2>2. b - a = n * (y - x)
    BY <1>1
  <2> QED BY <2>1, <2>2
<1>5. x = y
  BY <1>1, <1>3, <1>4
<1> QED BY <1>1, <1>5

(* A turn later comes the same slot.                                       *)
LEMMA NextTurn ==
    ASSUME NEW n \in Nat \ {0}, NEW a \in Int
    PROVE  (a + n) % n = a % n
<1> DEFINE r == a % n
           r2 == (a + n) % n
           x == a \div n
           x2 == (a + n) \div n
<1>1. /\ r \in Int /\ r2 \in Int /\ x \in Int /\ x2 \in Int /\ 0 <= r /\ r < n /\ 0 <= r2 /\ r2 < n
      /\ a = n * x + r /\ a + n = n * x2 + r2
  OBVIOUS
<1> HIDE DEF r, r2, x, x2
<1>2. r2 - r = n * (x + 1 - x2)
  BY <1>1
<1>3. ~(x + 1 - x2 >= 1)
  <2> SUFFICES ASSUME x + 1 - x2 >= 1 PROVE FALSE
    OBVIOUS
  <2>1. n * (x + 1 - x2) >= n * 1
    BY <1>1
  <2> QED BY <1>1, <1>2, <2>1
<1>4. ~(x2 - x - 1 >= 1)
  <2> SUFFICES ASSUME x2 - x - 1 >= 1 PROVE FALSE
    OBVIOUS
  <2>1. n * (x2 - x - 1) >= n * 1
    BY <1>1
  <2>2. r - r2 = n * (x2 - x - 1)
    BY <1>1
  <2> QED BY <1>1, <2>1, <2>2
<1>5. x + 1 - x2 = 0
  BY <1>1, <1>3, <1>4
<1>6. r2 = r
  BY <1>1, <1>2, <1>5
<1> QED BY <1>6 DEF r, r2

(* The index of a minute in a tier.                                        *)
Idx(t, m) == IF t = 1 THEN m ELSE Bucket(m)

(* Buckets hold Step minutes each, in order.                               *)
LEMMA Buckets ==
    ASSUME NEW m \in Nat
    PROVE  Bucket(m) \in Nat /\ Bucket(m) * Step <= m /\ m < (Bucket(m) + 1) * Step
<1>1. m \div Step \in Nat /\ Step * (m \div Step) <= m /\ m < Step * (m \div Step) + Step
  BY Sizes
<1> DEFINE b == m \div Step
<1> HIDE DEF b
<1>2. b \in Nat /\ Step * b <= m /\ m < Step * b + Step
  BY <1>1 DEF b
<1>3. b * Step <= m /\ m < (b + 1) * Step
  BY <1>2, Sizes
<1> QED BY <1>2, <1>3 DEF b, Bucket

(* A minute is in no more than one bucket.                                 *)
LEMMA BucketIs ==
    ASSUME NEW m \in Nat, NEW b \in Nat, b * Step <= m, m < (b + 1) * Step
    PROVE  Bucket(m) = b
<1> DEFINE c == Bucket(m)
<1>1. c \in Nat /\ c * Step <= m /\ m < (c + 1) * Step
  BY Buckets
<1> HIDE DEF c
<1>2. ~(c >= b + 1)
  <2> SUFFICES ASSUME c >= b + 1 PROVE FALSE
    OBVIOUS
  <2>1. c * Step >= (b + 1) * Step
    BY <1>1, Sizes
  <2>2. c * Step \in Nat /\ (b + 1) * Step \in Nat
    BY <1>1, Sizes
  <2> QED BY <1>1, <2>1, <2>2
<1>3. ~(b >= c + 1)
  <2> SUFFICES ASSUME b >= c + 1 PROVE FALSE
    OBVIOUS
  <2>1. b * Step >= (c + 1) * Step
    BY <1>1, Sizes
  <2>2. b * Step \in Nat /\ (c + 1) * Step \in Nat
    BY <1>1, Sizes
  <2> QED BY <1>1, <2>1, <2>2
<1>4. c = b
  BY <1>1, <1>2, <1>3
<1> QED BY <1>4 DEF c

(* A later minute is not in an earlier bucket.                             *)
LEMMA BucketsInOrder ==
    ASSUME NEW m \in Nat, NEW o \in Nat, m <= o
    PROVE  Bucket(m) <= Bucket(o)
<1> DEFINE b == Bucket(m)
           c == Bucket(o)
<1>1. /\ b \in Nat /\ b * Step <= m /\ m < (b + 1) * Step
      /\ c \in Nat /\ c * Step <= o /\ o < (c + 1) * Step
  BY Buckets
<1> HIDE DEF b, c
<1>2. ~(b >= c + 1)
  <2> SUFFICES ASSUME b >= c + 1 PROVE FALSE
    OBVIOUS
  <2>1. b * Step >= (c + 1) * Step
    BY <1>1, Sizes
  <2>2. b * Step \in Nat /\ (c + 1) * Step \in Nat
    BY <1>1, Sizes
  <2> QED BY <1>1, <2>1, <2>2
<1> QED BY <1>1, <1>2 DEF b, c

(* What is longer ago than the sweep's reach is in no bucket that a query  *)
(* asks for.                                                               *)
LEMMA OutOfReach ==
    ASSUME NEW a \in Nat, NEW z \in Nat, z - a > Reach
    PROVE  Bucket(a) + Len2 <= Bucket(z)
<1> DEFINE u == Bucket(a)
           c == Bucket(z)
<1>1. Len2 \in Nat /\ Step \in Nat \ {0} /\ Reach = Step * Len2 /\ Reach \in Nat
  BY TiersAssumption DEF Reach
<1>2. u \in Nat /\ u * Step <= a /\ c \in Nat /\ z < (c + 1) * Step
  BY Buckets
<1> HIDE DEF u, c
<1>3. (u + Len2) * Step < (c + 1) * Step
  <2>1. (u + Len2) * Step = u * Step + Step * Len2
    BY <1>1, <1>2
  <2>2. u * Step \in Nat /\ Step * Len2 \in Nat /\ (c + 1) * Step \in Nat
    BY <1>1, <1>2
  <2> QED BY <1>1, <1>2, <2>1, <2>2
<1>4. ~(u + Len2 >= c + 1)
  <2> SUFFICES ASSUME u + Len2 >= c + 1 PROVE FALSE
    OBVIOUS
  <2>1. (u + Len2) * Step >= (c + 1) * Step
    BY <1>1, <1>2
  <2>2. (u + Len2) * Step \in Nat /\ (c + 1) * Step \in Nat
    BY <1>1, <1>2
  <2> QED BY <1>3, <2>1, <2>2
<1>5. u + Len2 <= c
  BY <1>1, <1>2, <1>4
<1> QED BY <1>5 DEF u, c

(* Indices of minutes, in order.                                           *)
LEMMA Indices ==
    ASSUME NEW t \in Tier
    PROVE  /\ \A m \in Nat : Idx(t, m) \in Nat
           /\ \A m, o \in Nat : m <= o => Idx(t, m) <= Idx(t, o)
<1>1. ASSUME NEW m \in Nat PROVE Idx(t, m) \in Nat
  BY Buckets DEF Idx
<1>2. ASSUME NEW m \in Nat, NEW o \in Nat, m <= o PROVE Idx(t, m) <= Idx(t, o)
  <2>1. Bucket(m) <= Bucket(o)
    BY <1>2, BucketsInOrder
  <2> QED BY <1>2, <2>1 DEF Idx
<1> QED BY <1>1, <1>2

(* What may be in a file of which the samples of each minute are g: every  *)
(* point is in its slot and tells of something;                            *)
Own(f, t, g) ==
    \A s \in Slots(t) : \A e \in f.at[t][s] : Idx(t, e[1]) % Size(t) = s /\ g[e[1]] > 0

(* no point is a turn behind the last index, and none is ahead of it,      *)
(* unless a write ended before its index: then it is no later than i.      *)
Loose(f, t, i) ==
    \A s \in Slots(t) : \A e \in f.at[t][s] :
        /\ f.last[t] >= 0 /\ Idx(t, e[1]) > f.last[t] - Size(t)
        /\ Idx(t, e[1]) <= f.last[t] \/ Idx(t, e[1]) <= i
Tight(f, t) == Loose(f, t, -1)

(* A point without any index.                                              *)
Unindexed(f, t) == f.last[t] = -1 /\ \E s \in Slots(t) : f.at[t][s] # Gap

(* A point p of index i.                                                   *)
PointOf(p, t, i, g) == p \in SUBSET PointType /\ \A e \in p : Idx(t, e[1]) = i /\ g[e[1]] > 0

(* Every entry of a file has an index.                                     *)
LEMMA EntryIndex ==
    ASSUME NEW f, IsFile(f), NEW t \in Tier, NEW s \in Slots(t), NEW e \in f.at[t][s]
    PROVE  e \in PointType /\ e[1] \in Nat /\ e[1] \in 0 .. MaxTime /\ Idx(t, e[1]) \in Nat
<1>1. e \in PointType
  BY DEF IsFile
<1>2. e[1] \in 0 .. MaxTime
  BY <1>1 DEF PointType
<1>3. e[1] \in Nat
  BY <1>2, Sizes
<1> QED BY <1>1, <1>2, <1>3, Indices

(* Which slots become gaps, case by case.                                  *)
LEMMA GoneIs ==
    ASSUME NEW f, IsFile(f), NEW t \in Tier, NEW i \in Nat
    PROVE  /\ StartsOver(f, t, i) => Gone(f, t, i) = Slots(t)
           /\ f.last[t] >= 0 /\ i > f.last[t] + 1 =>
                 Gone(f, t, i) = {k % Size(t) : k \in f.last[t] + 1 .. i - 1}
           /\ f.last[t] < 0 \/ (~StartsOver(f, t, i) /\ i <= f.last[t] + 1) => Gone(f, t, i) = {}
<1>1. f.last[t] \in Int /\ Size(t) \in Nat \ {0}
  BY Sizes DEF IsFile
<1>2. ASSUME StartsOver(f, t, i) PROVE Gone(f, t, i) = Slots(t)
  <2>1. ~(f.last[t] >= 0 /\ i > f.last[t] + 1)
    BY <1>1, <1>2 DEF StartsOver
  <2> QED BY <1>2, <2>1 DEF Gone
<1>3. ASSUME f.last[t] >= 0, i > f.last[t] + 1
      PROVE  Gone(f, t, i) = {k % Size(t) : k \in f.last[t] + 1 .. i - 1}
  <2>1. ~StartsOver(f, t, i)
    BY <1>1, <1>3 DEF StartsOver
  <2> QED BY <1>3, <2>1 DEF Gone
<1>4. ASSUME f.last[t] < 0 \/ (~StartsOver(f, t, i) /\ i <= f.last[t] + 1)
      PROVE  Gone(f, t, i) = {}
  <2>1. ~StartsOver(f, t, i) /\ ~(f.last[t] >= 0 /\ i > f.last[t] + 1)
    BY <1>1, <1>4 DEF StartsOver
  <2> QED BY <2>1 DEF Gone
<1> QED BY <1>2, <1>3, <1>4

(* A write that is done leaves a tier tight, also when it starts it over   *)
(* or finds a point that an earlier one left without its index             *)
(* (history.js 136-147).                                                   *)
LEMMA PutTight ==
    ASSUME NEW f, IsFile(f), NEW t \in Tier, NEW i \in Nat, NEW p, NEW g,
           Own(f, t, g), Loose(f, t, i), PointOf(p, t, i, g)
    PROVE  LET h == Put(f, t, i, p)[3] IN Own(h, t, g) /\ Tight(h, t) /\ h.last[t] \in Nat
<1> DEFINE h == Put(f, t, i, p)[3]
           n == Size(t)
           l == f.last[t]
           l2 == h.last[t]
<1>1. /\ IsFile(h) /\ l2 = LastAfter(f, t, i)
      /\ \A s \in Slots(t) : h.at[t][s] = SlotAfter(f, t, i, p, s)
  <2>1. p \in SUBSET PointType /\ 3 \in 1 .. 3
    BY DEF PointOf
  <2> QED BY <2>1, PutIsExact
<1>2. n \in Nat \ {0} /\ l \in Int /\ l >= -1
  BY Sizes DEF IsFile
<1>3. StartsOver(f, t, i) <=> l >= 0 /\ i <= l - n
  BY DEF StartsOver
<1>4. l2 = IF StartsOver(f, t, i) \/ i > l THEN i ELSE l
  BY <1>1 DEF LastAfter
<1>5. l2 \in Nat
  BY <1>2, <1>4
<1>6. ASSUME NEW s \in Slots(t), NEW e \in h.at[t][s]
      PROVE  /\ Idx(t, e[1]) % n = s /\ g[e[1]] > 0
             /\ Idx(t, e[1]) > l2 - n /\ Idx(t, e[1]) <= l2
  <2> DEFINE v == Idx(t, e[1])
  <2>1. v \in Nat
    BY <1>1, <1>6, EntryIndex
  <2>2. e \in SlotAfter(f, t, i, p, s)
    BY <1>1, <1>6
  <2>3. CASE s = i % n
    <3>1. e \in p
      BY <2>2, <2>3 DEF SlotAfter
    <3>2. v = i /\ g[e[1]] > 0
      BY <3>1 DEF PointOf
    <3> HIDE DEF v, n, l, l2
    <3>3. v > l2 - n /\ v <= l2
      BY <1>2, <1>3, <1>4, <3>2
    <3> QED BY <2>3, <3>2, <3>3 DEF v, n, l, l2
  <2>4. CASE s # i % n
    <3>1. s \notin Gone(f, t, i) /\ e \in f.at[t][s]
      BY <2>2, <2>4 DEF SlotAfter, Gap
    <3>2. v % n = s /\ g[e[1]] > 0
      BY <3>1 DEF Own
    <3>3. l >= 0 /\ v > l - n /\ (v <= l \/ v <= i)
      BY <3>1 DEF Loose
    <3>4. ~StartsOver(f, t, i)
      BY <3>1, <1>2, GoneIs
    <3>5. l >= 0 /\ i > l + 1 => \A k \in l + 1 .. i - 1 : k % n # s
      <4> SUFFICES ASSUME l >= 0, i > l + 1, NEW k \in l + 1 .. i - 1 PROVE k % n # s
        OBVIOUS
      <4>1. Gone(f, t, i) = {j % n : j \in l + 1 .. i - 1}
        BY GoneIs
      <4> HIDE DEF n, l
      <4> QED BY <3>1, <4>1
    <3> HIDE DEF v, n, l, l2
    <3>6. CASE i <= l
      <4>1. v > l2 - n /\ v <= l2
        BY <1>2, <1>4, <2>1, <3>3, <3>4, <3>6
      <4> QED BY <3>2, <4>1 DEF v, n, l2
    <3>7. CASE i > l
      <4>1. l2 = i /\ v <= i
        BY <1>2, <1>4, <2>1, <3>3, <3>7
      <4>2. ASSUME v <= i - n PROVE FALSE
        <5>1. (v + n) % n = s
          <6>1. n \in Nat \ {0} /\ v \in Int
            BY <1>2, <2>1
          <6>2. (v + n) % n = v % n
            BY ONLY <6>1, NextTurn
          <6> QED BY <3>2, <6>2
        <5>2. v + n > l /\ v + n <= i /\ v + n \in Int
          BY <1>2, <2>1, <3>3, <4>2
        <5>3. v + n # i
          BY <5>1, <2>4
        <5>4. v + n \in l + 1 .. i - 1 /\ i > l + 1
          BY <1>2, <5>2, <5>3
        <5> QED BY <3>3, <3>5, <5>1, <5>4
      <4>3. v > i - n
        BY <1>2, <2>1, <4>2
      <4> QED BY <3>2, <4>1, <4>3 DEF v, n, l2
    <3> QED BY <1>2, <3>2, <3>6, <3>7 DEF v, n, l, l2
  <2> QED BY <2>3, <2>4
<1> HIDE DEF h
<1>7. Own(h, t, g)
  BY <1>6 DEF Own
<1>8. Tight(h, t)
  BY <1>5, <1>6 DEF Tight, Loose
<1> QED BY <1>5, <1>7, <1>8 DEF h

(* A write that ends early, of a minute that is not in the past, leaves a  *)
(* tier as loose as it may be, or with a point that has no index at all.   *)
LEMMA PutPartly ==
    ASSUME NEW f, IsFile(f), NEW t \in Tier, NEW i \in Nat, NEW p, NEW g, NEW u \in 1 .. 2,
           Own(f, t, g), Loose(f, t, i), PointOf(p, t, i, g), f.last[t] <= i
    PROVE  LET h == Put(f, t, i, p)[u]
           IN  Unindexed(h, t) \/ (Own(h, t, g) /\ Loose(h, t, i))
<1> DEFINE h == Put(f, t, i, p)[u]
           n == Size(t)
           l == f.last[t]
<1>1. /\ IsFile(h) /\ h.last[t] = l
      /\ \A s \in Slots(t) : h.at[t][s] = IF u = 1 THEN IF s \in Gone(f, t, i) THEN Gap ELSE f.at[t][s]
                                          ELSE SlotAfter(f, t, i, p, s)
  <2>1. p \in SUBSET PointType /\ u \in 1 .. 3 /\ u # 3
    BY DEF PointOf
  <2> QED BY <2>1, PutIsExact
<1>2. n \in Nat \ {0} /\ l \in Int /\ l >= -1
  BY Sizes DEF IsFile
<1>3. ASSUME ~Unindexed(h, t), NEW s \in Slots(t), NEW e \in h.at[t][s]
      PROVE  /\ Idx(t, e[1]) % n = s /\ g[e[1]] > 0
             /\ l >= 0 /\ Idx(t, e[1]) > l - n /\ (Idx(t, e[1]) <= l \/ Idx(t, e[1]) <= i)
  <2>1. l >= 0
    <3>1. h.at[t][s] # Gap
      BY <1>3 DEF Gap
    <3>2. l # -1
      BY <1>1, <1>3, <3>1 DEF Unindexed
    <3> HIDE DEF l
    <3> QED BY <1>2, <3>2
  <2>2. e \in f.at[t][s] \/ (s = i % n /\ e \in p)
    BY <1>1, <1>3 DEF SlotAfter, Gap
  <2>3. CASE e \in f.at[t][s]
    BY <2>1, <2>3 DEF Own, Loose
  <2>4. CASE s = i % n /\ e \in p
    <3>1. Idx(t, e[1]) = i /\ g[e[1]] > 0
      BY <2>4 DEF PointOf
    <3>2. i > l - n /\ i <= i
      BY <1>2
    <3> QED BY <2>1, <2>4, <3>1, <3>2
  <2> QED BY <2>2, <2>3, <2>4
<1> HIDE DEF h
<1>4. ~Unindexed(h, t) => Own(h, t, g) /\ Loose(h, t, i)
  BY <1>1, <1>3 DEF Own, Loose
<1> QED BY <1>4 DEF h

(* The coarse point has only what was recorded in its bucket               *)
(* (history.js 161-170).                                                   *)
LEMMA CoarseIsOwn ==
    ASSUME NEW f, IsFile(f), NEW g, Own(f, 1, g), Tight(f, 1), NEW m \in 0 .. MaxTime
    PROVE  PointOf(Coarse(f, m), 2, Bucket(m), g)
<1>1. m \in Nat /\ 1 \in Tier /\ Size(1) = Len1 /\ f.last[1] \in Int /\ Len1 \in Nat \ {0} /\ Step \in Nat \ {0}
  BY Sizes DEF Tier, Size, IsFile
<1>2. Bucket(m) \in Nat
  BY <1>1, Buckets
<1>3. ASSUME NEW e \in Coarse(f, m) PROVE e \in PointType /\ Idx(2, e[1]) = Bucket(m) /\ g[e[1]] > 0
  <2>1. PICK k \in Bucket(m) * Step .. (Bucket(m) + 1) * Step - 1 :
              k <= f.last[1] /\ k > f.last[1] - Len1 /\ e \in f.at[1][k % Len1]
    BY <1>3 DEF Coarse
  <2>2. Bucket(m) * Step \in Nat /\ (Bucket(m) + 1) * Step \in Nat
    BY <1>1, <1>2
  <2>3. k \in Nat /\ Bucket(m) * Step <= k /\ k < (Bucket(m) + 1) * Step
    BY <2>1, <2>2
  <2>4. k % Len1 \in Slots(1)
    BY <1>1, <2>3, SlotOfIndex
  <2>5. e \in PointType /\ e[1] \in Nat
    BY <1>1, <2>1, <2>4, EntryIndex
  <2>6. e[1] % Len1 = k % Len1 /\ g[e[1]] > 0
    BY <1>1, <2>1, <2>4 DEF Own, Idx
  <2>7. e[1] > f.last[1] - Len1 /\ e[1] <= f.last[1]
    BY <1>1, <2>1, <2>4, <2>5 DEF Tight, Loose, Idx
  <2>8. e[1] - k < Len1 /\ k - e[1] < Len1
    BY <1>1, <2>1, <2>3, <2>5, <2>7
  <2>9. e[1] = k
    BY <1>1, <2>3, <2>5, <2>6, <2>8, SameSlot
  <2>10. Bucket(k) = Bucket(m)
    BY <1>2, <2>3, BucketIs
  <2> QED BY <2>5, <2>6, <2>9, <2>10 DEF Idx
<1> QED BY <1>3 DEF PointOf

(* The file between the tiers of a write, and the points of each.          *)
FinePoint(cur) == {<<cur.minute, cur.n>>}
FineDone(f, cur) == Put(f, 1, cur.minute, FinePoint(cur))[3]

MinuteType == [minute : 0 .. MaxTime, n : Nat]

(* The stages of a write are those of the fine tier, then those of the     *)
(* coarse one (history.js 148-173).                                        *)
LEMMA StagesAre ==
    ASSUME NEW f, NEW cur
    PROVE  LET a == Put(f, 1, cur.minute, FinePoint(cur))
               b == Put(a[3], 2, Bucket(cur.minute), Coarse(a[3], cur.minute))
           IN  /\ Stages(f, cur)[1] = f
               /\ \A u \in 1 .. 3 : Stages(f, cur)[1 + u] = a[u] /\ Stages(f, cur)[4 + u] = b[u]
<1> DEFINE a == Put(f, 1, cur.minute, FinePoint(cur))
           b == Put(a[3], 2, Bucket(cur.minute), Coarse(a[3], cur.minute))
<1>1. \E x1, x2, x3 : a = <<x1, x2, x3>>
  BY DEF Put
<1>2. \E x1, x2, x3 : b = <<x1, x2, x3>>
  BY DEF Put
<1>3. Stages(f, cur) = (<<f>> \o a) \o b
  BY DEF Stages, FinePoint
<1> HIDE DEF a, b
<1>4. PICK x1, x2, x3 : a = <<x1, x2, x3>>
  BY <1>1
<1>5. PICK y1, y2, y3 : b = <<y1, y2, y3>>
  BY <1>2
<1> DEFINE V == {f, x1, x2, x3, y1, y2, y3}
<1> DEFINE one == <<f>>
           w == one \o a
<1>6. /\ one \in Seq(V) /\ a \in Seq(V) /\ b \in Seq(V)
      /\ Len(a) = 3 /\ Len(b) = 3 /\ Len(one) = 1 /\ one[1] = f
  BY <1>4, <1>5
<1> HIDE DEF V, one
<1>7. w \in Seq(V) /\ Len(w) = 1 + 3
      /\ \A u \in 1 .. 1 + 3 : w[u] = IF u <= 1 THEN one[u] ELSE a[u - 1]
  <2>1. /\ w \in Seq(V) /\ Len(w) = Len(one) + Len(a)
        /\ \A u \in 1 .. Len(one) + Len(a) : w[u] = IF u <= Len(one) THEN one[u] ELSE a[u - Len(one)]
    BY <1>6, ConcatProperties, Zenon
  <2> HIDE DEF w
  <2> QED BY <2>1, <1>6
<1> HIDE DEF w
<1>8. w[1] = f /\ \A u \in 1 .. 3 : w[1 + u] = a[u]
  BY <1>6, <1>7
<1>9. Len(w) = 4
  BY <1>7
<1>10. \A u \in 1 .. 4 + 3 : (w \o b)[u] = IF u <= 4 THEN w[u] ELSE b[u - 4]
  <2>1. \A u \in 1 .. Len(w) + Len(b) : (w \o b)[u] = IF u <= Len(w) THEN w[u] ELSE b[u - Len(w)]
    BY <1>6, <1>7, ConcatProperties, Zenon
  <2> DEFINE wb == w \o b
  <2> HIDE DEF wb
  <2>2. \A u \in 1 .. 4 + 3 : wb[u] = IF u <= 4 THEN w[u] ELSE b[u - 4]
    BY <2>1, <1>6, <1>9 DEF wb
  <2> QED BY <2>2 DEF wb
<1>11. Stages(f, cur) = w \o b
  BY <1>3 DEF w, one
<1>12. Stages(f, cur)[1] = f
  <2>1. 1 \in 1 .. 4 + 3 /\ 1 <= 4
    OBVIOUS
  <2> QED BY <2>1, <1>8, <1>10, <1>11, Zenon
<1>13. ASSUME NEW u \in 1 .. 3 PROVE Stages(f, cur)[1 + u] = a[u] /\ Stages(f, cur)[4 + u] = b[u]
  <2>1. 1 + u \in 1 .. 4 + 3 /\ 1 + u <= 4 /\ 4 + u \in 1 .. 4 + 3 /\ ~(4 + u <= 4) /\ (4 + u) - 4 = u
    OBVIOUS
  <2> QED BY <2>1, <1>8, <1>10, <1>11
<1> QED BY <1>12, <1>13 DEF a, b

(* A stage changes one tier.                                               *)
LEMMA OtherTier ==
    ASSUME NEW f, NEW h, NEW t, NEW g, NEW i, h.last[t] = f.last[t], h.at[t] = f.at[t]
    PROVE  (Own(f, t, g) => Own(h, t, g)) /\ (Loose(f, t, i) => Loose(h, t, i))
  BY DEF Own, Loose

(* What a stage leaves of each tier: its kind of file and its indices.     *)
LEMMA StageIndices ==
    ASSUME NEW f, IsFile(f), NEW cur \in MinuteType, NEW k \in 1 .. Whole
    PROVE  LET h == Stages(f, cur)[k]
           IN  /\ IsFile(h)
               /\ h.last[1] = IF k < 4 THEN f.last[1] ELSE LastAfter(f, 1, cur.minute)
               /\ h.last[2] = IF k < 7 THEN f.last[2] ELSE LastAfter(f, 2, Bucket(cur.minute))
               /\ k < 5 => h.at[2] = f.at[2]
               /\ k >= 4 => h.at[1] = FineDone(f, cur).at[1]
<1> DEFINE m == cur.minute
           a == Put(f, 1, m, FinePoint(cur))
           c == a[3]
           q == Coarse(c, m)
           b == Put(c, 2, Bucket(m), q)
           h == Stages(f, cur)[k]
<1>1. m \in 0 .. MaxTime /\ m \in Nat /\ Bucket(m) \in Nat /\ FinePoint(cur) \in SUBSET PointType
      /\ 1 \in Tier /\ 2 \in Tier /\ 1 \in Tier \ {2} /\ 2 \in Tier \ {1}
  <2>1. m \in 0 .. MaxTime /\ cur.n \in Nat
    BY DEF MinuteType
  <2>2. m \in Nat
    BY <2>1, Sizes
  <2>3. FinePoint(cur) \in SUBSET PointType
    BY <2>1 DEF FinePoint, PointType
  <2> QED BY <2>1, <2>2, <2>3, Buckets DEF Tier
<1>2. ASSUME NEW u \in 1 .. 3
      PROVE  /\ IsFile(a[u]) /\ a[u].last[2] = f.last[2] /\ a[u].at[2] = f.at[2]
             /\ a[u].last[1] = IF u = 3 THEN LastAfter(f, 1, m) ELSE f.last[1]
  BY <1>1, PutIsExact, SMTT(30)
<1>3. IsFile(c) /\ c.last[2] = f.last[2] /\ c.at[2] = f.at[2] /\ c.last[1] = LastAfter(f, 1, m)
      /\ c = FineDone(f, cur)
  <2>1. 3 \in 1 .. 3
    OBVIOUS
  <2> QED BY <2>1, <1>2 DEF FineDone
<1> HIDE DEF c
<1>4. q \in SUBSET PointType
  <2> SUFFICES ASSUME NEW e \in q PROVE e \in PointType
    OBVIOUS
  <2>1. PICK j \in Bucket(m) * Step .. (Bucket(m) + 1) * Step - 1 : e \in c.at[1][j % Len1]
    BY DEF Coarse
  <2>2. j \in Int /\ Size(1) = Len1
    BY <1>1, Sizes, <2>1 DEF Size
  <2>3. j % Len1 \in Slots(1)
    BY <1>1, <2>2, SlotOfIndex
  <2> QED BY <1>1, <1>3, <2>1, <2>3, EntryIndex
<1> HIDE DEF q
<1>5. ASSUME NEW u \in 1 .. 3
      PROVE  /\ IsFile(b[u]) /\ b[u].last[1] = c.last[1] /\ b[u].at[1] = c.at[1]
             /\ b[u].last[2] = IF u = 3 THEN LastAfter(c, 2, Bucket(m)) ELSE c.last[2]
  BY <1>1, <1>3, <1>4, PutIsExact
<1>6. LastAfter(c, 2, Bucket(m)) = LastAfter(f, 2, Bucket(m))
  BY <1>3 DEF LastAfter, StartsOver
<1>7. /\ Stages(f, cur)[1] = f
      /\ \A u \in 1 .. 3 : Stages(f, cur)[1 + u] = a[u] /\ Stages(f, cur)[4 + u] = b[u]
  BY StagesAre DEF c, q
<1> HIDE DEF a, b, m
<1>8. CASE k = 1
  BY <1>7, <1>8
<1>9. CASE k \in 2 .. 4
  <2>1. k - 1 \in 1 .. 3 /\ 1 + (k - 1) = k /\ (k = 4 <=> k - 1 = 3) /\ k < 5 /\ (k < 4 <=> k # 4) /\ k < 7
    BY <1>9
  <2>2. h = a[k - 1]
    BY <1>7, <2>1
  <2>3. k = 4 => h = c
    BY <2>1, <2>2 DEF c
  <2> HIDE DEF h
  <2>4. /\ IsFile(h) /\ h.last[2] = f.last[2] /\ h.at[2] = f.at[2]
        /\ h.last[1] = IF k < 4 THEN f.last[1] ELSE LastAfter(f, 1, m)
    BY <1>2, <2>1, <2>2
  <2>5. k >= 4 => h.at[1] = FineDone(f, cur).at[1]
    BY <1>3, <1>9, <2>3
  <2> QED BY <2>1, <2>4, <2>5 DEF h, m
<1>10. CASE k \in 5 .. 7
  <2>1. k - 4 \in 1 .. 3 /\ 4 + (k - 4) = k /\ (k = 7 <=> k - 4 = 3) /\ ~(k < 5) /\ ~(k < 4) /\ (k < 7 <=> k # 7)
    BY <1>10
  <2>2. h = b[k - 4]
    BY <1>7, <2>1
  <2> HIDE DEF h
  <2>3. /\ IsFile(h) /\ h.last[1] = c.last[1] /\ h.at[1] = c.at[1]
        /\ h.last[2] = IF k < 7 THEN c.last[2] ELSE LastAfter(c, 2, Bucket(m))
    BY <1>5, <2>1, <2>2
  <2>4. /\ h.last[1] = LastAfter(f, 1, m) /\ h.at[1] = FineDone(f, cur).at[1]
        /\ h.last[2] = IF k < 7 THEN f.last[2] ELSE LastAfter(f, 2, Bucket(m))
    BY <1>3, <1>6, <2>3
  <2> QED BY <2>1, <2>3, <2>4 DEF h, m
<1>11. k = 1 \/ k \in 2 .. 4 \/ k \in 5 .. 7
  BY DEF Whole
<1> QED BY <1>8, <1>9, <1>10, <1>11

(* A whole write leaves both tiers tight.                                  *)
LEMMA WholeIsTight ==
    ASSUME NEW f, IsFile(f), NEW cur \in MinuteType, NEW g, g[cur.minute] > 0,
           \A t \in Tier : Own(f, t, g) /\ Loose(f, t, Idx(t, cur.minute))
    PROVE  LET h == Stages(f, cur)[Whole]
           IN  \A t \in Tier : Own(h, t, g) /\ Tight(h, t) /\ h.last[t] \in Nat
<1> DEFINE m == cur.minute
           c == FineDone(f, cur)
           h == Stages(f, cur)[Whole]
<1>1. m \in 0 .. MaxTime /\ m \in Nat /\ Bucket(m) \in Nat /\ 1 \in Tier /\ 2 \in Tier
      /\ 2 \in Tier \ {1} /\ 1 \in Tier \ {2} /\ 3 \in 1 .. 3
  <2>1. m \in 0 .. MaxTime
    BY DEF MinuteType
  <2>2. m \in Nat
    BY <2>1, Sizes
  <2> QED BY <2>1, <2>2, Buckets DEF Tier
<1>2. PointOf(FinePoint(cur), 1, m, g)
  <2>1. cur.n \in Nat
    BY DEF MinuteType
  <2> QED BY <1>1, <2>1 DEF PointOf, FinePoint, PointType, Idx
<1>3. Idx(1, m) = m /\ Idx(2, m) = Bucket(m)
  BY DEF Idx
<1>4. Own(c, 1, g) /\ Tight(c, 1) /\ c.last[1] \in Nat
  BY <1>1, <1>2, <1>3, PutTight DEF FineDone
<1>5. IsFile(c) /\ c.last[2] = f.last[2] /\ c.at[2] = f.at[2]
  <2>1. FinePoint(cur) \in SUBSET PointType
    BY <1>2 DEF PointOf
  <2> QED BY <1>1, <2>1, PutIsExact DEF FineDone
<1>6. Own(c, 2, g) /\ Loose(c, 2, Bucket(m))
  <2>1. Own(f, 2, g) /\ Loose(f, 2, Bucket(m))
    BY <1>1, <1>3
  <2> QED BY <1>5, <2>1, OtherTier
<1>7. PointOf(Coarse(c, m), 2, Bucket(m), g)
  BY <1>1, <1>4, <1>5, CoarseIsOwn
<1>8. h = Put(c, 2, Bucket(m), Coarse(c, m))[3]
  <2>1. Stages(f, cur)[4 + 3] = Put(c, 2, Bucket(m), Coarse(c, m))[3]
    BY <1>1, StagesAre DEF FineDone
  <2> QED BY <2>1 DEF Whole
<1>9. Own(h, 2, g) /\ Tight(h, 2) /\ h.last[2] \in Nat
  BY <1>1, <1>5, <1>6, <1>7, <1>8, PutTight
<1>10. h.last[1] = c.last[1] /\ h.at[1] = c.at[1]
  <2>1. Coarse(c, m) \in SUBSET PointType
    BY <1>7 DEF PointOf
  <2> QED BY <1>1, <1>5, <1>8, <2>1, PutIsExact
<1> HIDE DEF h, c
<1>11. Own(h, 1, g) /\ Tight(h, 1) /\ h.last[1] \in Nat
  BY <1>4, <1>10, OtherTier DEF Tight
<1> QED BY <1>9, <1>11 DEF h, Tier

(* What is tight is loose, and what is loose is so for a later index.      *)
LEMMA LooseIsMonotone ==
    ASSUME NEW f, IsFile(f), NEW t \in Tier, NEW i \in Int, NEW j \in Int, Loose(f, t, i), i <= j
    PROVE  Loose(f, t, j)
<1> SUFFICES ASSUME NEW s \in Slots(t), NEW e \in f.at[t][s]
             PROVE  /\ f.last[t] >= 0 /\ Idx(t, e[1]) > f.last[t] - Size(t)
                    /\ Idx(t, e[1]) <= f.last[t] \/ Idx(t, e[1]) <= j
  BY DEF Loose
<1>1. Idx(t, e[1]) \in Nat
  BY EntryIndex
<1>2. /\ f.last[t] >= 0 /\ Idx(t, e[1]) > f.last[t] - Size(t)
      /\ Idx(t, e[1]) <= f.last[t] \/ Idx(t, e[1]) <= i
  BY DEF Loose
<1> QED BY <1>1, <1>2

(* A write of a minute that is not in the past leaves the file loose at    *)
(* every stage, or with a point that has no index.                         *)
LEMMA PartIsLoose ==
    ASSUME NEW f, IsFile(f), NEW cur \in MinuteType, NEW g, g[cur.minute] > 0, NEW k \in 1 .. Whole,
           \A t \in Tier : /\ Own(f, t, g) /\ Loose(f, t, Idx(t, cur.minute))
                           /\ f.last[t] <= Idx(t, cur.minute)
    PROVE  LET h == Stages(f, cur)[k]
           IN  \/ \E t \in Tier : Unindexed(h, t)
               \/ \A t \in Tier : Own(h, t, g) /\ Loose(h, t, Idx(t, cur.minute))
<1> DEFINE m == cur.minute
           a == Put(f, 1, m, FinePoint(cur))
           c == FineDone(f, cur)
           b == Put(c, 2, Bucket(m), Coarse(c, m))
           h == Stages(f, cur)[k]
<1>1. m \in 0 .. MaxTime /\ m \in Nat /\ Bucket(m) \in Nat /\ 1 \in Tier /\ 2 \in Tier
      /\ 2 \in Tier \ {1} /\ 1 \in Tier \ {2} /\ 3 \in 1 .. 3
  <2>1. m \in 0 .. MaxTime
    BY DEF MinuteType
  <2>2. m \in Nat
    BY <2>1, Sizes
  <2> QED BY <2>1, <2>2, Buckets DEF Tier
<1>2. PointOf(FinePoint(cur), 1, m, g) /\ FinePoint(cur) \in SUBSET PointType
  <2>1. cur.n \in Nat
    BY DEF MinuteType
  <2> QED BY <1>1, <2>1 DEF PointOf, FinePoint, PointType, Idx
<1>3. Idx(1, m) = m /\ Idx(2, m) = Bucket(m)
  BY DEF Idx
<1>4. /\ Own(f, 1, g) /\ Loose(f, 1, m) /\ f.last[1] <= m
      /\ Own(f, 2, g) /\ Loose(f, 2, Bucket(m)) /\ f.last[2] <= Bucket(m)
  BY <1>1, <1>3
<1>5. ASSUME NEW u \in 1 .. 3 PROVE a[u].last[2] = f.last[2] /\ a[u].at[2] = f.at[2]
  BY <1>1, <1>2, PutIsExact
<1>6. Own(c, 1, g) /\ Tight(c, 1) /\ c.last[1] \in Nat /\ IsFile(c)
  BY <1>1, <1>2, <1>4, PutTight, PutIsExact DEF FineDone
<1>7. /\ Stages(f, cur)[1] = f
      /\ \A u \in 1 .. 3 : Stages(f, cur)[1 + u] = a[u] /\ Stages(f, cur)[4 + u] = b[u]
  BY StagesAre DEF FineDone
<1>8. c = a[3]
  BY DEF FineDone
<1> HIDE DEF c
<1>9. c.last[2] = f.last[2] /\ c.at[2] = f.at[2]
  BY <1>1, <1>5, <1>8
<1>10. Own(c, 2, g) /\ Loose(c, 2, Bucket(m)) /\ c.last[2] <= Bucket(m)
  BY <1>4, <1>9, OtherTier
<1>11. Loose(c, 1, m)
  <2>1. Loose(c, 1, -1) /\ -1 <= m /\ -1 \in Int /\ m \in Int
    BY <1>1, <1>6 DEF Tight
  <2> QED BY <1>1, <1>6, <2>1, LooseIsMonotone
<1>12. PointOf(Coarse(c, m), 2, Bucket(m), g) /\ Coarse(c, m) \in SUBSET PointType
  BY <1>1, <1>6, CoarseIsOwn DEF PointOf
<1>13. ASSUME NEW t \in Tier PROVE t = 1 \/ t = 2
  BY DEF Tier
<1>14. CASE k = 1
  BY <1>7, <1>14
<1>15. CASE k \in 2 .. 3
  <2>1. k - 1 \in 1 .. 2 /\ k - 1 \in 1 .. 3 /\ 1 + (k - 1) = k
    BY <1>15
  <2>2. h = a[k - 1]
    BY <1>7, <2>1
  <2>3. Unindexed(h, 1) \/ (Own(h, 1, g) /\ Loose(h, 1, m))
    BY <1>1, <1>2, <1>4, <2>1, <2>2, PutPartly
  <2>4. h.last[2] = f.last[2] /\ h.at[2] = f.at[2]
    BY <1>5, <2>1, <2>2
  <2> HIDE DEF h
  <2>5. Own(h, 2, g) /\ Loose(h, 2, Bucket(m))
    BY <1>4, <2>4, OtherTier
  <2>6. \/ \E t \in Tier : Unindexed(h, t)
        \/ \A t \in Tier : Own(h, t, g) /\ Loose(h, t, Idx(t, m))
    BY <1>1, <1>3, <1>13, <2>3, <2>5
  <2> QED BY <2>6 DEF h
<1>16. CASE k = 4
  <2>1. h = c
    BY <1>1, <1>7, <1>8, <1>16
  <2> HIDE DEF h
  <2>2. \A t \in Tier : Own(h, t, g) /\ Loose(h, t, Idx(t, m))
    BY <1>3, <1>6, <1>10, <1>11, <1>13, <2>1
  <2> QED BY <2>2 DEF h
<1>17. CASE k \in 5 .. 6
  <2>1. k - 4 \in 1 .. 2 /\ k - 4 \in 1 .. 3 /\ 4 + (k - 4) = k
    BY <1>17
  <2>2. h = b[k - 4]
    BY <1>7, <2>1
  <2>3. Unindexed(h, 2) \/ (Own(h, 2, g) /\ Loose(h, 2, Bucket(m)))
    BY <1>1, <1>6, <1>10, <1>12, <2>1, <2>2, PutPartly
  <2>4. h.last[1] = c.last[1] /\ h.at[1] = c.at[1]
    BY <1>1, <1>6, <1>12, <2>1, <2>2, PutIsExact
  <2> HIDE DEF h
  <2>5. Own(h, 1, g) /\ Loose(h, 1, m)
    BY <1>6, <1>11, <2>4, OtherTier
  <2>6. \/ \E t \in Tier : Unindexed(h, t)
        \/ \A t \in Tier : Own(h, t, g) /\ Loose(h, t, Idx(t, m))
    BY <1>1, <1>3, <1>13, <2>3, <2>5
  <2> QED BY <2>6 DEF h
<1>18. CASE k = 7
  <2>1. \A t \in Tier : Own(h, t, g) /\ Tight(h, t)
    BY <1>18, WholeIsTight DEF Whole
  <2>2. IsFile(h)
    BY StageIndices
  <2> HIDE DEF h
  <2>3. ASSUME NEW t \in Tier PROVE Loose(h, t, Idx(t, m))
    <3>1. Loose(h, t, -1) /\ Idx(t, m) \in Nat
      BY <1>1, <2>1, Indices DEF Tight
    <3>2. -1 <= Idx(t, m) /\ -1 \in Int /\ Idx(t, m) \in Int
      BY <3>1
    <3> QED BY <2>2, <3>1, <3>2, LooseIsMonotone
  <2> QED BY <2>1, <2>3 DEF h
<1>19. k = 1 \/ k \in 2 .. 3 \/ k = 4 \/ k \in 5 .. 6 \/ k = 7
  BY DEF Whole
<1> QED BY <1>14, <1>15, <1>16, <1>17, <1>18, <1>19

-----------------------------------------------------------------------------
(* What add and flush do to one series.                                    *)

Refused(f, h) == f = NoRing /\ h = NoRing
Written(f, cur, k, h) == h = Stages(IF f = NoRing THEN Fresh ELSE f, cur)[k]
WriteOf(f, cur, k, h) == Refused(f, h) \/ Written(f, cur, k, h)

Opens(h, o) == o = [minute |-> clock, n |-> 1] \/ (o = NoMinute /\ h = NoRing)

AddTo(x, k, h, o) ==
    \/ /\ open[x] # NoMinute /\ open[x].minute # clock
       /\ \/ Refused(ring[x], h) /\ o = NoMinute
          \/ Written(ring[x], open[x], k[x], h) /\ Opens(h, o)
    \/ open[x] = NoMinute /\ h = ring[x] /\ Opens(h, o)
    \/ open[x] # NoMinute /\ open[x].minute = clock /\ h = ring[x] /\ o = [open[x] EXCEPT !.n = @ + 1]

FlushTo(x, k, h, o) ==
    /\ WriteOf(ring[x], open[x], k[x], h)
    /\ o = IF open[x].minute < clock THEN NoMinute ELSE open[x]

StepTo(add, x, k, h, o) == IF add THEN AddTo(x, k, h, o) ELSE FlushTo(x, k, h, o)

FilesOf(files) == {x \in Series : files[x] # NoRing}
Capped(files) == Cardinality(FilesOf(files)) <= MaxSeries

(* A write makes a file for a series only below the cap (writeMinute and   *)
(* admit, history.js 82-88, 148-154).                                      *)
LEMMA WriteOne ==
    ASSUME NEW files, DOMAIN files = Series, Capped(files), NEW x \in Series, NEW cur, NEW k
    PROVE  LET r == WriteMinute(files, x, cur, k)
           IN  /\ DOMAIN r = Series /\ \A y \in Series \ {x} : r[y] = files[y]
               /\ Capped(r)
               /\ IF Admit(files, x) THEN Written(files[x], cur, k, r[x]) ELSE r = files /\ files[x] = NoRing
<1> DEFINE r == WriteMinute(files, x, cur, k)
           h == Stages(IF files[x] = NoRing THEN Fresh ELSE files[x], cur)[k]
<1>1. CASE ~Admit(files, x)
  <2>1. r = files /\ files[x] = NoRing
    BY <1>1 DEF WriteMinute, Admit
  <2> HIDE DEF r
  <2>2. Capped(r)
    BY <2>1
  <2> QED BY <1>1, <2>1, <2>2 DEF r
<1>2. CASE Admit(files, x)
  <2>1. r = [files EXCEPT ![x] = h]
    BY <1>2 DEF WriteMinute
  <2> HIDE DEF r
  <2>2. r[x] = h
    BY <2>1
  <2>3. Written(files[x], cur, k, r[x])
    BY <2>2 DEF Written
  <2> HIDE DEF h
  <2>4. FilesOf(r) \subseteq FilesOf(files) \cup {x}
    BY <2>1 DEF FilesOf
  <2>5. /\ IsFiniteSet(FilesOf(files)) /\ IsFiniteSet(FilesOf(files) \cup {x})
        /\ Cardinality(FilesOf(files)) \in Nat
        /\ Cardinality(FilesOf(files) \cup {x}) = IF x \in FilesOf(files) THEN Cardinality(FilesOf(files))
                                                  ELSE Cardinality(FilesOf(files)) + 1
    <3>1. FilesOf(files) \in SUBSET Series
      BY DEF FilesOf
    <3>2. IsFiniteSet(FilesOf(files))
      BY <3>1, SeriesAssumption, FS_Subset
    <3> QED BY <3>2, FS_AddElement, FS_CardinalityType
  <2>6. Cardinality(FilesOf(r)) \in Nat /\ Cardinality(FilesOf(r)) <= Cardinality(FilesOf(files) \cup {x})
    BY <2>4, <2>5, FS_Subset, FS_CardinalityType
  <2>7. MaxSeries \in Nat
    BY HistoryBounds
  <2>8. x \in FilesOf(files) \/ Cardinality(FilesOf(files)) < MaxSeries
    BY <1>2 DEF Admit, FilesOf
  <2>9. Cardinality(FilesOf(files) \cup {x}) <= MaxSeries
    BY <2>5, <2>7, <2>8 DEF Capped
  <2>10. Capped(r)
    BY <2>5, <2>6, <2>7, <2>9 DEF Capped
  <2>11. DOMAIN r = Series /\ \A y \in Series \ {x} : r[y] = files[y]
    BY <2>1
  <2> QED BY <1>2, <2>3, <2>10, <2>11 DEF r
<1> QED BY <1>1, <1>2

StType(st) == DOMAIN st.ring = Series /\ DOMAIN st.open = Series /\ Capped(st.ring)

(* One step of either loop changes its series only.                        *)
LEMMA StepDoes ==
    ASSUME NEW add \in BOOLEAN, NEW st, StType(st), NEW x \in Series, NEW k,
           st.ring[x] = ring[x], st.open[x] = open[x]
    PROVE  LET n == OneStep(add, st, x, k)
           IN  /\ StType(n) /\ StepTo(add, x, k, n.ring[x], n.open[x])
               /\ \A y \in Series \ {x} : n.ring[y] = st.ring[y] /\ n.open[y] = st.open[y]
<1> DEFINE n == OneStep(add, st, x, k)
           r == WriteMinute(st.ring, x, open[x], k[x])
<1>1. /\ Capped(r)
      /\ IF Admit(st.ring, x) THEN Written(ring[x], open[x], k[x], r[x]) ELSE r = st.ring /\ ring[x] = NoRing
  BY WriteOne DEF StType
<1>2. DOMAIN r = Series /\ \A y \in Series \ {x} : r[y] = st.ring[y]
  BY WriteOne DEF StType
<1>3. CASE add
  <2> DEFINE over == open[x] # NoMinute /\ open[x].minute # clock
             files == IF over THEN r ELSE st.ring
             cur == IF over THEN NoMinute ELSE open[x]
             o == CASE cur = NoMinute /\ ~Admit(files, x) -> cur
                    [] cur = NoMinute /\ Admit(files, x) -> [minute |-> clock, n |-> 1]
                    [] OTHER -> [cur EXCEPT !.n = @ + 1]
  <2>1. n = [ring |-> files, open |-> [st.open EXCEPT ![x] = o]]
    BY <1>3 DEF OneStep, AddOne
  <2>2. cur = NoMinute => Opens(files[x], o)
    <3>1. CASE ~Admit(files, x)
      <4>1. files[x] = NoRing
        BY <3>1 DEF Admit
      <4> QED BY <3>1, <4>1 DEF Opens
    <3>2. CASE Admit(files, x)
      BY <3>2 DEF Opens
    <3> QED BY <3>1, <3>2
  <2>3. cur # NoMinute => o = [cur EXCEPT !.n = @ + 1]
    OBVIOUS
  <2>4. AddTo(x, k, files[x], o)
    <3> HIDE DEF o, r
    <3>1. CASE over
      <4>1. files = r /\ cur = NoMinute /\ Opens(files[x], o)
        BY <2>2, <3>1
      <4>2. CASE Admit(st.ring, x)
        BY <1>1, <3>1, <4>1, <4>2 DEF AddTo
      <4>3. CASE ~Admit(st.ring, x)
        <5>1. r = st.ring /\ ring[x] = NoRing /\ r[x] = NoRing
          BY <1>1, <4>3
        <5>2. o = NoMinute
          BY <3>1, <4>1, <4>3, <5>1 DEF o
        <5> QED BY <3>1, <4>1, <5>1, <5>2 DEF AddTo, Refused
      <4> QED BY <4>2, <4>3
    <3>2. CASE ~over
      BY <2>2, <2>3, <3>2 DEF AddTo
    <3> QED BY <3>1, <3>2
  <2>5. DOMAIN files = Series /\ Capped(files) /\ \A y \in Series \ {x} : files[y] = st.ring[y]
    BY <1>1, <1>2 DEF StType
  <2> HIDE DEF n, files, o
  <2>6. n.ring = files /\ n.open = [st.open EXCEPT ![x] = o]
    BY <2>1
  <2>7. StType(n) /\ n.open[x] = o /\ \A y \in Series \ {x} : n.open[y] = st.open[y]
    BY <2>5, <2>6 DEF StType
  <2> QED BY <1>3, <2>4, <2>5, <2>6, <2>7 DEF StepTo, n
<1>4. CASE ~add
  <2> DEFINE o == IF open[x].minute < clock THEN NoMinute ELSE open[x]
  <2>1. n = [ring |-> r, open |-> IF open[x].minute < clock THEN [st.open EXCEPT ![x] = NoMinute] ELSE st.open]
    BY <1>4 DEF OneStep, FlushOne
  <2> HIDE DEF n, r
  <2>2. /\ n.ring = r /\ DOMAIN n.open = Series /\ n.open[x] = o
        /\ \A y \in Series \ {x} : n.open[y] = st.open[y]
    BY <2>1 DEF StType
  <2>3. StType(n)
    BY <1>1, <1>2, <2>2 DEF StType
  <2>4. FlushTo(x, k, n.ring[x], n.open[x])
    BY <1>1, <2>2 DEF FlushTo, WriteOf, Refused
  <2> QED BY <1>2, <1>4, <2>2, <2>3, <2>4 DEF StepTo, n
<1> QED BY <1>3, <1>4

(* The whole loop does so for every series in its order, once, and leaves  *)
(* the others.                                                             *)
LEMMA LoopDoes ==
    ASSUME NEW add \in BOOLEAN, NEW q \in Orders, NEW k, StType(Now)
    PROVE  LET st == Folded(add, Now, q, k)
           IN  /\ StType(st)
               /\ \A x \in Series : IF x \in Range(q) THEN StepTo(add, x, k, st.ring[x], st.open[x])
                                    ELSE st.ring[x] = ring[x] /\ st.open[x] = open[x]
<1>1. PICK X \in SUBSET Named : q \in SetToSeqs(X)
  BY DEF Orders
<1>2. X \subseteq Series
  BY HistoryBounds DEF Named
<1> DEFINE n == Cardinality(X)
<1>3. /\ n \in Nat /\ DOMAIN q = 1 .. n /\ \A i \in 1 .. n : q[i] \in Series
      /\ \A i, j \in 1 .. n : i # j => q[i] # q[j]
  <2>1. IsFiniteSet(X)
    BY <1>2, SeriesAssumption, FS_Subset
  <2>2. n \in Nat
    BY <2>1, FS_CardinalityType
  <2>3. q \in [1 .. n -> X] /\ \A i, j \in 1 .. n : i # j => q[i] # q[j]
    BY <1>1 DEF SetToSeqs
  <2> QED BY <1>2, <2>2, <2>3
<1> HIDE DEF n
<1>4. PICK tr : /\ tr[0] = Now /\ tr[n] = Folded(add, Now, q, k)
                /\ \A i \in 1 .. n : tr[i] = OneStep(add, tr[i - 1], q[i], k)
  BY <1>3, FoldIsLoop
<1> DEFINE Done(i) == {q[j] : j \in 1 .. i}
           Fine(i) == /\ StType(tr[i])
                      /\ \A x \in Series :
                            IF x \in Done(i) THEN StepTo(add, x, k, tr[i].ring[x], tr[i].open[x])
                            ELSE tr[i].ring[x] = ring[x] /\ tr[i].open[x] = open[x]
           Good == {i \in 0 .. n : Fine(i)}
<1>5. 0 \in Good
  <2>1. Done(0) = {} /\ 0 \in 0 .. n
    BY <1>3
  <2>2. Now.ring = ring /\ Now.open = open
    BY DEF Now
  <2>3. Fine(0)
    BY <1>4, <2>1, <2>2
  <2> QED BY <2>1, <2>3
<1>6. ASSUME NEW i \in 1 .. n, i - 1 \in Good PROVE i \in Good
  <2> DEFINE x == q[i]
             st == tr[i - 1]
  <2>1. Fine(i - 1) /\ i \in 0 .. n /\ x \in Series
    BY <1>3, <1>6
  <2>2. x \notin Done(i - 1)
    <3> SUFFICES ASSUME NEW j \in 1 .. i - 1 PROVE q[j] # q[i]
      OBVIOUS
    <3>1. j \in 1 .. n /\ j # i
      BY <1>3
    <3> QED BY <1>3, <3>1
  <2>3. Done(i) = Done(i - 1) \cup {x}
    <3>1. 1 .. i = (1 .. i - 1) \cup {i}
      BY <1>3
    <3> QED BY <3>1
  <2>4. tr[i] = OneStep(add, st, x, k)
    BY <1>4
  <2>5. StType(st) /\ st.ring[x] = ring[x] /\ st.open[x] = open[x]
    BY <2>1, <2>2
  <2> DEFINE w == tr[i]
  <2>6. /\ StType(w) /\ StepTo(add, x, k, w.ring[x], w.open[x])
        /\ \A y \in Series \ {x} : w.ring[y] = st.ring[y] /\ w.open[y] = st.open[y]
    BY <2>1, <2>4, <2>5, StepDoes
  <2>7. ASSUME NEW y \in Series
        PROVE  IF y \in Done(i) THEN StepTo(add, y, k, w.ring[y], w.open[y])
               ELSE w.ring[y] = ring[y] /\ w.open[y] = open[y]
    <3>1. CASE y = x
      BY <2>3, <2>6, <3>1
    <3>2. CASE y # x
      <4>1. y \in Done(i) <=> y \in Done(i - 1)
        BY <2>3, <3>2
      <4>2. w.ring[y] = st.ring[y] /\ w.open[y] = st.open[y]
        BY <2>6, <3>2
      <4>3. IF y \in Done(i - 1) THEN StepTo(add, y, k, st.ring[y], st.open[y])
            ELSE st.ring[y] = ring[y] /\ st.open[y] = open[y]
        BY <2>1
      <4> HIDE DEF w, st, Done
      <4> QED BY <4>1, <4>2, <4>3
    <3> QED BY <3>1, <3>2
  <2> QED BY <2>1, <2>6, <2>7
<1>7. n \in Good
  <2> HIDE DEF Good
  <2>1. \A i \in 0 .. n : i \in Good
    BY <1>3, <1>5, <1>6, Induction
  <2> QED BY <1>3, <2>1
<1>8. Done(n) = Range(q)
  BY <1>3 DEF Range
<1> DEFINE st == Folded(add, Now, q, k)
<1>9. StType(tr[n]) /\ \A x \in Series :
            IF x \in Done(n) THEN StepTo(add, x, k, tr[n].ring[x], tr[n].open[x])
            ELSE tr[n].ring[x] = ring[x] /\ tr[n].open[x] = open[x]
  BY <1>7
<1>10. st = tr[n]
  BY <1>4
<1> HIDE DEF st, Done
<1>11. StType(st) /\ \A x \in Series :
            IF x \in Range(q) THEN StepTo(add, x, k, st.ring[x], st.open[x])
            ELSE st.ring[x] = ring[x] /\ st.open[x] = open[x]
  BY <1>8, <1>9, <1>10
<1> QED BY <1>11 DEF st

-----------------------------------------------------------------------------
(* The invariant of the history, series by series: f is its file, o the    *)
(* minute in memory, g its samples.                                        *)

CrashTimes == {"disk", "past"}      \* a write may end early, or has

(* The indices follow the clock, as long as that does not go back.         *)
TimeOK(f, o) ==
    /\ o # NoMinute => o.minute <= clock
    /\ f # NoRing =>
          /\ \A t \in Tier : /\ f.last[t] <= Idx(t, clock)
                             /\ o # NoMinute => f.last[t] <= Idx(t, o.minute)
          /\ f.last[2] >= 0 => f.last[1] >= 0 /\ f.last[2] <= Bucket(f.last[1])

(* A file holds what is its own; only where a write may end early it may   *)
(* be ahead of its index, and then no more than the clock is.              *)
TierOK(f, o, g, t) ==
    /\ Own(f, t, g)
    /\ IF fault \in CrashTimes
       THEN Loose(f, t, Idx(t, clock)) /\ (o # NoMinute => Loose(f, t, Idx(t, o.minute)))
       ELSE Tight(f, t)
HoldsOK(f, o, g) == f # NoRing => \A t \in Tier : TierOK(f, o, g, t)

RingType(f) == f = NoRing \/ IsFile(f)
OpenType(o) == o = NoMinute \/ o \in MinuteType

HistType ==
    /\ clock \in 0 .. MaxTime /\ fault \in Fault
    /\ DOMAIN ring = Series /\ \A x \in Series : RingType(ring[x])
    /\ DOMAIN open = Series /\ \A x \in Series : OpenType(open[x])
    /\ got \in [Series -> [0 .. MaxTime -> Nat]]
    /\ Capped(ring)

TimeInv == fault # "back" => \A x \in Series : TimeOK(ring[x], open[x])
HoldsInv == \A x \in Series \ torn : HoldsOK(ring[x], open[x], got[x])
OpenInv == \A x \in Series : open[x] # NoMinute => got[x][open[x].minute] > 0

HistInv == HistType /\ TimeInv /\ HoldsInv /\ OpenInv

(* The file that a write starts from.                                      *)
LEMMA StartOfWrite ==
    ASSUME NEW f, RingType(f), NEW o \in MinuteType, NEW g
    PROVE  LET e == IF f = NoRing THEN Fresh ELSE f
           IN  /\ IsFile(e)
               /\ HoldsOK(f, o, g) => \A t \in Tier : Own(e, t, g) /\ Loose(e, t, Idx(t, o.minute))
               /\ TimeOK(f, o) => \A t \in Tier : e.last[t] <= Idx(t, o.minute)
               /\ TimeOK(f, o) => (e.last[2] >= 0 => e.last[1] >= 0 /\ e.last[2] <= Bucket(e.last[1]))
<1>1. o.minute \in Nat /\ o # NoMinute
  BY Sizes DEF MinuteType, NoMinute
<1>2. \A t \in Tier : Idx(t, o.minute) \in Nat
  BY <1>1, Indices
<1>3. CASE f = NoRing
  <2>1. \A t \in Tier : Own(Fresh, t, g) /\ Loose(Fresh, t, Idx(t, o.minute))
    BY FreshIsFile DEF Own, Loose
  <2>2. \A t \in Tier : Fresh.last[t] <= Idx(t, o.minute) /\ ~(Fresh.last[t] >= 0)
    BY <1>2, FreshIsFile
  <2>3. 2 \in Tier
    BY DEF Tier
  <2> QED BY <1>3, <2>1, <2>2, <2>3, FreshIsFile
<1>4. CASE f # NoRing
  <2>1. IsFile(f)
    BY <1>4 DEF RingType
  <2>2. ASSUME HoldsOK(f, o, g), NEW t \in Tier PROVE Own(f, t, g) /\ Loose(f, t, Idx(t, o.minute))
    <3>1. TierOK(f, o, g, t)
      BY <1>4, <2>2 DEF HoldsOK
    <3>2. CASE fault \in CrashTimes
      BY <1>1, <3>1, <3>2 DEF TierOK
    <3>3. CASE fault \notin CrashTimes
      <4>1. Own(f, t, g) /\ Loose(f, t, -1)
        BY <3>1, <3>3 DEF TierOK, Tight
      <4>2. -1 \in Int /\ Idx(t, o.minute) \in Int /\ -1 <= Idx(t, o.minute)
        BY <1>2
      <4> QED BY <2>1, <4>1, <4>2, LooseIsMonotone
    <3> QED BY <3>2, <3>3
  <2>3. ASSUME TimeOK(f, o)
        PROVE  /\ \A t \in Tier : f.last[t] <= Idx(t, o.minute)
               /\ f.last[2] >= 0 => f.last[1] >= 0 /\ f.last[2] <= Bucket(f.last[1])
    BY <1>1, <1>4, <2>3 DEF TimeOK
  <2> QED BY <1>4, <2>1, <2>2, <2>3
<1> QED BY <1>3, <1>4

(* A minute that is written may end anywhere only when the disk fails.     *)
MayEnd(k) == k \in 1 .. Whole /\ (k = Whole \/ fault = "disk")

(* A write keeps the file in order, whatever stage it reaches.             *)
LEMMA WriteKeepsFile ==
    ASSUME clock \in 0 .. MaxTime, NEW f, RingType(f), NEW o \in MinuteType, NEW g, g[o.minute] > 0,
           NEW k, MayEnd(k), NEW h, WriteOf(f, o, k, h)
    PROVE  /\ RingType(h)
           /\ fault # "back" /\ TimeOK(f, o) => TimeOK(h, o)
           /\ (fault # "back" => TimeOK(f, o)) /\ HoldsOK(f, o, g) =>
                 \/ h # NoRing /\ \E t \in Tier : Unindexed(h, t)
                 \/ HoldsOK(h, o, g)
<1>1. CASE Refused(f, h)
  BY <1>1 DEF Refused, RingType
<1>2. CASE Written(f, o, k, h)
  <2> DEFINE e == IF f = NoRing THEN Fresh ELSE f
             m == o.minute
  <2>1. h = Stages(e, o)[k] /\ k \in 1 .. Whole
    BY <1>2 DEF Written, MayEnd
  <2>2. /\ IsFile(e)
        /\ HoldsOK(f, o, g) => \A t \in Tier : Own(e, t, g) /\ Loose(e, t, Idx(t, m))
        /\ TimeOK(f, o) => \A t \in Tier : e.last[t] <= Idx(t, m)
        /\ TimeOK(f, o) => (e.last[2] >= 0 => e.last[1] >= 0 /\ e.last[2] <= Bucket(e.last[1]))
    BY StartOfWrite
  <2> HIDE DEF e
  <2>3. m \in Nat /\ o # NoMinute /\ clock \in Nat /\ Bucket(m) \in Nat /\ Bucket(clock) \in Nat /\ 1 \in Tier /\ 2 \in Tier
    <3>1. m \in Nat /\ o # NoMinute /\ clock \in Nat
      BY Sizes DEF MinuteType, NoMinute
    <3> QED BY <3>1, Buckets DEF Tier
  <2>4. /\ IsFile(h) /\ h # NoRing
        /\ h.last[1] = IF k < 4 THEN e.last[1] ELSE LastAfter(e, 1, m)
        /\ h.last[2] = IF k < 7 THEN e.last[2] ELSE LastAfter(e, 2, Bucket(m))
    BY <2>1, <2>2, StageIndices, FileIsThere
  <2>5. ASSUME fault # "back", TimeOK(f, o) PROVE TimeOK(h, o)
    <3>1. /\ e.last[1] <= m /\ e.last[2] <= Bucket(m) /\ e.last[1] \in Int /\ e.last[2] \in Int
          /\ (e.last[2] >= 0 => e.last[1] >= 0 /\ e.last[2] <= Bucket(e.last[1]))
      BY <2>2, <2>3, <2>5 DEF Idx, IsFile
    <3>2. LastAfter(e, 1, m) = m /\ LastAfter(e, 2, Bucket(m)) = Bucket(m)
      BY <2>3, <3>1 DEF LastAfter
    <3>3. m <= clock
      BY <2>3, <2>5 DEF TimeOK
    <3>4. Bucket(m) <= Bucket(clock)
      BY <2>3, <3>3, BucketsInOrder
    <3>5. h.last[1] <= m /\ h.last[2] <= Bucket(m) /\ h.last[1] \in Int /\ h.last[2] \in Int
      BY <2>3, <2>4, <3>1, <3>2
    <3>6. ASSUME h.last[2] >= 0 PROVE h.last[1] >= 0 /\ h.last[2] <= Bucket(h.last[1])
      <4>1. CASE k < 4
        <5>1. k < 7
          BY <2>1, <4>1 DEF Whole
        <5> QED BY <2>4, <3>1, <3>6, <4>1, <5>1
      <4>2. CASE ~(k < 4)
        <5>1. h.last[1] = m
          BY <2>4, <3>2, <4>2
        <5> QED BY <2>3, <3>5, <5>1
      <4> QED BY <4>1, <4>2
    <3>7. /\ h.last[1] <= clock /\ h.last[2] <= Bucket(clock)
      BY <2>3, <3>3, <3>4, <3>5
    <3>8. ASSUME NEW t \in Tier PROVE h.last[t] <= Idx(t, clock) /\ h.last[t] <= Idx(t, m)
      BY <3>5, <3>7 DEF Idx, Tier
    <3> QED BY <3>3, <3>6, <3>8 DEF TimeOK
  <2>6. ASSUME fault # "back" => TimeOK(f, o), HoldsOK(f, o, g)
        PROVE  \/ h # NoRing /\ \E t \in Tier : Unindexed(h, t)
               \/ HoldsOK(h, o, g)
    <3>1. \A t \in Tier : Own(e, t, g) /\ Loose(e, t, Idx(t, m))
      BY <2>2, <2>6
    <3>2. CASE fault \in CrashTimes
      <4>1. TimeOK(f, o)
        BY <2>6, <3>2 DEF CrashTimes
      <4>2. \A t \in Tier : e.last[t] <= Idx(t, m)
        BY <2>2, <4>1
      <4>3. \/ \E t \in Tier : Unindexed(h, t)
            \/ \A t \in Tier : Own(h, t, g) /\ Loose(h, t, Idx(t, m))
        BY <2>1, <2>2, <3>1, <4>2, PartIsLoose
      <4>4. ASSUME NEW t \in Tier, Loose(h, t, Idx(t, m)) PROVE Loose(h, t, Idx(t, clock))
        <5>1. m <= clock
          BY <2>3, <4>1 DEF TimeOK
        <5>2. Idx(t, m) \in Nat /\ Idx(t, clock) \in Nat
          BY <2>3, Indices
        <5>3. Idx(t, m) <= Idx(t, clock)
          BY <2>3, <5>1, Indices
        <5>4. Idx(t, m) \in Int /\ Idx(t, clock) \in Int
          BY <5>2
        <5> QED BY <2>4, <4>4, <5>3, <5>4, LooseIsMonotone
      <4>5. CASE \A t \in Tier : Own(h, t, g) /\ Loose(h, t, Idx(t, m))
        <5>1. ASSUME NEW t \in Tier PROVE TierOK(h, o, g, t)
          <6>1. Own(h, t, g) /\ Loose(h, t, Idx(t, m)) /\ Loose(h, t, Idx(t, clock))
            BY <4>4, <4>5
          <6> QED BY <3>2, <6>1 DEF TierOK
        <5> QED BY <5>1 DEF HoldsOK
      <4> QED BY <2>4, <4>3, <4>5
    <3>3. CASE fault \notin CrashTimes
      <4>1. k = Whole
        BY <3>3 DEF MayEnd, CrashTimes
      <4>2. \A t \in Tier : Own(h, t, g) /\ Tight(h, t)
        BY <2>1, <2>2, <3>1, <4>1, WholeIsTight
      <4> QED BY <3>3, <4>2 DEF HoldsOK, TierOK
    <3> QED BY <3>2, <3>3
  <2> QED BY <2>4, <2>5, <2>6 DEF RingType
<1> QED BY <1>1, <1>2 DEF WriteOf

(* A file that is in order stays so when its minute closes or one opens.   *)
LEMMA Reopen ==
    ASSUME clock \in Nat, NEW f, NEW o1, NEW o2, o2 = NoMinute \/ o2 = o1 \/ o2.minute = clock, NEW g
    PROVE  (TimeOK(f, o1) => TimeOK(f, o2)) /\ (HoldsOK(f, o1, g) => HoldsOK(f, o2, g))
<1>1. TimeOK(f, o1) => TimeOK(f, o2)
  <2>1. CASE o2 = NoMinute
    BY <2>1 DEF TimeOK
  <2>2. CASE o2 = o1
    BY <2>2
  <2>3. CASE o2.minute = clock
    BY <2>3 DEF TimeOK
  <2> QED BY <2>1, <2>2, <2>3
<1>2. HoldsOK(f, o1, g) => HoldsOK(f, o2, g)
  <2>1. ASSUME NEW t \in Tier, TierOK(f, o1, g, t) PROVE TierOK(f, o2, g, t)
    <3>1. CASE fault \in CrashTimes
      BY <2>1, <3>1 DEF TierOK
    <3>2. CASE fault \notin CrashTimes
      BY <2>1, <3>2 DEF TierOK
    <3> QED BY <3>1, <3>2
  <2> QED BY <2>1 DEF HoldsOK
<1> QED BY <1>1, <1>2

(* How far a write gets.                                                   *)
LEMMA ReachedEnds ==
    ASSUME NEW k \in Reached, NEW x \in Series
    PROVE  MayEnd(k[x])
<1> DEFINE whole == [y \in Series |-> Whole]
<1>1. k = whole \/ (fault = "disk" /\ \E y \in Series, j \in 1 .. Whole : k = [whole EXCEPT ![y] = j])
  BY DEF Reached
<1>2. whole[x] = Whole /\ Whole \in 1 .. Whole
  BY DEF Whole
<1>3. CASE k = whole
  BY <1>2, <1>3 DEF MayEnd
<1>4. CASE fault = "disk" /\ \E y \in Series, j \in 1 .. Whole : k = [whole EXCEPT ![y] = j]
  <2>1. PICK y \in Series, j \in 1 .. Whole : k = [whole EXCEPT ![y] = j]
    BY <1>4
  <2>2. k[x] = IF x = y THEN j ELSE Whole
    BY <2>1
  <2> QED BY <1>2, <1>4, <2>2 DEF MayEnd
<1> QED BY <1>1, <1>3, <1>4

(* One step of a loop keeps its series in order.                           *)
LEMMA StepKeepsSeries ==
    ASSUME HistInv, NEW x \in Series, NEW add \in BOOLEAN, NEW k \in Reached, NEW h, NEW o,
           add \/ open[x] # NoMinute, StepTo(add, x, k, h, o)
    PROVE  /\ RingType(h) /\ OpenType(o)
           /\ fault # "back" => TimeOK(h, o)
           /\ x \notin torn => \/ h # NoRing /\ \E t \in Tier : Unindexed(h, t)
                               \/ HoldsOK(h, o, got[x])
           /\ o # NoMinute => IF add THEN o.minute = clock ELSE o = open[x]
<1> DEFINE f == ring[x]
           cur == open[x]
           g == got[x]
<1>1. /\ clock \in 0 .. MaxTime /\ clock \in Nat /\ RingType(f) /\ OpenType(cur)
      /\ (fault # "back" => TimeOK(f, cur)) /\ (x \notin torn => HoldsOK(f, cur, g))
      /\ (cur # NoMinute => g[cur.minute] > 0)
  BY Sizes DEF HistInv, HistType, TimeInv, HoldsInv, OpenInv
<1>2. MayEnd(k[x])
  BY ReachedEnds
<1>3. ASSUME cur # NoMinute, WriteOf(f, cur, k[x], h)
      PROVE  /\ RingType(h) /\ (fault # "back" => TimeOK(h, cur))
             /\ x \notin torn => (h # NoRing /\ \E t \in Tier : Unindexed(h, t)) \/ HoldsOK(h, cur, g)
  <2>1. cur \in MinuteType
    BY <1>1, <1>3 DEF OpenType
  <2> HIDE DEF f, cur, g
  <2>2. /\ RingType(h)
        /\ fault # "back" /\ TimeOK(f, cur) => TimeOK(h, cur)
        /\ (fault # "back" => TimeOK(f, cur)) /\ HoldsOK(f, cur, g) =>
              \/ h # NoRing /\ \E t \in Tier : Unindexed(h, t)
              \/ HoldsOK(h, cur, g)
    BY <1>1, <1>2, <1>3, <2>1, WriteKeepsFile
  <2> QED BY <1>1, <2>2
<1>4. OpenType([minute |-> clock, n |-> 1]) /\ [minute |-> clock, n |-> 1].minute = clock /\ OpenType(NoMinute)
  BY <1>1 DEF OpenType, MinuteType
<1>5. CASE add
  <2>1. AddTo(x, k, h, o)
    BY <1>5 DEF StepTo
  <2>2. CASE cur # NoMinute /\ cur.minute # clock /\ Refused(f, h) /\ o = NoMinute
    BY <1>4, <2>2 DEF Refused, RingType, TimeOK, HoldsOK
  <2>3. CASE cur # NoMinute /\ cur.minute # clock /\ Written(f, cur, k[x], h) /\ Opens(h, o)
    <3>1. OpenType(o) /\ (o = NoMinute \/ o.minute = clock)
      BY <1>4, <2>3 DEF Opens
    <3>2. /\ RingType(h) /\ (fault # "back" => TimeOK(h, cur))
          /\ x \notin torn => (h # NoRing /\ \E t \in Tier : Unindexed(h, t)) \/ HoldsOK(h, cur, g)
      BY <1>3, <2>3 DEF WriteOf
    <3> HIDE DEF f, cur, g
    <3>3. (TimeOK(h, cur) => TimeOK(h, o)) /\ (HoldsOK(h, cur, g) => HoldsOK(h, o, g))
      BY <1>1, <3>1, Reopen
    <3> QED BY <1>5, <3>1, <3>2, <3>3 DEF g
  <2>4. CASE cur = NoMinute /\ h = f /\ Opens(h, o)
    <3>1. OpenType(o) /\ (o = NoMinute \/ o.minute = clock)
      BY <1>4, <2>4 DEF Opens
    <3>2. (TimeOK(f, cur) => TimeOK(f, o)) /\ (HoldsOK(f, cur, g) => HoldsOK(f, o, g))
      BY <1>1, <3>1, Reopen
    <3> QED BY <1>1, <1>5, <2>4, <3>1, <3>2
  <2>5. CASE cur # NoMinute /\ cur.minute = clock /\ h = f /\ o = [cur EXCEPT !.n = @ + 1]
    <3>1. cur \in MinuteType
      BY <1>1, <2>5 DEF OpenType
    <3>2. o \in MinuteType /\ o.minute = clock
      BY <2>5, <3>1 DEF MinuteType
    <3>3. (TimeOK(f, cur) => TimeOK(f, o)) /\ (HoldsOK(f, cur, g) => HoldsOK(f, o, g))
      BY <1>1, <3>2, Reopen
    <3> QED BY <1>1, <1>5, <2>5, <3>2, <3>3 DEF OpenType
  <2> QED BY <2>1, <2>2, <2>3, <2>4, <2>5 DEF AddTo
<1>6. CASE ~add
  <2>1. WriteOf(f, cur, k[x], h) /\ (o = NoMinute \/ o = cur) /\ cur # NoMinute
    BY <1>6 DEF StepTo, FlushTo
  <2>2. /\ RingType(h) /\ (fault # "back" => TimeOK(h, cur))
        /\ x \notin torn => (h # NoRing /\ \E t \in Tier : Unindexed(h, t)) \/ HoldsOK(h, cur, g)
    BY <1>3, <2>1
  <2>3. OpenType(o)
    BY <1>1, <1>4, <2>1
  <2> HIDE DEF f, cur, g
  <2>4. (TimeOK(h, cur) => TimeOK(h, o)) /\ (HoldsOK(h, cur, g) => HoldsOK(h, o, g))
    BY <1>1, <2>1, Reopen
  <2> QED BY <1>6, <2>1, <2>2, <2>3, <2>4 DEF g, cur
<1> QED BY <1>5, <1>6

(* More samples leave a file in order, and so does a fault of its kind.    *)
LEMMA OwnGrows ==
    ASSUME NEW f, IsFile(f), NEW t \in Tier, NEW g, NEW g2, Own(f, t, g),
           \A m \in 0 .. MaxTime : g[m] > 0 => g2[m] > 0
    PROVE  Own(f, t, g2)
<1> SUFFICES ASSUME NEW s \in Slots(t), NEW e \in f.at[t][s]
             PROVE  Idx(t, e[1]) % Size(t) = s /\ g2[e[1]] > 0
  BY DEF Own
<1>1. e[1] \in 0 .. MaxTime
  BY EntryIndex
<1>2. Idx(t, e[1]) % Size(t) = s /\ g[e[1]] > 0
  BY DEF Own
<1> QED BY <1>1, <1>2

(* What a loop is about to leave.                                          *)
Looped(add, q, k) == Folded(add, Now, q, k)

(* A loop over the series keeps the invariant, with whatever becomes of    *)
(* the minutes it leaves open (add, flush and the end of the process).     *)
LEMMA LoopKeeps ==
    ASSUME HistInv, NEW add \in BOOLEAN, NEW q \in Orders, NEW k \in Reached,
           add \/ Range(q) \subseteq Opened,
           ring' = Looped(add, q, k).ring, torn' = Torn(Looped(add, q, k)),
           clock' = clock, fault' = fault \/ (fault \in CrashTimes /\ fault' \in CrashTimes),
           DOMAIN open' = Series,
           \A x \in Series : open'[x] = Looped(add, q, k).open[x] \/ open'[x] = NoMinute,
           got' \in [Series -> [0 .. MaxTime -> Nat]],
           \A x \in Series : \/ ring'[x] = NoRing /\ open'[x] = NoMinute
                             \/ \A m \in 0 .. MaxTime : got[x][m] > 0 => got'[x][m] > 0,
           \A x \in Range(q) : add /\ open'[x] # NoMinute => got'[x][clock] > 0
    PROVE  HistInv'
<1> DEFINE st == Looped(add, q, k)
<1>0. clock \in 0 .. MaxTime /\ clock \in Nat /\ fault \in Fault /\ DOMAIN ring = Series /\ DOMAIN open = Series
      /\ Capped(ring) /\ \A x \in Series : RingType(ring[x]) /\ OpenType(open[x])
  BY Sizes DEF HistInv, HistType
<1>1. /\ StType(st)
      /\ \A x \in Series : IF x \in Range(q) THEN StepTo(add, x, k, st.ring[x], st.open[x])
                           ELSE st.ring[x] = ring[x] /\ st.open[x] = open[x]
  <2>1. StType(Now)
    BY <1>0 DEF StType, Now
  <2> QED BY <2>1, LoopDoes DEF Looped
<1> HIDE DEF st
<1>2. ASSUME NEW x \in Series
      PROVE  /\ RingType(st.ring[x]) /\ OpenType(st.open[x])
             /\ fault # "back" => TimeOK(st.ring[x], st.open[x])
             /\ x \notin torn => \/ st.ring[x] # NoRing /\ \E t \in Tier : Unindexed(st.ring[x], t)
                                 \/ HoldsOK(st.ring[x], st.open[x], got[x])
             /\ st.open[x] # NoMinute => IF x \in Range(q) /\ add THEN st.open[x].minute = clock
                                         ELSE st.open[x] = open[x]
  <2>1. CASE x \in Range(q)
    <3>1. add \/ open[x] # NoMinute
      BY <2>1 DEF Opened
    <3>2. StepTo(add, x, k, st.ring[x], st.open[x])
      BY <1>1, <2>1
    <3> QED BY <2>1, <3>1, <3>2, StepKeepsSeries
  <2>2. CASE x \notin Range(q)
    BY <1>0, <1>1, <2>2 DEF HistInv, TimeInv, HoldsInv
  <2> QED BY <2>1, <2>2
<1>3. ring' = st.ring /\ torn' = Torn(st)
  BY DEF st
<1>4. ASSUME NEW x \in Series PROVE open'[x] = st.open[x] \/ open'[x] = NoMinute
  BY DEF st
<1>5. /\ fault' \in Fault /\ (fault' = "back" => fault = "back")
      /\ (fault' \in CrashTimes <=> fault \in CrashTimes)
  BY <1>0 DEF CrashTimes, Fault
<1>6. HistType'
  <2>1. DOMAIN ring' = Series /\ Capped(ring')
    BY <1>1, <1>3 DEF StType
  <2>2. ASSUME NEW x \in Series PROVE RingType(ring'[x]) /\ OpenType(open'[x])
    BY <1>2, <1>3, <1>4 DEF OpenType
  <2> QED BY <1>0, <1>5, <2>1, <2>2 DEF HistType, Capped, FilesOf
<1>7. TimeInv'
  <2> SUFFICES ASSUME fault' # "back", NEW x \in Series PROVE TimeOK(ring[x], open[x])'
    BY DEF TimeInv
  <2>1. TimeOK(st.ring[x], st.open[x])
    BY <1>2, <1>5 DEF CrashTimes
  <2>2. TimeOK(st.ring[x], open'[x])
    BY <1>0, <1>4, <2>1, Reopen
  <2> QED BY <1>3, <2>2 DEF TimeOK
<1>8. HoldsInv'
  <2> SUFFICES ASSUME NEW x \in Series, x \notin torn', ring'[x] # NoRing, NEW t \in Tier
               PROVE  TierOK(ring[x], open[x], got[x], t)'
    BY DEF HoldsInv, HoldsOK
  <2> DEFINE h == st.ring[x]
  <2>1. h = ring'[x] /\ h # NoRing /\ IsFile(h)
    BY <1>2, <1>3 DEF RingType
  <2>2. x \notin torn /\ ~\E u \in Tier : Unindexed(h, u)
    <3>1. x \notin torn /\ ~\E u \in Tier : h.last[u] = -1 /\ \E p \in Range(h.at[u]) : p # Gap
      BY <1>3, <2>1 DEF Torn
    <3>2. ASSUME NEW u \in Tier, Unindexed(h, u) PROVE FALSE
      <4>1. PICK s \in Slots(u) : h.at[u][s] # Gap
        BY <3>2 DEF Unindexed
      <4>2. h.at[u][s] \in Range(h.at[u])
        BY <2>1, <4>1 DEF IsFile, Range
      <4> QED BY <3>1, <3>2, <4>1, <4>2 DEF Unindexed
    <3> QED BY <3>1, <3>2
  <2>3. HoldsOK(h, open'[x], got[x])
    <3>1. HoldsOK(h, st.open[x], got[x])
      BY <1>2, <2>2
    <3> QED BY <1>0, <1>4, <3>1, Reopen
  <2>4. TierOK(h, open'[x], got[x], t)
    BY <2>1, <2>3 DEF HoldsOK
  <2>5. Own(h, t, got'[x])
    <3>1. \A m \in 0 .. MaxTime : got[x][m] > 0 => got'[x][m] > 0
      OBVIOUS
    <3> QED BY <2>1, <2>4, <3>1, OwnGrows DEF TierOK
  <2> HIDE DEF h
  <2>6. CASE fault \in CrashTimes
    <3>1. Loose(h, t, Idx(t, clock)) /\ (open'[x] # NoMinute => Loose(h, t, Idx(t, open'[x].minute)))
      BY <2>4, <2>6 DEF TierOK
    <3> QED BY <1>5, <2>1, <2>5, <2>6, <3>1 DEF TierOK
  <2>7. CASE fault \notin CrashTimes
    <3>1. Tight(h, t)
      BY <2>4, <2>7 DEF TierOK
    <3> QED BY <1>5, <2>1, <2>5, <2>7, <3>1 DEF TierOK
  <2> QED BY <2>6, <2>7
<1>9. OpenInv'
  <2> SUFFICES ASSUME NEW x \in Series, open'[x] # NoMinute PROVE got'[x][open'[x].minute] > 0
    BY DEF OpenInv
  <2>1. open'[x] = st.open[x]
    BY <1>4
  <2>2. CASE x \in Range(q) /\ add
    BY <1>2, <2>1, <2>2
  <2>3. CASE ~(x \in Range(q) /\ add)
    <3>1. open'[x] = open[x] /\ got[x][open[x].minute] > 0
      BY <1>2, <2>1, <2>3 DEF HistInv, OpenInv
    <3>2. open[x].minute \in 0 .. MaxTime
      BY <1>0, <3>1 DEF OpenType, MinuteType
    <3> QED BY <3>1, <3>2
  <2> QED BY <2>2, <2>3
<1> QED BY <1>6, <1>7, <1>8, <1>9 DEF HistInv

(* A series that is kept keeps its samples.                                *)
LEMMA KeptIs ==
    ASSUME got \in [Series -> [0 .. MaxTime -> Nat]], NEW st
    PROVE  /\ Kept(st) \in [Series -> [0 .. MaxTime -> Nat]]
           /\ \A x \in Series : st.ring[x] # NoRing \/ st.open[x] # NoMinute => Kept(st)[x] = got[x]
  BY DEF Kept

(* A write that ends early is the one fault of its kind.                   *)
LEMMA OnceIs ==
    ASSUME NEW k \in Reached
    PROVE  Once(k) = fault \/ (fault \in CrashTimes /\ Once(k) \in CrashTimes)
<1>1. CASE \A x \in Series : k[x] = Whole
  BY <1>1 DEF Once
<1>2. CASE ~\A x \in Series : k[x] = Whole
  <2>1. fault = "disk"
    BY <1>2, ReachedEnds DEF MayEnd
  <2> QED BY <1>2, <2>1 DEF Once, CrashTimes
<1> QED BY <1>1, <1>2

(* add keeps the invariant (history.js 187-202).                           *)
LEMMA AddKeeps ==
    ASSUME HistInv, NEW q \in Orders, NEW k \in Reached, Add(q, k)
    PROVE  HistInv'
<1> DEFINE st == Looped(TRUE, q, k)
<1>0. clock \in 0 .. MaxTime /\ got \in [Series -> [0 .. MaxTime -> Nat]] /\ DOMAIN ring = Series
      /\ DOMAIN open = Series /\ Capped(ring)
  BY DEF HistInv, HistType
<1>1. st = FoldLeft(LAMBDA acc, x : AddOne(acc, x, k), Now, q)
  BY DEF Looped, Folded
<1>2. /\ ring' = st.ring /\ open' = st.open /\ torn' = Torn(st) /\ fault' = Once(k) /\ clock' = clock
      /\ got' = [x \in Series |-> IF x \in Range(q) /\ st.open[x] # NoMinute
                                  THEN [Kept(st)[x] EXCEPT ![clock] = @ + 1] ELSE Kept(st)[x]]
  BY <1>1, Zenon DEF Add
<1>3. DOMAIN st.open = Series
  <2>1. StType(Now)
    BY <1>0 DEF StType, Now
  <2> QED BY <2>1, LoopDoes DEF Looped, StType
<1> HIDE DEF st
<1>4. /\ Kept(st) \in [Series -> [0 .. MaxTime -> Nat]]
      /\ \A x \in Series : st.ring[x] # NoRing \/ st.open[x] # NoMinute => Kept(st)[x] = got[x]
  BY <1>0, KeptIs
<1> DEFINE K == Kept(st)
<1> HIDE DEF K
<1>5. K \in [Series -> [0 .. MaxTime -> Nat]]
      /\ \A x \in Series : st.ring[x] # NoRing \/ st.open[x] # NoMinute => K[x] = got[x]
  BY <1>4 DEF K
<1>6. ASSUME NEW x \in Series
      PROVE  /\ got'[x] \in [0 .. MaxTime -> Nat]
             /\ \A m \in 0 .. MaxTime : K[x][m] > 0 => got'[x][m] > 0
             /\ x \in Range(q) /\ st.open[x] # NoMinute => got'[x][clock] > 0
  <2>1. got'[x] = IF x \in Range(q) /\ st.open[x] # NoMinute THEN [K[x] EXCEPT ![clock] = @ + 1] ELSE K[x]
    BY <1>2 DEF K
  <2>2. K[x] \in [0 .. MaxTime -> Nat]
    BY <1>5
  <2> DEFINE a == K[x]
             b == [a EXCEPT ![clock] = @ + 1]
  <2> HIDE DEF a
  <2>3. a \in [0 .. MaxTime -> Nat]
    BY <2>2 DEF a
  <2>4. /\ b \in [0 .. MaxTime -> Nat] /\ b[clock] = a[clock] + 1 /\ a[clock] \in Nat
        /\ \A m \in 0 .. MaxTime : m # clock => b[m] = a[m]
    BY <1>0, <2>3
  <2> HIDE DEF b
  <2>5. b[clock] > 0 /\ \A m \in 0 .. MaxTime : a[m] > 0 => b[m] > 0
    BY <2>4
  <2>6. got'[x] = IF x \in Range(q) /\ st.open[x] # NoMinute THEN b ELSE a
    BY <2>1 DEF a, b
  <2>7. got'[x] \in [0 .. MaxTime -> Nat] /\ \A m \in 0 .. MaxTime : a[m] > 0 => got'[x][m] > 0
    BY <2>3, <2>4, <2>5, <2>6
  <2> QED BY <2>5, <2>6, <2>7 DEF a
<1>7. got' \in [Series -> [0 .. MaxTime -> Nat]]
  BY <1>2, <1>6
<1>8. \A x \in Series : \/ ring'[x] = NoRing /\ open'[x] = NoMinute
                        \/ \A m \in 0 .. MaxTime : got[x][m] > 0 => got'[x][m] > 0
  BY <1>2, <1>5, <1>6
<1>9. Range(q) \subseteq Series
  <2>1. PICK X \in SUBSET Named : q \in SetToSeqs(X)
    BY DEF Orders
  <2>2. X \subseteq Series
    BY HistoryBounds DEF Named
  <2> QED BY <2>1, <2>2 DEF SetToSeqs, Range
<1>10. \A x \in Range(q) : open'[x] # NoMinute => got'[x][clock] > 0
  BY <1>2, <1>6, <1>9
<1>11. fault' = fault \/ (fault \in CrashTimes /\ fault' \in CrashTimes)
  BY <1>2, OnceIs
<1>12. /\ ring' = Looped(TRUE, q, k).ring /\ torn' = Torn(Looped(TRUE, q, k)) /\ clock' = clock
       /\ DOMAIN open' = Series
       /\ \A x \in Series : open'[x] = Looped(TRUE, q, k).open[x] \/ open'[x] = NoMinute
  BY <1>2, <1>3 DEF st
<1> QED BY <1>7, <1>8, <1>10, <1>11, <1>12, LoopKeeps

(* flush and the end of the process keep it (history.js 204-210).          *)
LEMMA FlushKeeps ==
    ASSUME HistInv, NEW q \in Orders, NEW k \in Reached, Flush(q, k) \/ StopStart(q, k)
    PROVE  HistInv'
<1> DEFINE st == Looped(FALSE, q, k)
<1>0. clock \in 0 .. MaxTime /\ got \in [Series -> [0 .. MaxTime -> Nat]] /\ DOMAIN ring = Series
      /\ DOMAIN open = Series /\ Capped(ring)
  BY DEF HistInv, HistType
<1>1. st = Flushed(q, k)
  BY DEF Looped, Folded, Flushed
<1>2. /\ ring' = st.ring /\ torn' = Torn(st) /\ clock' = clock /\ Range(q) \subseteq Opened
      /\ \/ open' = st.open /\ got' = Kept(st) /\ fault' = Once(k)
         \/ open' = [x \in Series |-> NoMinute] /\ got' = got /\ fault = "disk" /\ fault' = "past"
  BY <1>1, Zenon DEF Flush, StopStart
<1>3. DOMAIN st.open = Series
  <2>1. StType(Now)
    BY <1>0 DEF StType, Now
  <2> QED BY <2>1, LoopDoes DEF Looped, StType
<1> HIDE DEF st
<1>4. /\ Kept(st) \in [Series -> [0 .. MaxTime -> Nat]]
      /\ \A x \in Series : st.ring[x] # NoRing \/ st.open[x] # NoMinute => Kept(st)[x] = got[x]
  BY <1>0, KeptIs
<1>5. got' \in [Series -> [0 .. MaxTime -> Nat]]
  BY <1>0, <1>2, <1>4
<1>6. \A x \in Series : \/ ring'[x] = NoRing /\ open'[x] = NoMinute
                        \/ \A m \in 0 .. MaxTime : got[x][m] > 0 => got'[x][m] > 0
  BY <1>2, <1>4
<1>7. fault' = fault \/ (fault \in CrashTimes /\ fault' \in CrashTimes)
  BY <1>2, OnceIs DEF CrashTimes
<1>8. /\ ring' = Looped(FALSE, q, k).ring /\ torn' = Torn(Looped(FALSE, q, k)) /\ clock' = clock
      /\ DOMAIN open' = Series
      /\ \A x \in Series : open'[x] = Looped(FALSE, q, k).open[x] \/ open'[x] = NoMinute
  BY <1>2, <1>3 DEF st
<1> QED BY <1>2, <1>5, <1>6, <1>7, <1>8, LoopKeeps

(* The sweep and the removal of a node keep it (history.js 174-179,        *)
(* 260-278).                                                               *)
LEMMA RemovalKeeps ==
    ASSUME HistInv, Sweep \/ RemoveNode
    PROVE  HistInv'
<1>0. /\ clock \in 0 .. MaxTime /\ fault \in Fault /\ got \in [Series -> [0 .. MaxTime -> Nat]]
      /\ DOMAIN open = Series /\ Capped(ring)
      /\ \A x \in Series : RingType(ring[x]) /\ OpenType(open[x])
  BY DEF HistInv, HistType
<1>1. clock' = clock /\ fault' = fault /\ DOMAIN ring' = Series /\ DOMAIN open' = Series
  BY <1>0 DEF Sweep, RemoveNode
<1>2. got' \in [Series -> [0 .. MaxTime -> Nat]]
  <2>1. CASE Sweep
    BY <1>0, <2>1, KeptIs DEF Sweep
  <2>2. CASE RemoveNode
    BY <1>0, <2>2, Sizes DEF RemoveNode
  <2> QED BY <2>1, <2>2
<1>3. ASSUME NEW x \in Series
      PROVE  /\ ring'[x] = NoRing \/ (ring'[x] = ring[x] /\ open'[x] = open[x] /\ (x \in torn => x \in torn'))
             /\ open'[x] = NoMinute \/ open'[x] = open[x]
             /\ ring'[x] # NoRing \/ open'[x] # NoMinute => got'[x] = got[x]
  <2>1. CASE Sweep
    <3>1. /\ ring' = [y \in Series |-> IF Old(y) THEN NoRing ELSE ring[y]]
          /\ got' = Kept([ring |-> ring', open |-> open])
          /\ torn' = {y \in torn : ~Old(y)} /\ open' = open
      BY <2>1 DEF Sweep
    <3>2. ring'[x] # NoRing \/ open[x] # NoMinute => got'[x] = got[x]
      BY <1>0, <3>1, KeptIs
    <3> QED BY <3>1, <3>2
  <2>2. CASE RemoveNode
    BY <2>2 DEF RemoveNode
  <2> QED BY <2>1, <2>2
<1>4. Capped(ring')
  <2>1. FilesOf(ring') \subseteq FilesOf(ring) /\ FilesOf(ring) \in SUBSET Series
    BY <1>3 DEF FilesOf
  <2>2. IsFiniteSet(FilesOf(ring))
    BY <2>1, SeriesAssumption, FS_Subset
  <2>3. Cardinality(FilesOf(ring')) <= Cardinality(FilesOf(ring)) /\ Cardinality(FilesOf(ring')) \in Nat
        /\ Cardinality(FilesOf(ring)) \in Nat /\ MaxSeries \in Nat
    BY <2>1, <2>2, FS_Subset, FS_CardinalityType, HistoryBounds
  <2> QED BY <1>0, <2>3 DEF Capped
<1>5. HistType'
  <2>1. ASSUME NEW x \in Series PROVE RingType(ring'[x]) /\ OpenType(open'[x])
    BY <1>0, <1>3 DEF RingType, OpenType
  <2> QED BY <1>0, <1>1, <1>2, <1>4, <2>1 DEF HistType, Capped, FilesOf
<1>6. TimeInv'
  <2> SUFFICES ASSUME fault # "back", NEW x \in Series PROVE TimeOK(ring[x], open[x])'
    BY <1>1 DEF TimeInv
  <2>1. TimeOK(ring[x], open[x])
    BY DEF HistInv, TimeInv
  <2>2. CASE ring'[x] = NoRing
    BY <1>1, <1>3, <2>1, <2>2 DEF TimeOK
  <2>3. CASE ring'[x] = ring[x] /\ open'[x] = open[x]
    BY <1>1, <2>1, <2>3 DEF TimeOK
  <2> QED BY <1>3, <2>2, <2>3
<1>7. HoldsInv'
  <2> SUFFICES ASSUME NEW x \in Series, x \notin torn', ring'[x] # NoRing
               PROVE  HoldsOK(ring[x], open[x], got[x])'
    BY DEF HoldsInv, HoldsOK
  <2>1. ring'[x] = ring[x] /\ open'[x] = open[x] /\ x \notin torn /\ got'[x] = got[x]
    BY <1>3
  <2>2. HoldsOK(ring[x], open[x], got[x])
    BY <2>1 DEF HistInv, HoldsInv
  <2> QED BY <1>1, <2>1, <2>2 DEF HoldsOK, TierOK
<1>8. OpenInv'
  BY <1>3 DEF HistInv, OpenInv
<1> QED BY <1>5, <1>6, <1>7, <1>8 DEF HistInv

(* A minute passes.                                                        *)
LEMMA MinuteKeeps ==
    ASSUME HistInv, Minute
    PROVE  HistInv'
<1>1. clock \in Nat /\ clock' = clock + 1 /\ clock' \in 0 .. MaxTime /\ clock' \in Nat
      /\ UNCHANGED <<fault, open, ring, got, torn>>
  <2>1. clock \in 0 .. MaxTime /\ fault \in Fault /\ Minutes[fault] \in 0 .. MaxTime /\ MaxTime \in Nat
    BY HistoryBounds DEF HistInv, HistType
  <2> QED BY <2>1 DEF Minute
<1>2. HistType'
  BY <1>1 DEF HistInv, HistType, Capped, FilesOf
<1>3. ASSUME NEW t \in Tier PROVE Idx(t, clock) \in Nat /\ Idx(t, clock') \in Nat /\ Idx(t, clock) <= Idx(t, clock')
  <2>1. Idx(t, clock) \in Nat /\ Idx(t, clock') \in Nat
    BY <1>1, Indices
  <2>2. clock <= clock'
    BY <1>1
  <2> QED BY <1>1, <2>1, <2>2, Indices
<1>4. TimeInv'
  <2> SUFFICES ASSUME fault # "back", NEW x \in Series PROVE TimeOK(ring[x], open[x])'
    BY <1>1 DEF TimeInv
  <2>1. TimeOK(ring[x], open[x])
    BY DEF HistInv, TimeInv
  <2>2. open[x] # NoMinute => open[x].minute <= clock'
    <3>1. open[x] # NoMinute => open[x].minute \in 0 .. MaxTime
      BY DEF HistInv, HistType, OpenType, MinuteType
    <3> QED BY <1>1, <2>1, <3>1, Sizes DEF TimeOK
  <2>3. ASSUME ring[x] # NoRing, NEW t \in Tier PROVE ring[x].last[t] <= Idx(t, clock')
    <3>1. ring[x].last[t] \in Int
      BY <2>3 DEF HistInv, HistType, RingType, IsFile
    <3>2. ring[x].last[t] <= Idx(t, clock)
      BY <2>1, <2>3 DEF TimeOK
    <3> QED BY <1>3, <3>1, <3>2
  <2> QED BY <1>1, <2>1, <2>2, <2>3 DEF TimeOK
<1>5. HoldsInv'
  <2> SUFFICES ASSUME NEW x \in Series \ torn, ring[x] # NoRing, NEW t \in Tier
               PROVE  TierOK(ring[x], open[x], got[x], t)'
    BY <1>1 DEF HoldsInv, HoldsOK
  <2>1. TierOK(ring[x], open[x], got[x], t) /\ IsFile(ring[x])
    BY DEF HistInv, HistType, RingType, HoldsInv, HoldsOK
  <2>2. CASE fault \in CrashTimes
    <3>1. Loose(ring[x], t, Idx(t, clock))
      BY <2>1, <2>2 DEF TierOK
    <3>2. Idx(t, clock) \in Int /\ Idx(t, clock') \in Int /\ Idx(t, clock) <= Idx(t, clock')
      BY <1>3
    <3>3. Loose(ring[x], t, Idx(t, clock'))
      BY <2>1, <3>1, <3>2, LooseIsMonotone
    <3> QED BY <1>1, <2>1, <2>2, <3>3 DEF TierOK
  <2>3. CASE fault \notin CrashTimes
    BY <1>1, <2>1, <2>3 DEF TierOK
  <2> QED BY <2>2, <2>3
<1>6. OpenInv'
  BY <1>1 DEF HistInv, OpenInv
<1> QED BY <1>2, <1>4, <1>5, <1>6 DEF HistInv

(* The clock goes back: no write ended early then, so every file is tight. *)
LEMMA BackKeeps ==
    ASSUME HistInv, NEW m \in 0 .. MaxTime, ClockGoesBack(m)
    PROVE  HistInv'
<1>1. fault = "clock" /\ fault' = "back" /\ clock' = m /\ UNCHANGED <<open, ring, got, torn>>
  BY DEF ClockGoesBack
<1>2. HistType'
  BY <1>1 DEF HistInv, HistType, Capped, FilesOf, Fault
<1>3. TimeInv'
  BY <1>1 DEF TimeInv
<1>4. HoldsInv'
  <2> SUFFICES ASSUME NEW x \in Series \ torn, ring[x] # NoRing, NEW t \in Tier
               PROVE  TierOK(ring[x], open[x], got[x], t)'
    BY <1>1 DEF HoldsInv, HoldsOK
  <2>1. TierOK(ring[x], open[x], got[x], t)
    BY DEF HistInv, HoldsInv, HoldsOK
  <2>2. Own(ring[x], t, got[x]) /\ Tight(ring[x], t)
    BY <1>1, <2>1 DEF TierOK, CrashTimes
  <2> QED BY <1>1, <2>2 DEF TierOK, CrashTimes
<1>5. OpenInv'
  BY <1>1 DEF HistInv, OpenInv
<1> QED BY <1>2, <1>3, <1>4, <1>5 DEF HistInv

(* The invariant holds at the start and is kept by every step.             *)
LEMMA HistInvHolds == Spec => []HistInv
<1>1. Init => HistInv
  <2> SUFFICES ASSUME Init PROVE HistInv
    OBVIOUS
  <2>1. /\ clock = 0 /\ fault \in Faults /\ open = [x \in Series |-> NoMinute]
        /\ ring = [x \in Series |-> NoRing] /\ got = [x \in Series |-> [m \in 0 .. MaxTime |-> 0]]
    BY DEF Init, HistInit
  <2>2. Capped(ring)
    <3>1. FilesOf(ring) = {}
      BY <2>1 DEF FilesOf
    <3> QED BY <3>1, FS_EmptySet, HistoryBounds DEF Capped
  <2>3. HistType
    BY <2>1, <2>2, Sizes, FaultsAssumption DEF HistType, RingType, OpenType
  <2>4. TimeInv /\ HoldsInv /\ OpenInv
    BY <2>1 DEF TimeInv, TimeOK, HoldsInv, HoldsOK, OpenInv
  <2> QED BY <2>3, <2>4 DEF HistInv
<1>2. HistInv /\ [Next]_vars => HistInv'
  <2> SUFFICES ASSUME HistInv, [Next]_vars PROVE HistInv'
    OBVIOUS
  <2>1. CASE UNCHANGED histVars
    BY <2>1 DEF histVars, HistInv, HistType, Capped, FilesOf, TimeInv, TimeOK, HoldsInv, HoldsOK, TierOK, OpenInv
  <2>2. CASE \E q \in Orders, k \in Reached : Add(q, k)
    BY <2>2, AddKeeps
  <2>3. CASE \E q \in Orders, k \in Reached : Flush(q, k) \/ StopStart(q, k)
    BY <2>3, FlushKeeps
  <2>4. CASE Sweep \/ RemoveNode
    BY <2>4, RemovalKeeps
  <2>5. CASE Minute
    BY <2>5, MinuteKeeps
  <2>6. CASE \E m \in 0 .. MaxTime : ClockGoesBack(m)
    BY <2>6, BackKeeps
  <2>7. [x \in Series |-> Whole] \in Reached
    BY DEF Reached
  <2>8. \/ UNCHANGED histVars
        \/ \E q \in Orders, k \in Reached : Add(q, k)
        \/ \E q \in Orders, k \in Reached : Flush(q, k) \/ StopStart(q, k)
        \/ Sweep \/ RemoveNode \/ Minute
        \/ \E m \in 0 .. MaxTime : ClockGoesBack(m)
    BY <2>7 DEF Next, vars, OnSnapshot, OnHealthySnapshot
  <2> QED BY <2>1, <2>2, <2>3, <2>4, <2>5, <2>6, <2>8
<1> QED BY <1>1, <1>2, PTL DEF Spec

(* A node never has more files than its cap (admit, history.js 82-88), for *)
(* every number of series and whatever order they come in.                 *)
THEOREM FilesAreCapped == Spec => []SeriesCapped
<1>1. HistInv => SeriesCapped
  BY DEF HistInv, HistType, Capped, FilesOf, SeriesCapped, Files
<1> QED BY <1>1, HistInvHolds, PTL

(* What a query shows is of the time it is shown for: a turn behind would  *)
(* be out of the ring, and what a write left ahead of its index is out of  *)
(* the range that is asked for (query, history.js 211-245).                *)
THEOREM HistoryIsTrue == Spec => []ShownIsTrue
<1>1. HistInv => ShownIsTrue
  <2> SUFFICES ASSUME HistInv, NEW x \in Series \ torn, NEW t \in Tier, NEW i \in InRange(t),
                      NEW p \in Shown(x, t, i)
               PROVE  (IF t = 1 THEN p[1] ELSE Bucket(p[1])) = i /\ got[x][p[1]] > 0
    BY DEF ShownIsTrue
  <2>1. clock \in Nat /\ i \in Nat /\ i > End(t) - Size(t) /\ End(t) = Idx(t, clock) /\ End(t) \in Nat
    <3>1. clock \in Nat
      BY Sizes DEF HistInv, HistType
    <3>2. End(t) = Idx(t, clock) /\ End(t) \in Nat
      BY <3>1, Indices DEF End, Idx
    <3> QED BY <3>1, <3>2 DEF InRange
  <2>2. CASE t = 1 /\ open[x].minute = i
    <3>1. open[x] # NoMinute
      BY <2>1, <2>2 DEF NoMinute
    <3>2. p = <<i, open[x].n>> /\ got[x][i] > 0
      BY <2>2, <3>1 DEF Shown, HistInv, OpenInv
    <3> QED BY <2>2, <3>2
  <2>3. CASE ~(t = 1 /\ open[x].minute = i)
    <3> DEFINE f == ring[x]
               n == Size(t)
               l == f.last[t]
               v == Idx(t, p[1])
    <3>1. p \in OnDisk(x, t, i)
      BY <2>3 DEF Shown
    <3>2. f # NoRing /\ l >= 0 /\ i <= l /\ i > l - n /\ p \in f.at[t][i % n]
      BY <3>1 DEF OnDisk, Gap
    <3>3. IsFile(f) /\ TierOK(f, open[x], got[x], t)
      BY <3>2 DEF HistInv, HistType, RingType, HoldsInv, HoldsOK
    <3>4. i % n \in Slots(t) /\ n \in Nat \ {0} /\ l \in Int
      BY <2>1, <3>3, SlotOfIndex, Sizes DEF IsFile
    <3>5. v \in Nat
      BY <3>2, <3>3, <3>4, EntryIndex
    <3>6. v % n = i % n /\ got[x][p[1]] > 0
      BY <3>2, <3>3, <3>4 DEF TierOK, Own
    <3>7. v > l - n /\ (v <= l \/ v <= End(t))
      <4>1. CASE fault \in CrashTimes
        <5>1. Loose(f, t, End(t))
          BY <2>1, <3>3, <4>1 DEF TierOK
        <5> QED BY <3>2, <3>4, <5>1 DEF Loose
      <4>2. CASE fault \notin CrashTimes
        <5>1. Loose(f, t, -1)
          BY <3>3, <4>2 DEF TierOK, Tight
        <5>2. v > l - n /\ (v <= l \/ v <= -1)
          BY <3>2, <3>4, <5>1 DEF Loose
        <5> HIDE DEF v, l, n
        <5> QED BY <3>5, <5>2
      <4> QED BY <4>1, <4>2
    <3> HIDE DEF v, l, n
    <3>8. v - i < n /\ i - v < n
      BY <2>1, <3>2, <3>4, <3>5, <3>7 DEF n
    <3>9. v = i
      BY <2>1, <3>4, <3>5, <3>6, <3>8, SameSlot
    <3> QED BY <3>6, <3>9 DEF v, Idx
  <2> QED BY <2>2, <2>3
<1> QED BY <1>1, HistInvHolds, PTL

(* The sweep takes only what no query shows: the coarse index is never     *)
(* ahead of the fine one that the sweep looks at (history.js 260-276).     *)
THEOREM SweepIsSafe == Spec => SweepLosesNothing
<1>1. HistInv /\ [Next]_vars =>
        [outcome' = "swept" /\ fault # "back" =>
          \A x \in Series : ring'[x] # ring[x] =>
              \A t \in Tier : \A i \in InRange(t) : OnDisk(x, t, i) = Gap]_histVars
  <2> SUFFICES ASSUME HistInv, [Next]_vars, ~UNCHANGED histVars, outcome' = "swept", fault # "back",
                      NEW x \in Series, ring'[x] # ring[x], NEW t \in Tier, NEW i \in InRange(t),
                      OnDisk(x, t, i) # Gap
               PROVE  FALSE
    OBVIOUS
  <2>1. Sweep
    BY DEF Next, vars, OnSnapshot, OnHealthySnapshot, Add, Flush, StopStart, RemoveNode, Minute, ClockGoesBack
  <2> DEFINE f == ring[x]
             a == f.last[1]
             b == f.last[2]
  <2>2. f # NoRing /\ clock - a > Reach
    BY <2>1 DEF Sweep, Old
  <2>3. f.last[t] >= 0 /\ i <= f.last[t]
    BY <2>2 DEF OnDisk
  <2>4. IsFile(f) /\ clock \in Nat /\ a \in Int /\ b \in Int
    BY <2>2, Sizes DEF HistInv, HistType, RingType, IsFile, Tier
  <2>5. b >= 0 => a >= 0 /\ b <= Bucket(a)
    BY <2>2 DEF HistInv, TimeInv, TimeOK
  <2>6. Len1 \in Nat /\ Len2 \in Nat /\ Step \in Nat \ {0} /\ Len1 <= Reach /\ Reach = Step * Len2 /\ Reach \in Nat
    BY TiersAssumption DEF Reach
  <2>7. i \in Nat /\ i > End(t) - Size(t)
    <3>1. i \in 0 .. End(t) /\ End(t) \in Nat
      BY <2>4, Buckets DEF InRange, End
    <3> QED BY <3>1 DEF InRange
  <2>8. CASE t = 1
    <3>1. i <= a /\ i > clock - Len1
      BY <2>3, <2>7, <2>8 DEF End, Size
    <3> HIDE DEF a
    <3> QED BY <2>2, <2>4, <2>6, <2>7, <3>1
  <2>9. CASE t = 2
    <3> DEFINE u == Bucket(a)
               c == Bucket(clock)
    <3>1. i <= b /\ i > c - Len2 /\ b >= 0
      BY <2>3, <2>7, <2>9 DEF End, Size
    <3>2. a \in Nat /\ b <= u
      BY <2>4, <2>5, <3>1
    <3>3. u \in Nat /\ c \in Nat /\ u + Len2 <= c
      BY <2>2, <2>4, <3>2, Buckets, OutOfReach
    <3> HIDE DEF a, b, u, c
    <3> QED BY <2>4, <2>6, <2>7, <3>1, <3>2, <3>3
  <2> QED BY <2>8, <2>9 DEF Tier
<1> QED BY <1>1, HistInvHolds, PTL DEF Spec, SweepLosesNothing

-----------------------------------------------------------------------------
(* That nothing is missing.  A minute of a series is far when it is out of *)
(* every tier's reach, and held when the file has it wherever a tier goes  *)
(* back to it.                                                             *)
Far(m) == clock - m > Reach
Held(f, g, m) ==
    /\ f # NoRing /\ m <= f.last[1]
    /\ m > f.last[1] - Len1 => <<m, g[m]>> \in f.at[1][m % Len1]
    /\ Bucket(m) > f.last[2] - Len2 => <<m, g[m]>> \in f.at[2][Bucket(m) % Len2]

(* Every minute but the one in memory is held or far; that one has all its *)
(* samples; the tiers end together, and before the clock's minute if that  *)
(* is not in memory.                                                       *)
Full(f, o, g) ==
    /\ \A m \in 0 .. MaxTime : g[m] > 0 /\ m # o.minute => Far(m) \/ Held(f, g, m)
    /\ o # NoMinute => o.n = g[o.minute]
    /\ f # NoRing => /\ f.last[1] >= 0 /\ f.last[2] = Bucket(f.last[1])
                     /\ o = NoMinute => f.last[1] < clock
FullInv == fault = "none" => \A x \in Series : Full(ring[x], open[x], got[x])

(* A point that is written to its end (history.js 136-146).                *)
LEMMA PutDone ==
    ASSUME NEW f, IsFile(f), NEW t \in Tier, NEW i \in Nat, NEW p \in SUBSET PointType
    PROVE  LET h == Put(f, t, i, p)[3]
           IN  /\ IsFile(h) /\ h.last[t] = LastAfter(f, t, i)
               /\ \A v \in Tier \ {t} : h.last[v] = f.last[v] /\ h.at[v] = f.at[v]
               /\ \A s \in Slots(t) : h.at[t][s] = SlotAfter(f, t, i, p, s)
<1>1. 3 \in 1 .. 3 /\ 3 # 1
  OBVIOUS
<1> QED BY <1>1, PutIsExact

(* A write touches no other point that its tier still goes back to         *)
(* (history.js 136-146).                                                   *)
LEMMA PutKeeps ==
    ASSUME NEW f, IsFile(f), NEW t \in Tier, NEW i \in Nat, NEW p \in SUBSET PointType,
           NEW v \in Nat, f.last[t] <= i, v <= f.last[t], v > i - Size(t), v # i
    PROVE  Put(f, t, i, p)[3].at[t][v % Size(t)] = f.at[t][v % Size(t)]
<1> DEFINE n == Size(t)
           l == f.last[t]
           s == v % n
<1>1. n \in Nat \ {0} /\ l \in Int /\ s \in Slots(t)
  BY Sizes, SlotOfIndex DEF IsFile
<1>2. Put(f, t, i, p)[3].at[t][s] = SlotAfter(f, t, i, p, s)
  <2>1. 3 \in 1 .. 3
    OBVIOUS
  <2> QED BY <1>1, <2>1, PutIsExact
<1>3. s # i % n
  <2> SUFFICES ASSUME v % n = i % n PROVE FALSE
    OBVIOUS
  <2> HIDE DEF n, l
  <2>1. v - i < n /\ i - v < n /\ v \in Int /\ i \in Int
    BY <1>1 DEF n, l
  <2>2. v = i
    BY <1>1, <2>1, SameSlot
  <2> QED BY <2>2
<1>4. s \notin Gone(f, t, i)
  <2>1. ~StartsOver(f, t, i) /\ l >= 0
    BY <1>1 DEF StartsOver
  <2>2. CASE i > l + 1
    <3>1. Gone(f, t, i) = {k % n : k \in l + 1 .. i - 1}
      BY <2>1, <2>2, GoneIs
    <3>2. ASSUME NEW k \in l + 1 .. i - 1, k % n = v % n PROVE FALSE
      <4>1. v <= l /\ v > i - n
        OBVIOUS
      <4> HIDE DEF n, l
      <4>2. k \in Int /\ v \in Int /\ k - v < n /\ v - k < n /\ k # v
        BY <1>1, <3>2, <4>1
      <4>3. k = v
        BY <1>1, <3>2, <4>2, SameSlot
      <4> QED BY <4>2, <4>3
    <3> HIDE DEF n, l
    <3> QED BY <3>1, <3>2
  <2>3. CASE i <= l + 1
    BY <2>1, <2>3, GoneIs
  <2> HIDE DEF l
  <2> QED BY <1>1, <2>2, <2>3
<1> QED BY <1>2, <1>3, <1>4 DEF SlotAfter

(* A whole write of the latest minute holds it and all that was held       *)
(* (history.js 148-171).                                                   *)
LEMMA WriteHolds ==
    ASSUME NEW e, IsFile(e), NEW cur \in MinuteType, NEW g \in [0 .. MaxTime -> Nat], cur.n = g[cur.minute],
           e.last[1] <= cur.minute, e.last[2] <= Bucket(cur.minute),
           e.last[1] >= 0 => e.last[2] = Bucket(e.last[1]),
           NEW m \in 0 .. MaxTime, m = cur.minute \/ Held(e, g, m)
    PROVE  LET h == Stages(e, cur)[Whole]
           IN  h.last[1] = cur.minute /\ h.last[2] = Bucket(cur.minute) /\ Held(h, g, m)
<1> DEFINE i == cur.minute
           c == FineDone(e, cur)
           h == Stages(e, cur)[Whole]
           q == Coarse(c, i)
           pt == <<m, g[m]>>
<1>1. i \in 0 .. MaxTime /\ i \in Nat /\ m \in Nat /\ g[m] \in Nat /\ Bucket(i) \in Nat /\ Bucket(m) \in Nat
  <2>1. i \in 0 .. MaxTime
    BY DEF MinuteType
  <2>2. i \in Nat /\ m \in Nat
    BY <2>1, Sizes
  <2> QED BY <2>1, <2>2, Buckets
<1>2. 1 \in Tier /\ 2 \in Tier /\ Size(1) = Len1 /\ Size(2) = Len2 /\ Len1 \in Nat \ {0} /\ Len2 \in Nat \ {0}
      /\ Step \in Nat \ {0} /\ Step <= Len1 /\ 3 \in 1 .. 3 /\ e.last[1] \in Int /\ e.last[2] \in Int
  BY Sizes DEF Tier, Size, IsFile
<1>3. /\ IsFile(h) /\ h # NoRing
      /\ h.last[1] = LastAfter(e, 1, i) /\ h.last[2] = LastAfter(e, 2, Bucket(i)) /\ h.at[1] = c.at[1]
  <2>1. Whole \in 1 .. Whole /\ ~(Whole < 4) /\ ~(Whole < 7) /\ Whole >= 4
    BY DEF Whole
  <2> QED BY <2>1, StageIndices, FileIsThere
<1>4. h.last[1] = i /\ h.last[2] = Bucket(i)
  <2>1. LastAfter(e, 1, i) = i
    BY <1>1, <1>2 DEF LastAfter
  <2>2. LastAfter(e, 2, Bucket(i)) = Bucket(i)
    BY <1>1, <1>2 DEF LastAfter
  <2> QED BY <1>3, <2>1, <2>2
<1>5. FinePoint(cur) \in SUBSET PointType
  <2>1. cur.n \in Nat
    BY DEF MinuteType
  <2> QED BY <1>1, <2>1 DEF FinePoint, PointType
<1>6. /\ IsFile(c) /\ c.last[1] = i /\ c.last[2] = e.last[2] /\ c.at[2] = e.at[2]
      /\ \A s \in Slots(1) : c.at[1][s] = SlotAfter(e, 1, i, FinePoint(cur), s)
  <2>1. 2 \in Tier \ {1} /\ LastAfter(e, 1, i) = i
    BY <1>1, <1>2 DEF Tier, LastAfter
  <2> DEFINE w == Put(e, 1, i, FinePoint(cur))[3]
  <2>2. /\ IsFile(w) /\ (\A v \in Tier \ {1} : w.last[v] = e.last[v] /\ w.at[v] = e.at[v])
        /\ w.last[1] = LastAfter(e, 1, i)
        /\ \A s \in Slots(1) : w.at[1][s] = SlotAfter(e, 1, i, FinePoint(cur), s)
    <3>1. IsFile(e) /\ 1 \in Tier /\ i \in Nat /\ FinePoint(cur) \in SUBSET PointType
      BY <1>1, <1>2, <1>5
    <3> HIDE DEF i
    <3> QED BY ONLY <3>1, PutDone
  <2>3. c = w
    BY DEF FineDone
  <2> HIDE DEF w, c
  <2> QED BY <2>1, <2>2, <2>3
<1>7. m <= i
  BY <1>1, <1>2 DEF Held
<1>8. m > i - Len1 => pt \in c.at[1][m % Len1]
  <2> SUFFICES ASSUME m > i - Len1 PROVE pt \in c.at[1][m % Len1]
    OBVIOUS
  <2>1. CASE m = i
    <3>1. i % Size(1) \in Slots(1)
      <4>1. i \in Int
        BY <1>1
      <4> QED BY <1>2, <4>1, SlotOfIndex
    <3>2. c.at[1][i % Len1] = FinePoint(cur)
      BY <1>2, <1>6, <3>1 DEF SlotAfter
    <3> QED BY <2>1, <3>2 DEF FinePoint
  <2>2. CASE m # i
    <3>1. m <= e.last[1] /\ (m > e.last[1] - Len1 => pt \in e.at[1][m % Len1])
      BY <2>2 DEF Held
    <3>2. m > e.last[1] - Len1
      BY <1>1, <1>2
    <3>3. c.at[1][m % Len1] = e.at[1][m % Len1]
      <4>1. /\ i \in Nat /\ m \in Nat /\ m > i - Size(1) /\ m # i /\ 1 \in Tier
            /\ FinePoint(cur) \in SUBSET PointType
        BY <1>1, <1>2, <1>5, <2>2
      <4>2. Put(e, 1, i, FinePoint(cur))[3].at[1][m % Size(1)] = e.at[1][m % Size(1)]
        BY <3>1, <4>1, PutKeeps
      <4> QED BY <1>2, <4>2 DEF FineDone
    <3> QED BY <3>1, <3>2, <3>3
  <2> QED BY <2>1, <2>2
<1>9. q \in SUBSET PointType
  <2> SUFFICES ASSUME NEW d \in q PROVE d \in PointType
    OBVIOUS
  <2>1. PICK j \in Bucket(i) * Step .. (Bucket(i) + 1) * Step - 1 : d \in c.at[1][j % Len1]
    BY DEF Coarse
  <2>2. j % Len1 \in Slots(1)
    <3>1. j \in Int
      BY <1>1, <1>2, <2>1
    <3> QED BY <1>2, <3>1, SlotOfIndex
  <2> QED BY <1>2, <1>6, <2>1, <2>2, EntryIndex
<1>10. h = Put(c, 2, Bucket(i), q)[3]
  <2>1. Stages(e, cur)[4 + 3] = Put(c, 2, Bucket(i), q)[3]
    BY <1>2, StagesAre DEF FineDone
  <2> QED BY <2>1 DEF Whole
<1>11. Bucket(m) > Bucket(i) - Len2 => pt \in h.at[2][Bucket(m) % Len2]
  <2> SUFFICES ASSUME Bucket(m) > Bucket(i) - Len2 PROVE pt \in h.at[2][Bucket(m) % Len2]
    OBVIOUS
  <2>1. Bucket(m) <= Bucket(i)
    BY <1>1, <1>7, BucketsInOrder
  <2>2. CASE Bucket(m) = Bucket(i)
    <3> DEFINE b == Bucket(i)
    <3>1. b * Step <= m /\ m < (b + 1) * Step /\ i < (b + 1) * Step
      BY <1>1, <2>2, Buckets
    <3> HIDE DEF b
    <3>2. b \in Nat
      BY <1>1 DEF b
    <3>3. b * Step \in Nat /\ (b + 1) * Step \in Nat /\ (b + 1) * Step = b * Step + Step
      BY <1>2, <3>2
    <3>4. m \in b * Step .. (b + 1) * Step - 1 /\ m > i - Len1
      BY <1>1, <1>2, <3>1, <3>3
    <3>5. pt \in c.at[1][m % Len1] /\ m <= c.last[1] /\ m > c.last[1] - Len1
      BY <1>6, <1>7, <1>8, <3>4
    <3>6. pt \in q
      <4> HIDE DEF c
      <4> QED BY <3>4, <3>5 DEF Coarse, b
    <3>7. h.at[2][Bucket(i) % Len2] = q
      <4>1. Bucket(i) % Len2 \in Slots(2)
        BY <1>1, <1>2, SlotOfIndex
      <4>2. h.at[2][Bucket(i) % Len2] = SlotAfter(c, 2, Bucket(i), q, Bucket(i) % Len2)
        <5> DEFINE w == Put(c, 2, Bucket(i), q)[3]
        <5>1. \A s \in Slots(2) : w.at[2][s] = SlotAfter(c, 2, Bucket(i), q, s)
          <6> HIDE DEF c, q
          <6> QED BY <1>1, <1>2, <1>6, <1>9, PutDone
        <5> HIDE DEF w, h, q, c
        <5>2. h = w
          BY <1>10 DEF w
        <5> QED BY <4>1, <5>1, <5>2
      <4> QED BY <1>2, <4>2 DEF SlotAfter
    <3> QED BY <2>2, <3>6, <3>7
  <2>3. CASE Bucket(m) # Bucket(i)
    <3>1. m # i /\ Held(e, g, m)
      BY <2>3
    <3>2. m <= e.last[1] /\ (Bucket(m) > e.last[2] - Len2 => pt \in e.at[2][Bucket(m) % Len2])
      BY <3>1 DEF Held
    <3>3. e.last[1] \in Nat /\ e.last[2] = Bucket(e.last[1])
      BY <1>1, <1>2, <3>2
    <3>4. Bucket(m) <= e.last[2]
      BY <1>1, <3>2, <3>3, BucketsInOrder
    <3>5. Bucket(m) > e.last[2] - Len2
      BY <1>1, <1>2
    <3>6. h.at[2][Bucket(m) % Len2] = c.at[2][Bucket(m) % Len2]
      <4>1. c.last[2] <= Bucket(i) /\ Bucket(m) <= c.last[2]
        BY <1>6, <3>4
      <4> HIDE DEF c, q, h
      <4>2. /\ Bucket(m) > Bucket(i) - Size(2) /\ Bucket(m) \in Nat /\ Bucket(i) \in Nat
            /\ Bucket(m) # Bucket(i) /\ 2 \in Tier /\ IsFile(c) /\ q \in SUBSET PointType
        BY <1>1, <1>2, <1>6, <1>9, <2>3
      <4>3. Put(c, 2, Bucket(i), q)[3].at[2][Bucket(m) % Size(2)] = c.at[2][Bucket(m) % Size(2)]
        BY <4>1, <4>2, PutKeeps
      <4> QED BY <1>2, <1>10, <4>3
    <3> QED BY <1>6, <3>2, <3>5, <3>6
  <2> QED BY <2>2, <2>3
<1> HIDE DEF h, c
<1>12. Held(h, g, m)
  BY <1>3, <1>4, <1>7, <1>8, <1>11 DEF Held
<1> QED BY <1>4, <1>12 DEF h

(* What becomes of the samples of a series: those of one that is not kept  *)
(* go, and a sample that is added is one more of the clock's minute.       *)
SamplesAfter(added, h, o, g, g2) ==
    IF h = NoRing /\ o = NoMinute THEN \A m \in 0 .. MaxTime : g2[m] = 0
    ELSE g2 = IF added /\ o # NoMinute THEN [g EXCEPT ![clock] = @ + 1] ELSE g

(* The minute in memory is written: everything is held or far.             *)
LEMMA WrittenHolds ==
    ASSUME clock \in 0 .. MaxTime, NEW f, RingType(f), NEW o \in MinuteType, NEW g \in [0 .. MaxTime -> Nat],
           Full(f, o, g), TimeOK(f, o), NEW h, Written(f, o, Whole, h)
    PROVE  /\ IsFile(h) /\ h # NoRing /\ h.last[1] = o.minute /\ h.last[2] = Bucket(o.minute)
           /\ \A m \in 0 .. MaxTime : g[m] > 0 => Far(m) \/ Held(h, g, m)
<1> DEFINE e == IF f = NoRing THEN Fresh ELSE f
<1>1. IsFile(e) /\ \A t \in Tier : e.last[t] <= Idx(t, o.minute)
  BY StartOfWrite
<1>2. o.minute \in 0 .. MaxTime /\ o.minute \in Nat /\ o # NoMinute /\ Bucket(o.minute) \in Nat
  <2>1. o.minute \in 0 .. MaxTime /\ o.minute \in Nat /\ o # NoMinute
    BY Sizes DEF MinuteType, NoMinute
  <2> QED BY <2>1, Buckets
<1>3. e.last[1] <= o.minute /\ e.last[2] <= Bucket(o.minute)
  <2>1. 1 \in Tier /\ 2 \in Tier /\ Idx(1, o.minute) = o.minute /\ Idx(2, o.minute) = Bucket(o.minute)
    BY DEF Tier, Idx
  <2> QED BY <1>1, <2>1
<1>4. e.last[1] >= 0 => e.last[2] = Bucket(e.last[1])
  <2>1. CASE f = NoRing
    <3>1. Fresh.last[1] = -1
      BY FreshIsFile DEF Tier
    <3> QED BY <2>1, <3>1
  <2>2. CASE f # NoRing
    BY <2>2 DEF Full
  <2> QED BY <2>1, <2>2
<1>5. o.n = g[o.minute]
  BY <1>2 DEF Full
<1>6. h = Stages(e, o)[Whole]
  BY DEF Written
<1>7. ASSUME NEW m \in 0 .. MaxTime, m = o.minute \/ Held(e, g, m)
      PROVE  h.last[1] = o.minute /\ h.last[2] = Bucket(o.minute) /\ Held(h, g, m)
  <2> HIDE DEF e
  <2> QED BY <1>1, <1>3, <1>4, <1>5, <1>6, <1>7, WriteHolds
<1>8. h.last[1] = o.minute /\ h.last[2] = Bucket(o.minute)
  BY <1>2, <1>7
<1>9. IsFile(h)
  <2>1. Whole \in 1 .. Whole
    BY DEF Whole
  <2> HIDE DEF e
  <2> QED BY <1>1, <1>6, <2>1, StageIndices
<1>10. ASSUME NEW m \in 0 .. MaxTime, g[m] > 0, ~Far(m) PROVE Held(h, g, m)
  <2>1. m = o.minute \/ Held(f, g, m)
    BY <1>10 DEF Full
  <2>2. Held(f, g, m) => f # NoRing
    BY DEF Held
  <2> QED BY <1>7, <2>1, <2>2
<1> QED BY <1>8, <1>9, <1>10, FileIsThere

(* One step of a loop leaves nothing of its series out: add opens a minute *)
(* that no tier has yet, and flush lets go of one that is written          *)
(* (history.js 187-210).                                                   *)
LEMMA StepFills ==
    ASSUME HistInv, FullInv, fault = "none", NEW x \in Series, NEW add \in BOOLEAN, NEW k \in Reached, NEW h, NEW o,
           add \/ open[x] # NoMinute, StepTo(add, x, k, h, o),
           NEW g2, SamplesAfter(add, h, o, got[x], g2)
    PROVE  Full(h, o, g2)
<1> DEFINE f == ring[x]
           cur == open[x]
           g == got[x]
           new == [minute |-> clock, n |-> 1]
<1>1. /\ clock \in 0 .. MaxTime /\ clock \in Nat /\ RingType(f) /\ OpenType(cur) /\ TimeOK(f, cur)
      /\ g \in [0 .. MaxTime -> Nat]
  BY Sizes DEF HistInv, HistType, TimeInv
<1>2. Full(f, cur, g)
  BY DEF FullInv
<1>3. k[x] = Whole
  BY ReachedEnds DEF MayEnd
<1>4. Reach \in Nat /\ ~Far(clock)
  <2>1. Reach \in Nat
    BY TiersAssumption DEF Reach
  <2> QED BY <1>1, <2>1 DEF Far
<1> HIDE DEF f, cur, g
<1>5. ASSUME cur # NoMinute, Written(f, cur, Whole, h)
      PROVE  /\ IsFile(h) /\ h # NoRing /\ h.last[1] = cur.minute /\ h.last[2] = Bucket(cur.minute)
             /\ cur.minute \in Nat /\ cur.minute <= clock
             /\ \A m \in 0 .. MaxTime : g[m] > 0 => Far(m) \/ Held(h, g, m)
  <2>1. cur \in MinuteType
    BY <1>1, <1>5 DEF OpenType
  <2>2. cur.minute \in Nat /\ cur.minute <= clock
    <3>1. cur.minute \in 0 .. MaxTime
      BY <2>1 DEF MinuteType
    <3> QED BY <1>1, <1>5, <3>1, Sizes DEF TimeOK
  <2> QED BY <1>1, <1>2, <1>5, <2>1, <2>2, WrittenHolds
<1>6. ASSUME h = NoRing, o = NoMinute PROVE Full(h, o, g2)
  <2>1. \A m \in 0 .. MaxTime : g2[m] = 0
    BY <1>6 DEF SamplesAfter
  <2> QED BY <1>6, <2>1 DEF Full
<1>7. ASSUME NEW b \in [0 .. MaxTime -> Nat], b = [g EXCEPT ![clock] = @ + 1], NEW m \in 0 .. MaxTime, m # clock, Held(h, g, m)
      PROVE  Held(h, b, m)
  <2>1. b[m] = g[m]
    BY <1>1, <1>7
  <2> QED BY <1>7, <2>1 DEF Held
<1>8. ASSUME add, o # NoMinute
      PROVE  /\ g2 \in [0 .. MaxTime -> Nat] /\ g2 = [g EXCEPT ![clock] = @ + 1]
             /\ g2[clock] = g[clock] + 1 /\ \A m \in 0 .. MaxTime : m # clock => g2[m] = g[m]
  <2>1. g2 = [g EXCEPT ![clock] = @ + 1]
    BY <1>8 DEF SamplesAfter, g
  <2> QED BY <1>1, <2>1
<1>9. new.minute = clock /\ new.n = 1 /\ new # NoMinute
  BY <1>1 DEF NoMinute
<1>10. ASSUME add, o = new, g[clock] = 0,
              \A m \in 0 .. MaxTime : g[m] > 0 => Far(m) \/ Held(h, g, m),
              h # NoRing => h.last[1] >= 0 /\ h.last[2] = Bucket(h.last[1])
       PROVE  Full(h, o, g2)
  <2> HIDE DEF new
  <2>1. /\ g2 \in [0 .. MaxTime -> Nat] /\ g2 = [g EXCEPT ![clock] = @ + 1]
        /\ g2[clock] = g[clock] + 1 /\ \A m \in 0 .. MaxTime : m # clock => g2[m] = g[m]
    BY <1>8, <1>9, <1>10
  <2>2. ASSUME NEW m \in 0 .. MaxTime, g2[m] > 0, m # clock PROVE Far(m) \/ Held(h, g2, m)
    <3>1. Far(m) \/ Held(h, g, m)
      BY <1>10, <2>1, <2>2
    <3> QED BY <1>7, <2>1, <2>2, <3>1
  <2>3. o.n = g2[o.minute]
    BY <1>9, <1>10, <2>1
  <2> QED BY <1>9, <1>10, <2>2, <2>3 DEF Full
<1>11. CASE add
  <2>1. AddTo(x, k, h, o)
    BY <1>11 DEF StepTo
  <2>2. CASE cur # NoMinute /\ cur.minute # clock /\ Refused(f, h) /\ o = NoMinute
    BY <1>6, <2>2 DEF Refused
  <2>3. CASE cur # NoMinute /\ cur.minute # clock /\ Written(f, cur, k[x], h) /\ Opens(h, o)
    <3>1. /\ IsFile(h) /\ h # NoRing /\ h.last[1] = cur.minute /\ h.last[2] = Bucket(cur.minute)
          /\ cur.minute \in Nat /\ cur.minute <= clock
          /\ \A m \in 0 .. MaxTime : g[m] > 0 => Far(m) \/ Held(h, g, m)
      BY <1>3, <1>5, <2>3
    <3>2. o = new
      BY <2>3, <3>1 DEF Opens
    <3>3. ~(clock <= h.last[1])
      BY <1>1, <2>3, <3>1
    <3>4. g[clock] = 0
      <4>1. ~Held(h, g, clock)
        BY <3>3 DEF Held
      <4> QED BY <1>1, <1>4, <3>1, <4>1
    <3>5. h # NoRing => h.last[1] >= 0 /\ h.last[2] = Bucket(h.last[1])
      BY <3>1
    <3> QED BY <1>10, <1>11, <3>1, <3>2, <3>4, <3>5
  <2>4. CASE cur = NoMinute /\ h = f /\ Opens(h, o)
    <3>1. CASE o = NoMinute /\ h = NoRing
      BY <1>6, <3>1
    <3>2. CASE o = new
      <4>1. \A m \in 0 .. MaxTime : g[m] > 0 => Far(m) \/ Held(f, g, m)
        <5>1. \A m \in 0 .. MaxTime : m # cur.minute
          BY <2>4 DEF NoMinute
        <5> QED BY <1>2, <5>1 DEF Full
      <4>2. g[clock] = 0
        <5>1. f # NoRing => f.last[1] \in Int /\ f.last[1] < clock
          BY <1>1, <1>2, <2>4 DEF Full, RingType, IsFile, Tier
        <5>2. ~Held(f, g, clock)
          BY <1>1, <5>1 DEF Held
        <5> QED BY <1>1, <1>4, <4>1, <5>2
      <4>3. f # NoRing => f.last[1] >= 0 /\ f.last[2] = Bucket(f.last[1])
        BY <1>2 DEF Full
      <4> QED BY <1>10, <1>11, <2>4, <3>2, <4>1, <4>2, <4>3
    <3> QED BY <2>4, <3>1, <3>2 DEF Opens
  <2>5. CASE cur # NoMinute /\ cur.minute = clock /\ h = f /\ o = [cur EXCEPT !.n = @ + 1]
    <3>1. cur \in MinuteType
      BY <1>1, <2>5 DEF OpenType
    <3>2. o.minute = clock /\ o.n = cur.n + 1 /\ o # NoMinute
      <4>1. o.minute = clock /\ o.n = cur.n + 1
        BY <2>5, <3>1 DEF MinuteType
      <4> QED BY <1>1, <4>1 DEF NoMinute
    <3>3. /\ g2 \in [0 .. MaxTime -> Nat] /\ g2 = [g EXCEPT ![clock] = @ + 1]
          /\ g2[clock] = g[clock] + 1 /\ \A m \in 0 .. MaxTime : m # clock => g2[m] = g[m]
      BY <1>8, <1>11, <3>2
    <3>4. cur.n = g[clock]
      BY <1>2, <2>5 DEF Full
    <3>5. ASSUME NEW m \in 0 .. MaxTime, g2[m] > 0, m # clock PROVE Far(m) \/ Held(h, g2, m)
      <4>1. Far(m) \/ Held(h, g, m)
        BY <1>2, <2>5, <3>3, <3>5 DEF Full
      <4> QED BY <1>7, <3>3, <3>5, <4>1
    <3>6. f # NoRing => f.last[1] >= 0 /\ f.last[2] = Bucket(f.last[1])
      BY <1>2 DEF Full
    <3> QED BY <2>5, <3>2, <3>3, <3>4, <3>5, <3>6 DEF Full
  <2>6. \/ cur # NoMinute /\ cur.minute # clock /\ Refused(f, h) /\ o = NoMinute
        \/ cur # NoMinute /\ cur.minute # clock /\ Written(f, cur, k[x], h) /\ Opens(h, o)
        \/ cur = NoMinute /\ h = f /\ Opens(h, o)
        \/ cur # NoMinute /\ cur.minute = clock /\ h = f /\ o = [cur EXCEPT !.n = @ + 1]
    BY <2>1 DEF AddTo, f, cur
  <2> QED BY <2>2, <2>3, <2>4, <2>5, <2>6
<1>12. CASE ~add
  <2>1. WriteOf(f, cur, Whole, h) /\ o = (IF cur.minute < clock THEN NoMinute ELSE cur) /\ cur # NoMinute
    BY <1>3, <1>12 DEF StepTo, FlushTo, f, cur
  <2>2. h # NoRing \/ o # NoMinute => g2 = g
    BY <1>12 DEF SamplesAfter, g
  <2>3. CASE h = NoRing /\ o = NoMinute
    BY <1>6, <2>3
  <2>4. CASE Refused(f, h) /\ o # NoMinute
    BY <1>2, <2>1, <2>2, <2>4 DEF Refused
  <2>5. CASE Written(f, cur, Whole, h)
    <3>1. /\ IsFile(h) /\ h # NoRing /\ h.last[1] = cur.minute /\ h.last[2] = Bucket(cur.minute)
          /\ cur.minute \in Nat /\ cur.minute <= clock
          /\ \A m \in 0 .. MaxTime : g[m] > 0 => Far(m) \/ Held(h, g, m)
      BY <1>5, <2>1, <2>5
    <3>2. o # NoMinute => o = cur /\ o.n = g[o.minute]
      BY <1>2, <2>1 DEF Full
    <3>3. o = NoMinute => cur.minute < clock
      BY <2>1
    <3>4. g2 = g
      BY <2>2, <3>1
    <3> QED BY <3>1, <3>2, <3>3, <3>4 DEF Full
  <2> QED BY <2>1, <2>3, <2>4, <2>5 DEF WriteOf, Refused
<1> QED BY <1>11, <1>12

(* Both loops leave nothing out, of any series.                            *)
LEMMA LoopFills ==
    ASSUME HistInv, FullInv, NEW add \in BOOLEAN, NEW q \in Orders, NEW k \in Reached,
           add \/ Range(q) \subseteq Opened,
           ring' = Looped(add, q, k).ring, open' = Looped(add, q, k).open, clock' = clock, fault' = fault,
           \A x \in Series : SamplesAfter(add /\ x \in Range(q), ring'[x], open'[x], got[x], got'[x])
    PROVE  FullInv'
<1> DEFINE st == Looped(add, q, k)
<1>1. /\ StType(st)
      /\ \A x \in Series : IF x \in Range(q) THEN StepTo(add, x, k, st.ring[x], st.open[x])
                           ELSE st.ring[x] = ring[x] /\ st.open[x] = open[x]
  <2>1. StType(Now)
    BY DEF StType, Now, HistInv, HistType
  <2> QED BY <2>1, LoopDoes DEF Looped
<1>2. ring' = st.ring /\ open' = st.open
  OBVIOUS
<1> HIDE DEF st
<1> SUFFICES ASSUME fault' = "none", NEW x \in Series PROVE Full(ring[x], open[x], got[x])'
  BY DEF FullInv
<1> DEFINE h == ring'[x]
           o == open'[x]
           g2 == got'[x]
<1>3. Full(h, o, g2)
  <2>1. SamplesAfter(add /\ x \in Range(q), h, o, got[x], g2)
    OBVIOUS
  <2>2. CASE x \in Range(q)
    <3>1. StepTo(add, x, k, h, o) /\ SamplesAfter(add, h, o, got[x], g2)
      BY <1>1, <1>2, <2>1, <2>2
    <3>2. add \/ open[x] # NoMinute
      BY <2>2 DEF Opened
    <3> HIDE DEF h, o, g2
    <3> QED BY <3>1, <3>2, StepFills
  <2>3. CASE x \notin Range(q)
    <3>1. h = ring[x] /\ o = open[x]
      BY <1>1, <1>2, <2>3
    <3> HIDE DEF h, o, g2
    <3>2. Full(h, o, got[x])
      BY <3>1 DEF FullInv
    <3>3. CASE h = NoRing /\ o = NoMinute
      <4>1. \A m \in 0 .. MaxTime : g2[m] = 0
        BY <2>1, <3>3 DEF SamplesAfter
      <4> QED BY <3>3, <4>1 DEF Full
    <3>4. CASE ~(h = NoRing /\ o = NoMinute)
      <4>1. g2 = got[x]
        BY <2>1, <2>3, <3>4 DEF SamplesAfter
      <4> QED BY <3>2, <4>1
    <3> QED BY <3>3, <3>4
  <2> QED BY <2>2, <2>3
<1> QED BY <1>3 DEF Full, Far, Held

(* A series that is not kept has no samples any more.                      *)
LEMMA KeptFills ==
    ASSUME got \in [Series -> [0 .. MaxTime -> Nat]], NEW st, NEW x \in Series
    PROVE  SamplesAfter(FALSE, st.ring[x], st.open[x], got[x], Kept(st)[x])
  BY DEF SamplesAfter, Kept

(* add leaves nothing out.                                                 *)
LEMMA AddFills ==
    ASSUME HistInv, FullInv, fault' = "none", NEW q \in Orders, NEW k \in Reached, Add(q, k)
    PROVE  FullInv'
<1> DEFINE st == Looped(TRUE, q, k)
<1>1. st = FoldLeft(LAMBDA acc, x : AddOne(acc, x, k), Now, q)
  BY DEF Looped, Folded
<1>2. /\ ring' = st.ring /\ open' = st.open /\ fault' = Once(k) /\ clock' = clock
      /\ got' = [x \in Series |-> IF x \in Range(q) /\ st.open[x] # NoMinute
                                  THEN [Kept(st)[x] EXCEPT ![clock] = @ + 1] ELSE Kept(st)[x]]
  BY <1>1, Zenon DEF Add
<1>3. fault' = fault
  BY <1>2, OnceIs DEF CrashTimes
<1> HIDE DEF st
<1>4. got \in [Series -> [0 .. MaxTime -> Nat]]
  BY DEF HistInv, HistType
<1>5. ASSUME NEW x \in Series
      PROVE  SamplesAfter(TRUE /\ x \in Range(q), ring'[x], open'[x], got[x], got'[x])
  <2>1. SamplesAfter(FALSE, st.ring[x], st.open[x], got[x], Kept(st)[x])
    BY <1>4, KeptFills
  <2>2. got'[x] = IF x \in Range(q) /\ st.open[x] # NoMinute
                  THEN [Kept(st)[x] EXCEPT ![clock] = @ + 1] ELSE Kept(st)[x]
    BY <1>2
  <2> DEFINE w == Kept(st)[x]
  <2> HIDE DEF w
  <2>3. /\ SamplesAfter(FALSE, st.ring[x], st.open[x], got[x], w)
        /\ got'[x] = IF x \in Range(q) /\ st.open[x] # NoMinute THEN [w EXCEPT ![clock] = @ + 1] ELSE w
    BY <2>1, <2>2 DEF w
  <2>4. SamplesAfter(TRUE /\ x \in Range(q), st.ring[x], st.open[x], got[x], got'[x])
    BY <2>3 DEF SamplesAfter
  <2> QED BY <1>2, <2>4
<1>6. /\ ring' = Looped(TRUE, q, k).ring /\ open' = Looped(TRUE, q, k).open /\ clock' = clock /\ fault' = fault
  BY <1>2, <1>3 DEF st
<1> QED BY <1>5, <1>6, LoopFills

(* flush leaves nothing out.                                               *)
LEMMA FlushFills ==
    ASSUME HistInv, FullInv, fault' = "none", NEW q \in Orders, NEW k \in Reached, Flush(q, k) \/ StopStart(q, k)
    PROVE  FullInv'
<1> DEFINE st == Looped(FALSE, q, k)
<1>1. st = Flushed(q, k)
  BY DEF Looped, Folded, Flushed
<1>2. /\ ring' = st.ring /\ open' = st.open /\ fault' = Once(k) /\ clock' = clock /\ got' = Kept(st)
      /\ Range(q) \subseteq Opened
  <2>1. ~StopStart(q, k)
    BY DEF StopStart
  <2> QED BY <1>1, <2>1, Zenon DEF Flush
<1>3. fault' = fault
  BY <1>2, OnceIs DEF CrashTimes
<1> HIDE DEF st
<1>4. got \in [Series -> [0 .. MaxTime -> Nat]]
  BY DEF HistInv, HistType
<1>5. ASSUME NEW x \in Series
      PROVE  SamplesAfter(FALSE /\ x \in Range(q), ring'[x], open'[x], got[x], got'[x])
  <2>1. SamplesAfter(FALSE, st.ring[x], st.open[x], got[x], Kept(st)[x])
    BY <1>4, KeptFills
  <2>2. (FALSE /\ x \in Range(q)) = FALSE
    OBVIOUS
  <2> QED BY <1>2, <2>1, <2>2
<1>6. /\ ring' = Looped(FALSE, q, k).ring /\ open' = Looped(FALSE, q, k).open /\ clock' = clock /\ fault' = fault
  BY <1>2, <1>3 DEF st
<1> QED BY <1>2, <1>5, <1>6, LoopFills

(* What the sweep takes is far, and a removed node has nothing.            *)
LEMMA RemovalFills ==
    ASSUME HistInv, FullInv, Sweep \/ RemoveNode
    PROVE  FullInv'
<1>1. clock \in Nat /\ clock' = clock /\ fault' = fault /\ got \in [Series -> [0 .. MaxTime -> Nat]]
  BY Sizes DEF HistInv, HistType, Sweep, RemoveNode
<1> SUFFICES ASSUME fault = "none", NEW x \in Series PROVE Full(ring[x], open[x], got[x])'
  BY <1>1 DEF FullInv
<1>2. Full(ring[x], open[x], got[x])
  BY DEF FullInv
<1>3. CASE RemoveNode
  <2>1. ring'[x] = NoRing /\ open'[x] = NoMinute /\ \A m \in 0 .. MaxTime : got'[x][m] = 0
    BY <1>3 DEF RemoveNode
  <2> QED BY <2>1 DEF Full
<1>4. CASE Sweep
  <2>1. /\ open' = open /\ got' = Kept([ring |-> ring', open |-> open])
        /\ ring'[x] = IF Old(x) THEN NoRing ELSE ring[x]
    BY <1>4 DEF Sweep
  <2>2. SamplesAfter(FALSE, ring'[x], open[x], got[x], got'[x])
    BY <1>1, <2>1, KeptFills
  <2> DEFINE h == ring'[x]
             o == open'[x]
             g2 == got'[x]
  <2>3. CASE h = NoRing /\ o = NoMinute
    <3>1. \A m \in 0 .. MaxTime : g2[m] = 0
      BY <2>1, <2>2, <2>3 DEF SamplesAfter
    <3> QED BY <2>3, <3>1 DEF Full
  <2>4. CASE ~(h = NoRing /\ o = NoMinute)
    <3>1. g2 = got[x] /\ o = open[x]
      BY <2>1, <2>2, <2>4 DEF SamplesAfter
    <3>2. CASE ~Old(x)
      BY <1>1, <1>2, <2>1, <3>1, <3>2 DEF Full, Far, Held
    <3>3. CASE Old(x)
      <4>1. h = NoRing /\ ring[x] # NoRing /\ clock - ring[x].last[1] > Reach
        BY <2>1, <3>3 DEF Old
      <4>2. ring[x].last[1] \in Int /\ Reach \in Nat
        BY <4>1, TiersAssumption DEF HistInv, HistType, RingType, IsFile, Tier, Reach
      <4>3. ASSUME NEW m \in 0 .. MaxTime, got[x][m] > 0, m # open[x].minute PROVE Far(m)
        <5>1. Far(m) \/ m <= ring[x].last[1]
          BY <1>2, <4>3 DEF Full, Held
        <5> QED BY <1>1, <4>1, <4>2, <5>1 DEF Far
      <4>4. \A m \in 0 .. MaxTime : g2[m] > 0 /\ m # o.minute => Far(m)'
        BY <1>1, <3>1, <4>3 DEF Far
      <4>5. o # NoMinute => o.n = g2[o.minute]
        BY <1>2, <3>1 DEF Full
      <4> QED BY <4>1, <4>4, <4>5 DEF Full
    <3> QED BY <3>2, <3>3
  <2> QED BY <2>3, <2>4
<1> QED BY <1>3, <1>4

(* As time passes more is far.                                             *)
LEMMA MinuteFills ==
    ASSUME HistInv, FullInv, Minute
    PROVE  FullInv'
<1>1. clock \in Nat /\ clock' = clock + 1 /\ UNCHANGED <<fault, open, ring, got>> /\ Reach \in Nat
  BY Sizes, TiersAssumption DEF HistInv, HistType, Minute, Reach
<1>2. ASSUME NEW m \in 0 .. MaxTime, Far(m) PROVE Far(m)'
  BY <1>1, <1>2, Sizes DEF Far
<1> SUFFICES ASSUME fault = "none", NEW x \in Series PROVE Full(ring[x], open[x], got[x])'
  BY <1>1 DEF FullInv
<1>3. Full(ring[x], open[x], got[x])
  BY DEF FullInv
<1>4. \A m \in 0 .. MaxTime : got[x][m] > 0 /\ m # open[x].minute => Far(m)' \/ Held(ring[x], got[x], m)
  BY <1>2, <1>3 DEF Full
<1>5. ring[x] # NoRing => ring[x].last[1] \in Int
  BY DEF HistInv, HistType, RingType, IsFile, Tier
<1>6. ring[x] # NoRing => /\ ring[x].last[1] >= 0 /\ ring[x].last[2] = Bucket(ring[x].last[1])
                          /\ open[x] = NoMinute => ring[x].last[1] < clock'
  BY <1>1, <1>3, <1>5 DEF Full
<1>7. open[x] # NoMinute => open[x].n = got[x][open[x].minute]
  BY <1>3 DEF Full
<1> QED BY <1>1, <1>4, <1>6, <1>7 DEF Full, Held

(* Where nothing fails, nothing is missing: what is written stays in its   *)
(* tier as long as that goes back to it, the coarse point is made of all   *)
(* the fine ones of its bucket, and the minute in memory is let go only    *)
(* once it is written (add, flush and writeMinute, history.js 148-210).    *)
THEOREM HistoryIsWhole == Spec => []NothingMissing
<1>1. Init => FullInv
  <2> SUFFICES ASSUME Init, NEW x \in Series PROVE Full(ring[x], open[x], got[x])
    BY DEF FullInv
  <2>1. open[x] = NoMinute /\ ring[x] = NoRing /\ \A m \in 0 .. MaxTime : got[x][m] = 0
    BY DEF Init, HistInit
  <2> QED BY <2>1 DEF Full
<1>2. HistInv /\ FullInv /\ [Next]_vars => FullInv'
  <2> SUFFICES ASSUME HistInv, FullInv, [Next]_vars, fault' = "none" PROVE FullInv'
    BY DEF FullInv
  <2>1. CASE UNCHANGED histVars
    BY <2>1 DEF histVars, FullInv, Full, Far, Held
  <2>2. CASE \E q \in Orders, k \in Reached : Add(q, k)
    BY <2>2, AddFills
  <2>3. CASE \E q \in Orders, k \in Reached : Flush(q, k) \/ StopStart(q, k)
    BY <2>3, FlushFills
  <2>4. CASE Sweep \/ RemoveNode
    BY <2>4, RemovalFills
  <2>5. CASE Minute
    BY <2>5, MinuteFills
  <2>6. ~\E m \in 0 .. MaxTime : ClockGoesBack(m)
    BY DEF ClockGoesBack
  <2>7. [x \in Series |-> Whole] \in Reached
    BY DEF Reached
  <2>8. \/ UNCHANGED histVars
        \/ \E q \in Orders, k \in Reached : Add(q, k)
        \/ \E q \in Orders, k \in Reached : Flush(q, k) \/ StopStart(q, k)
        \/ Sweep \/ RemoveNode \/ Minute
    BY <2>6, <2>7 DEF Next, vars, OnSnapshot, OnHealthySnapshot
  <2> QED BY <2>1, <2>2, <2>3, <2>4, <2>5, <2>8
<1>3. HistInv /\ FullInv => NothingMissing
  <2> SUFFICES ASSUME HistInv, FullInv, fault = "none", NEW x \in Files, NEW m \in 0 .. clock,
                      got[x][m] > 0, open[x].minute # m
               PROVE  /\ m \in InRange(1) => <<m, got[x][m]>> \in Shown(x, 1, m)
                      /\ Bucket(m) \in InRange(2) => <<m, got[x][m]>> \in Shown(x, 2, Bucket(m))
    BY DEF NothingMissing
  <2> DEFINE f == ring[x]
  <2>1. x \in Series /\ f # NoRing /\ clock \in 0 .. MaxTime /\ clock \in Nat /\ m \in 0 .. MaxTime /\ m \in Nat
    BY Sizes DEF HistInv, HistType, Files
  <2>2. Far(m) \/ Held(f, got[x], m)
    BY <2>1 DEF FullInv, Full
  <2>3. /\ f.last[1] \in Nat /\ f.last[2] = Bucket(f.last[1]) /\ f.last[1] <= clock
        /\ f.last[2] \in Nat /\ f.last[2] <= Bucket(clock)
    <3>1. f.last[1] \in Int /\ f.last[1] >= 0 /\ f.last[2] = Bucket(f.last[1])
      BY <2>1 DEF FullInv, Full, HistInv, HistType, RingType, IsFile, Tier
    <3>2. f.last[1] <= Idx(1, clock)
      BY <2>1 DEF HistInv, TimeInv, TimeOK, Tier
    <3>3. f.last[1] <= clock /\ f.last[1] \in Nat
      BY <3>1, <3>2 DEF Idx
    <3> QED BY <2>1, <3>1, <3>3, Buckets, BucketsInOrder
  <2>4. Len1 \in Nat \ {0} /\ Len2 \in Nat \ {0} /\ Len1 <= Reach /\ Reach \in Nat /\ Size(1) = Len1 /\ Size(2) = Len2
    BY TiersAssumption DEF Reach, Size
  <2>5. Bucket(m) \in Nat /\ Bucket(clock) \in Nat
    BY <2>1, Buckets
  <2> HIDE DEF f
  <2>6. ASSUME m \in InRange(1) PROVE <<m, got[x][m]>> \in Shown(x, 1, m)
    <3>1. m > clock - Len1
      BY <2>4, <2>6 DEF InRange, End
    <3>2. ~Far(m)
      BY <2>1, <2>4, <3>1 DEF Far
    <3>3. m <= f.last[1] /\ m > f.last[1] - Len1
      BY <2>1, <2>2, <2>3, <2>4, <3>1, <3>2 DEF Held
    <3>4. <<m, got[x][m]>> \in f.at[1][m % Len1]
      BY <2>2, <3>2, <3>3 DEF Held
    <3>5. OnDisk(x, 1, m) = f.at[1][m % Len1]
      BY <2>1, <2>3, <2>4, <3>3 DEF OnDisk, f
    <3> QED BY <3>4, <3>5 DEF Shown
  <2>7. ASSUME Bucket(m) \in InRange(2) PROVE <<m, got[x][m]>> \in Shown(x, 2, Bucket(m))
    <3>1. Bucket(m) > Bucket(clock) - Len2
      BY <2>4, <2>7 DEF InRange, End
    <3>2. ~Far(m)
      <4> SUFFICES ASSUME clock - m > Reach PROVE FALSE
        BY DEF Far
      <4>1. Bucket(m) + Len2 <= Bucket(clock)
        BY <2>1, OutOfReach
      <4> QED BY <2>4, <2>5, <3>1, <4>1
    <3>3. m <= f.last[1]
      BY <2>2, <3>2 DEF Held
    <3>4. Bucket(m) <= f.last[2]
      BY <2>1, <2>3, <3>3, BucketsInOrder
    <3>5. Bucket(m) > f.last[2] - Len2
      BY <2>3, <2>4, <2>5, <3>1
    <3>6. <<m, got[x][m]>> \in f.at[2][Bucket(m) % Len2]
      BY <2>2, <3>2, <3>5 DEF Held
    <3>7. OnDisk(x, 2, Bucket(m)) = f.at[2][Bucket(m) % Len2]
      BY <2>1, <2>3, <2>4, <3>4, <3>5 DEF OnDisk, f
    <3> QED BY <3>6, <3>7 DEF Shown
  <2> QED BY <2>6, <2>7
<1> QED BY <1>1, <1>2, <1>3, HistInvHolds, PTL DEF Spec

=============================================================================
