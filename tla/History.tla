------------------------------ MODULE History -------------------------------
(***************************************************************************)
(* The history of one node (src/hub/lib/history.js): each series has a     *)
(* ring file of two tiers (the code has three of the same kind).  The      *)
(* minute in progress is in memory; a flush writes it to the fine tier,    *)
(* and the coarse tier's point is computed from the fine one again.        *)
(*                                                                         *)
(* A point stands for what it was computed from: the minute and the number *)
(* of samples for the fine tier, the set of those for the coarse one.  A   *)
(* write goes to the file in stages; a crash or an error ends it after any *)
(* of them.                                                                *)
(***************************************************************************)
EXTENDS Integers, FiniteSets, Sequences, SequencesExt

CONSTANTS
    Series,     \* names of series
    Main,       \* one of them
    MaxSeries,  \* series a node may have (MAX_SERIES)
    Len1, Step, Len2,   \* points of the fine tier; minutes of a coarse point, and their number
    Faults,     \* what goes wrong in a behaviour: subset of Fault
    Samples,    \* fault -> bound on the samples of a minute
    Minutes,    \* fault -> bound on the clock
    MaxTime     \* largest of those

VARIABLES
    clock,      \* the hub's clock, in minutes
    fault,      \* what may go wrong in this behaviour
    open,       \* series -> the minute in memory, or NoMinute
    ring,       \* series -> its file, or NoRing
    got,        \* history: series -> minute -> samples that came in it
    torn,       \* history: series whose first write ended between a point and its index
    outcome     \* what the last step removed

histVars == <<clock, fault, open, ring, got, torn, outcome>>

-----------------------------------------------------------------------------
(* Data.                                                                   *)

(* What goes wrong in a behaviour: nothing; a write or the process, or the *)
(* hub's clock, once ("past" and "back": it has); or it is the monitored   *)
(* host that has troubles or many names.  Only in the last two kinds is    *)
(* there more than one series, a bound on the instances.                   *)
Fault == {"none", "disk", "past", "clock", "back", "host", "names"}
Named == IF fault \in {"host", "names"} THEN Series ELSE {Main}

Gap == {}
NoMinute == [minute |-> -1, n |-> 0]
NoRing == [last |-> << >>]
Tier == {1, 2}
Size(t) == IF t = 1 THEN Len1 ELSE Len2
Reach == Step * Len2        \* SWEEP_MIN: how far the coarsest tier goes back
Fresh == [last |-> <<-1, -1>>,
          at |-> [t \in Tier |-> [i \in 0 .. Size(t) - 1 |-> Gap]]]
Bucket(m) == m \div Step
Files == {s \in Series : ring[s] # NoRing}

ASSUME TiersAssumption == {Len1, Step, Len2} \subseteq Nat \ {0} /\ Step <= Len1 /\ Len1 <= Reach
ASSUME HistoryBounds == Main \in Series /\ {MaxSeries, MaxTime} \subseteq Nat
                        /\ Samples \in [Fault -> Nat] /\ Minutes \in [Fault -> 0 .. MaxTime]
ASSUME SeriesAssumption == IsFiniteSet(Series)
ASSUME FaultsAssumption == Faults \subseteq Fault

-----------------------------------------------------------------------------
(* Writing a point.                                                        *)

(* put, in its three stages.  First the points between the last one and it *)
(* become gaps; one from before the ring starts the tier over.             *)
StartsOver(f, t, i) == f.last[t] >= 0 /\ i <= f.last[t] - Size(t)
Gaps(f, t, i) ==
    LET gone == CASE StartsOver(f, t, i) -> 0 .. Size(t) - 1
                  [] f.last[t] >= 0 /\ i > f.last[t] + 1 -> {k % Size(t) : k \in f.last[t] + 1 .. i - 1}
                  [] OTHER -> {}
    IN  [f EXCEPT !.at[t] = [k \in DOMAIN @ |-> IF k \in gone THEN Gap ELSE @[k]]]
Point(f, t, i, p) == [f EXCEPT !.at[t][i % Size(t)] = p]
LastIndex(f, was, t, i) ==
    IF StartsOver(was, t, i) \/ i > was.last[t] THEN [f EXCEPT !.last[t] = i] ELSE f

(* Variant: the new last index is written first.                           *)
PutIndexFirst(f, t, i, p) ==
    LET a == LastIndex(f, f, t, i)
        b == [Gaps(f, t, i) EXCEPT !.last = a.last]
    IN  <<a, b, Point(b, t, i, p)>>

Put(f, t, i, p) ==
    LET a == Gaps(f, t, i)
        b == Point(a, t, i, p)
    IN  <<a, b, LastIndex(b, f, t, i)>>

(* the coarse point of a minute's bucket: from the fine points in reach    *)
Coarse(f, m) ==
    UNION {f.at[1][k % Len1] : k \in {k \in Bucket(m) * Step .. (Bucket(m) + 1) * Step - 1 :
                                         k <= f.last[1] /\ k > f.last[1] - Len1}}

(* writeMinute: the file after each stage of the write                     *)
Stages(f, cur) ==
    LET fine == Put(f, 1, cur.minute, {<<cur.minute, cur.n>>})
        coarse == Put(fine[3], 2, Bucket(cur.minute), Coarse(fine[3], cur.minute))
    IN  <<f>> \o fine \o coarse
Whole == 7

(* Variant: the cap is looked at when a series is opened, not when written.*)
WriteUncapped(files, s, cur, k) ==
    LET f == IF files[s] = NoRing THEN Fresh ELSE files[s]
    IN  [files EXCEPT ![s] = Stages(f, cur)[k]]

(* admit: a new series only below the cap                                  *)
Admit(files, s) == files[s] # NoRing \/ Cardinality({x \in Series : files[x] # NoRing}) < MaxSeries

(* close: one minute is written as far as stage k; a series that is not    *)
(* admitted is not written                                                 *)
WriteMinute(files, s, cur, k) ==
    IF ~Admit(files, s) THEN files
    ELSE LET f == IF files[s] = NoRing THEN Fresh ELSE files[s]
         IN  [files EXCEPT ![s] = Stages(f, cur)[k]]

(* Variant: the minute in progress starts anew once it is on disk.         *)
FlushOneDrops(st, x, k) ==
    [ring |-> WriteMinute(st.ring, x, st.open[x], k[x]), open |-> [st.open EXCEPT ![x] = NoMinute]]

(* close, for one series: how far its write gets is given by k             *)
FlushOne(st, x, k) ==
    [ring |-> WriteMinute(st.ring, x, st.open[x], k[x]),
     open |-> IF st.open[x].minute < clock THEN [st.open EXCEPT ![x] = NoMinute] ELSE st.open]

(* add, for one series: a minute that is over is written first             *)
AddOne(st, x, k) ==
    LET over == st.open[x] # NoMinute /\ st.open[x].minute # clock
        files == IF over THEN WriteMinute(st.ring, x, st.open[x], k[x]) ELSE st.ring
        cur == IF over THEN NoMinute ELSE st.open[x]
    IN  [ring |-> files,
         open |-> [st.open EXCEPT ![x] =
                      CASE cur = NoMinute /\ ~Admit(files, x) -> cur
                        [] cur = NoMinute /\ Admit(files, x) -> [minute |-> clock, n |-> 1]
                        [] OTHER -> [cur EXCEPT !.n = @ + 1]]]

Now == [ring |-> ring, open |-> open]
Opened == {x \in Series : open[x] # NoMinute}

(* In a behaviour whose fault is "disk" the write of one series may end    *)
(* after any stage.                                                        *)
Reached ==
    LET whole == [x \in Series |-> Whole]
    IN  {whole} \cup (IF fault # "disk" THEN {}
                     ELSE {[whole EXCEPT ![x] = k] : x \in Series, k \in 1 .. Whole})

Once(k) == IF \A x \in Series : k[x] = Whole THEN fault ELSE "past"

(* history: the samples of each minute, as far as the series is kept       *)
Kept(st) == [x \in Series |-> IF st.ring[x] = NoRing /\ st.open[x] = NoMinute
                              THEN [m \in 0 .. MaxTime |-> 0] ELSE got[x]]

(* history: a point on disk with no index at all yet                       *)
Torn(st) == {x \in Series : /\ st.ring[x] # NoRing
                            /\ \/ x \in torn
                               \/ \E t \in Tier : st.ring[x].last[t] = -1 /\ \E p \in Range(st.ring[x].at[t]) : p # Gap}

-----------------------------------------------------------------------------
(* Actions.                                                                *)

(* add: the series of one snapshot, in its order q                         *)
Add(q, k) ==
    LET st == FoldLeft(LAMBDA acc, x : AddOne(acc, x, k), Now, q)
    IN  /\ \A x \in Range(q) : got[x][clock] < Samples[fault]
        /\ ring' = st.ring /\ open' = st.open
        /\ got' = [x \in Series |-> IF x \in Range(q) /\ st.open[x] # NoMinute
                                    THEN [Kept(st)[x] EXCEPT ![clock] = @ + 1] ELSE Kept(st)[x]]
        /\ torn' = Torn(st) /\ fault' = Once(k)
        /\ outcome' = "none"
        /\ UNCHANGED clock

Flushed(q, k) == FoldLeft(LAMBDA acc, x : FlushOne(acc, x, k), Now, q)

(* flush, every minute: every open minute, in the order of the map         *)
Flush(q, k) ==
    LET st == Flushed(q, k)
    IN  /\ q # << >> /\ Range(q) = Opened
        /\ ring' = st.ring /\ open' = st.open
        /\ got' = Kept(st)
        /\ torn' = Torn(st) /\ fault' = Once(k)
        /\ outcome' = "none"
        /\ UNCHANGED clock

(* The hub stops and starts: with a flush that gets as far as it gets, or  *)
(* with none.                                                              *)
StopStart(q, k) ==
    LET st == Flushed(q, k)
    IN  /\ fault = "disk" /\ Range(q) \subseteq Opened
        /\ ring' = st.ring /\ open' = [x \in Series |-> NoMinute]
        /\ torn' = Torn(st) /\ fault' = "past"
        /\ outcome' = "none"
        /\ UNCHANGED <<clock, got>>

(* Variant: a series goes when the fine tier has nothing of it.            *)
SweepDay(x) == ring[x] # NoRing /\ clock - ring[x].last[1] > Len1

(* sweep: a series goes when nothing reached it for longer than Reach      *)
Old(x) == ring[x] # NoRing /\ clock - ring[x].last[1] > Reach

Sweep ==
    /\ \E x \in Series : Old(x)
    /\ ring' = [x \in Series |-> IF Old(x) THEN NoRing ELSE ring[x]]
    /\ got' = Kept([ring |-> ring', open |-> open])
    /\ torn' = {x \in torn : ~Old(x)}
    /\ outcome' = "swept"
    /\ UNCHANGED <<clock, fault, open>>

(* remove: the node was revoked                                            *)
RemoveNode ==
    /\ Files # {} \/ Opened # {}
    /\ ring' = [x \in Series |-> NoRing]
    /\ open' = [x \in Series |-> NoMinute]
    /\ got' = [x \in Series |-> [m \in 0 .. MaxTime |-> 0]]
    /\ torn' = {}
    /\ outcome' = "removed"
    /\ UNCHANGED <<clock, fault>>

Minute ==
    /\ clock < Minutes[fault]
    /\ clock' = clock + 1
    /\ outcome' = "none"
    /\ UNCHANGED <<fault, open, ring, got, torn>>

ClockGoesBack(m) ==
    /\ fault = "clock" /\ m < clock
    /\ clock' = m
    /\ fault' = "back" /\ outcome' = "none"
    /\ UNCHANGED <<open, ring, got, torn>>

HistInit ==
    /\ clock = 0
    /\ fault \in Faults
    /\ open = [x \in Series |-> NoMinute]
    /\ ring = [x \in Series |-> NoRing]
    /\ got = [x \in Series |-> [m \in 0 .. MaxTime |-> 0]]
    /\ torn = {} /\ outcome = "none"

-----------------------------------------------------------------------------
(* What a query shows.                                                     *)

End(t) == IF t = 1 THEN clock ELSE Bucket(clock)
InRange(t) == {i \in 0 .. End(t) : i > End(t) - Size(t)}

OnDisk(x, t, i) ==
    LET f == ring[x]
    IN  IF f # NoRing /\ f.last[t] >= 0 /\ i <= f.last[t] /\ i > f.last[t] - Size(t)
        THEN f.at[t][i % Size(t)] ELSE Gap

Shown(x, t, i) ==
    IF t = 1 /\ open[x].minute = i THEN {<<i, open[x].n>>} ELSE OnDisk(x, t, i)

(* Whatever a query shows for a time was recorded at that time: also after *)
(* a crash between any two stages of a write, after a write that failed    *)
(* half way, and when the clock goes back, past the ring or within it      *)
(* (history.js 136-146, 161-171, 230-242).  The one exception is a file    *)
(* whose very first write ended between a point and its index.             *)
ShownIsTrue ==
    \A x \in Series \ torn, t \in Tier : \A i \in InRange(t) : \A p \in Shown(x, t, i) :
        (IF t = 1 THEN p[1] ELSE Bucket(p[1])) = i /\ got[x][p[1]] > 0

(* Where nothing fails, every minute that is over and was written is shown *)
(* with all of its samples by both tiers as far back as each goes          *)
(* (history.js 148-170, 195-215).                                          *)
NothingMissing ==
    fault = "none" =>
        \A x \in Files : \A m \in 0 .. clock :
            got[x][m] > 0 /\ open[x].minute # m =>
                /\ m \in InRange(1) => <<m, got[x][m]>> \in Shown(x, 1, m)
                /\ Bucket(m) \in InRange(2) => <<m, got[x][m]>> \in Shown(x, 2, Bucket(m))

(* A node never has more files than its cap, though series are opened in   *)
(* memory before any of them has a file (history.js 82-88, 149, 203).      *)
SeriesCapped == Cardinality(Files) <= MaxSeries

(* The sweep takes only series of which no query shows anything any more,  *)
(* as long as the clock does not go back (history.js 260-276).             *)
SweepLosesNothing ==
    [][outcome' = "swept" /\ fault # "back" =>
          \A x \in Series : ring'[x] # ring[x] =>
              \A t \in Tier : \A i \in InRange(t) : OnDisk(x, t, i) = Gap]_histVars
=============================================================================
