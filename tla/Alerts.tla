------------------------------- MODULE Alerts -------------------------------
(***************************************************************************)
(* The alert engine of the hub (src/hub/lib/alerts.js) and the part of     *)
(* src/hub/server.js that drives it: a push of a node is judged            *)
(* (evaluate), a timer judges nodes that stopped pushing (check), a person *)
(* mutes, edits the rules, tags or revokes nodes, and the hub restarts.    *)
(*                                                                         *)
(* An alert ("instance" in the code) belongs to a key <<rule, node, sub>>. *)
(* Every operation is synchronous in the code, so each one is one action;  *)
(* only a push has two steps, because the hub awaits its body between      *)
(* looking the node up and judging it.  Each operation ends by saving the  *)
(* state; the save may fail (SaveOutcomes), which also stands for a crash  *)
(* after the events went out and before the state file was replaced.       *)
(***************************************************************************)
EXTENDS Integers, FiniteSets, Sequences

CONSTANTS
    Rule,          \* rule ids
    Offline,       \* the id of the offline rule
    Node,          \* node ids
    Tag,           \* node tags
    Sub,           \* what a rule tells apart on a node: mounts, containers, NoSub
    NoSub,         \* the empty sub of a rule that watches the whole node
    Views,         \* what a push can hold, see View below
    RuleSets,      \* rule lists a person can save, see RuleList below
    Repeat,        \* a told alert is told again after this long (a day)
    Limit,         \* a node that did not push for this long is offline
    MuteTimes,     \* the ends a mute can be given (0 and earlier times unmute)
    RevokeWays,    \* how nodes are revoked: subset of {"page", "ctl"}
    SaveOutcomes,  \* {TRUE}, or BOOLEAN when a save may fail
    MaxTime        \* bound on the clock

VARIABLES
    clock,      \* the hub's clock
    rules,      \* the rules in force: rule id -> rule, for the ids in the list
    inst,       \* key -> instance; state "ok": none is kept
    running,    \* node -> containers seen running
    muteRule,   \* rule -> end of its mute, 0 for none
    muteNode,   \* node -> end of its mute, 0 for none
    disk,       \* state.json: the last saved value of the four above
    active,     \* nodes that are not revoked (nodes.json)
    tags,       \* node -> its tags (nodes.json)
    latest,     \* node -> time of its last push, Never before the first
    hubStart,   \* when this hub process started
    inflight,   \* nodes with a push whose body the hub is still reading
    out,        \* key -> the event of the last step, as it is logged
    told,       \* history: key -> a told start has no told end yet
    toldAt,     \* history: key -> when a start or a repeat was last told
    lost        \* history: a restart lost a state that was not saved

engineVars == <<inst, running, muteRule, muteNode>>
ledgerVars == <<out, told, toldAt>>
hubVars == <<active, tags, latest, inflight>>
vars == <<clock, rules, engineVars, disk, hubVars, hubStart, ledgerVars, lost>>

-----------------------------------------------------------------------------
(* Data.                                                                   *)

Key == Rule \X Node \X Sub
Time == 0 .. MaxTime
Never == -1

Metric == {"offline", "disk.used", "container.down", "number"}

(* A rule.  clear = threshold stands for clear: null: the code then ends   *)
(* the alert when the condition stops holding, and moves a clear value by  *)
(* as much as an override moves the threshold.                             *)
RuleRecord == [metric : Metric, op : {">=", "<=", "=="}, threshold : Int, clear : Int,
               for : Nat, off : BOOLEAN, subs : SUBSET Sub,
               scope : SUBSET (Node \cup Tag),
               overrides : Seq([who : Node \cup Tag, off : BOOLEAN, threshold : Int])]

(* A push maps the groups it has to what they list: a mount to its use,    *)
(* a container to its health, NoSub to a number.  A group that is missing  *)
(* (dropped, or a sensor that failed) is not in the domain; a mount that   *)
(* is listed as not mounted is not in its group's domain.                  *)
Health == {"up", "unhealthy", "down"}

Instance == [state : {"ok", "pending", "firing"}, since : Nat, notified : BOOLEAN, lastNotified : Nat]
NoInstance == [state |-> "ok", since |-> 0, notified |-> FALSE, lastNotified |-> 0]

(* What a step logs for a key: an event that is passed on (told), or one   *)
(* that stays in the log because it is quiet or its start was never told.  *)
Told == {"firing", "repeat", "resolved"}
Event == Told \cup {"none", "quiet firing", "quiet resolved"}
Silence == [k \in Key |-> "none"]

Compare(op, a, b) == CASE op = ">=" -> a >= b
                       [] op = "<=" -> a <= b
                       [] op = "==" -> a = b

ASSUME RuleAssumption == Offline \in Rule /\ NoSub \in Sub
ASSUME TimeAssumption == /\ Repeat \in Nat /\ Limit \in Nat /\ MaxTime \in Nat
                         /\ MuteTimes \subseteq Nat
ASSUME ViewsAssumption ==
    \A v \in Views : "container.down" \in DOMAIN v => DOMAIN v["container.down"] \subseteq Sub
ASSUME OutcomeAssumption == SaveOutcomes \subseteq BOOLEAN
(* checkRules, buildRules: the offline rule is always there and the only   *)
(* one on its metric; it fires on threshold 1 and can be turned off for    *)
(* some nodes.  A clear value is on the near side of its threshold, and no *)
(* node or tag has two overrides of a rule.                                *)
IsRuleList(rs) ==
    /\ DOMAIN rs \subseteq Rule
    /\ Offline \in DOMAIN rs
    /\ rs[Offline].threshold = 1 /\ rs[Offline].clear = 1 /\ rs[Offline].op = ">="
    /\ \A i \in DOMAIN rs[Offline].overrides : rs[Offline].overrides[i].off
    /\ \A r \in DOMAIN rs :
        /\ rs[r] \in RuleRecord
        /\ rs[r].metric = "offline" <=> r = Offline
        /\ Compare(rs[r].op, rs[r].threshold, rs[r].clear)
        /\ \A i, j \in DOMAIN rs[r].overrides :
               rs[r].overrides[i].who = rs[r].overrides[j].who => i = j
ASSUME RuleSetsAssumption == \A rs \in RuleSets : IsRuleList(rs)

-----------------------------------------------------------------------------
(* Rules.                                                                  *)

(* The positions of the overrides that name one of the given nodes or tags *)
Overriding(r, names) == {i \in DOMAIN r.overrides : r.overrides[i].who \in names}

(* The override in force for a node: its own before its tags', in order.   *)
OverrideOf(r, n, nodeTags) ==
    LET own == Overriding(r, {n})
        pick == IF own # {} THEN own ELSE Overriding(r, nodeTags)
    IN  {r.overrides[i] : i \in {j \in pick : \A m \in pick : j <= m}}

(* forNode: does a rule hold for a node, and with which thresholds?        *)
Applies(r, n, nodeTags) ==
    /\ ~r.off
    /\ r.scope # {} => n \in r.scope \/ nodeTags \cap r.scope # {}
    /\ \A o \in OverrideOf(r, n, nodeTags) : ~o.off

ForNode(r, n, nodeTags) ==
    LET own == OverrideOf(r, n, nodeTags)
    IN  IF own = {} THEN r
        ELSE LET o == CHOOSE x \in own : TRUE
             IN  [r EXCEPT !.threshold = o.threshold, !.clear = @ + (o.threshold - r.threshold)]

(* The containers of a push; an empty list counts as no list.              *)
HasContainers(v) == "container.down" \in DOMAIN v /\ DOMAIN v["container.down"] # {}

RunningAfter(n, v) ==
    IF HasContainers(v)
    THEN LET list == v["container.down"]
         IN  {c \in DOMAIN list : c \in running[n] \/ list[c] # "down"}
    ELSE running[n]

(* valuesOf: the readings of a metric in a push, by sub; HasValues is      *)
(* FALSE where the code returns null.                                      *)
HasValues(metric, v) == IF metric = "container.down" THEN HasContainers(v) ELSE metric \in DOMAIN v

(* Variant: a container counts before it was seen running.                 *)
AllContainers(metric, v, run) ==
    IF metric = "container.down"
    THEN [c \in DOMAIN v[metric] |-> IF v[metric][c] = "up" THEN 0 ELSE 1]
    ELSE v[metric]

ValuesOf(metric, v, run) ==
    IF metric = "container.down"
    THEN [c \in DOMAIN v[metric] \cap run |-> IF v[metric][c] = "up" THEN 0 ELSE 1]
    ELSE v[metric]
-----------------------------------------------------------------------------
(* Judging one instance.  Each operator gives the instance that is kept    *)
(* and the event that is logged, and told when it is not quiet.            *)

Muted(k, t) == muteRule[k[1]] > t \/ muteNode[k[2]] > t

(* Variant: mutes are not looked at.                                       *)
QuietIfOffline(k, t, offl) == k[1] # Offline /\ offl

(* quiet: an alert is not told while its rule or node is muted, or while   *)
(* its node is offline (offl: the node's own offline alert is firing).     *)
Quiet(k, t, offl) == Muted(k, t) \/ (k[1] # Offline /\ offl)

Keep(i) == [inst |-> i, event |-> "none"]

(* tell("resolved"): told if the start was, mute or not                    *)
Resolved(i) == IF i.notified THEN "resolved" ELSE "quiet resolved"

(* Variants: a repeat that does not move its time; only repeats are told.  *)
RetellKeepsTime(i, t, q) ==
    CASE ~i.notified /\ ~q ->
            [inst |-> [i EXCEPT !.notified = TRUE, !.lastNotified = t], event |-> "firing"]
      [] i.notified /\ t - i.lastNotified >= Repeat /\ ~q -> [inst |-> i, event |-> "repeat"]
      [] OTHER -> Keep(i)

RepeatOnly(i, t, q) ==
    IF i.notified /\ t - i.lastNotified >= Repeat /\ ~q
    THEN [inst |-> [i EXCEPT !.lastNotified = t], event |-> "repeat"]
    ELSE Keep(i)

Retell(i, t, q) ==
    CASE ~i.notified /\ ~q ->
            [inst |-> [i EXCEPT !.notified = TRUE, !.lastNotified = t], event |-> "firing"]
      [] i.notified /\ t - i.lastNotified >= Repeat /\ ~q ->
            [inst |-> [i EXCEPT !.lastNotified = t], event |-> "repeat"]
      [] OTHER -> Keep(i)

(* holds: the condition holds; over: a firing alert ends.  A reading that  *)
(* is gone (null in the code) has holds FALSE and over TRUE.               *)
Judge(r, i, holds, over, t, q) ==
    CASE i.state = "firing" /\ over -> [inst |-> NoInstance, event |-> Resolved(i)]
      [] i.state = "firing" /\ ~over -> Retell(i, t, q)
      [] i.state # "firing" /\ ~holds -> Keep(NoInstance)
      [] i.state # "firing" /\ holds ->
            LET since == IF i.state = "ok" THEN t ELSE i.since
            IN  IF t - since < r.for
                THEN Keep([NoInstance EXCEPT !.state = "pending", !.since = since])
                ELSE IF q
                THEN [inst |-> [NoInstance EXCEPT !.state = "firing", !.since = since],
                      event |-> "quiet firing"]
                ELSE [inst |-> [state |-> "firing", since |-> since, notified |-> TRUE, lastNotified |-> t],
                      event |-> "firing"]

JudgeValue(r, i, val, t, q) ==
    Judge(r, i, Compare(r.op, val, r.threshold), ~Compare(r.op, val, r.clear), t, q)

(* Variant: the alert goes without its end being told.                     *)
EndUntold(i) == Keep(NoInstance)

(* end: the rule of an alert no longer holds                               *)
End(i) == [inst |-> NoInstance, event |-> IF i.state = "firing" THEN Resolved(i) ELSE "none"]

OfflineKey(n) == <<Offline, n, NoSub>>

-----------------------------------------------------------------------------
(* What an operation does to every key.  The offline rule is the first of  *)
(* the list, so the other alerts of a node are judged after its offline    *)
(* alert: offl below is its state after this step.                         *)

EvaluateKey(k, n, v, run, offl) ==
    LET i == inst[k]
        r == rules[k[1]]
        nodeTags == IF n \in active THEN tags[n] ELSE {}
        eff == ForNode(r, n, nodeTags)
        vals == ValuesOf(eff.metric, v, run)
        q == Quiet(k, clock, offl)
    IN  IF k[2] # n \/ k[1] \notin DOMAIN rules THEN Keep(i)
        ELSE IF ~Applies(r, n, nodeTags) THEN End(i)
        ELSE IF k[1] = Offline THEN JudgeValue(eff, i, 0, clock, q)
        ELSE IF ~HasValues(eff.metric, v) THEN Keep(i)
        ELSE IF k[3] \in DOMAIN vals \cap eff.subs THEN JudgeValue(eff, i, vals[k[3]], clock, q)
        ELSE Judge(eff, i, FALSE, TRUE, clock, q)

LastPush(n) == IF latest[n] > hubStart THEN latest[n] ELSE hubStart
Stale(n) == clock - LastPush(n) >= Limit

CheckKey(k, offl) ==
    LET n == k[2]
        i == inst[k]
        r == rules[k[1]]
        q == Quiet(k, clock, offl)
    IN  IF n \notin active \/ latest[n] = Never \/ k[1] \notin DOMAIN rules THEN Keep(i)
        ELSE IF k[1] = Offline
        THEN IF ~Applies(r, n, tags[n]) THEN End(i)
             ELSE IF k[3] # NoSub THEN Keep(i)
             ELSE JudgeValue(r, i, IF Stale(n) THEN 1 ELSE 0, clock, q)
        ELSE IF i.state # "firing" THEN Keep(i)
        ELSE IF ~Applies(r, n, tags[n]) THEN End(i)
        ELSE IF Stale(n) THEN Keep(i) ELSE Retell(i, clock, q)

(* Variants: a rule turned off keeps its alerts; a rule that goes leaves   *)
(* its mute behind.                                                        *)
PruneRemovedOnly(k, i, rs) == IF k[1] \in DOMAIN rs THEN Keep(i) ELSE End(i)
KeepMutes(mutes, rs) == mutes

(* prune: the alerts of a rule removed or turned off end, and the mute of  *)
(* a rule removed goes.                                                    *)
PruneKey(k, i, rs) ==
    IF k[1] \in DOMAIN rs /\ ~rs[k[1]].off THEN Keep(i) ELSE End(i)

PruneMutes(mutes, rs) == [r \in Rule |-> IF r \in DOMAIN rs THEN mutes[r] ELSE 0]

(* Variant: a revoked node's alerts go without a word.                     *)
ForgetSilently(k, n) == Keep(IF k[2] = n THEN NoInstance ELSE inst[k])

(* forget: a revoked node's alerts end                                     *)
ForgetKey(k, n) == IF k[2] = n THEN End(inst[k]) ELSE Keep(inst[k])

-----------------------------------------------------------------------------
(* Applying the result of an operation: the instances, the events, and     *)
(* the ledger of what was told.                                            *)

Apply(res) ==
    /\ inst' = [k \in Key |-> res[k].inst]
    /\ out' = [k \in Key |-> res[k].event]
    /\ told' = [k \in Key |-> IF res[k].event \in Told THEN res[k].event # "resolved" ELSE told[k]]
    /\ toldAt' = [k \in Key |-> CASE res[k].event \in {"firing", "repeat"} -> clock
                                [] res[k].event = "resolved" -> 0
                                [] OTHER -> toldAt[k]]

Quietly == /\ out' = Silence
           /\ UNCHANGED <<told, toldAt>>

State == [inst |-> inst, running |-> running, muteRule |-> muteRule, muteNode |-> muteNode]

(* save: the state file holds the new state, or stays as it was            *)
Save == \E ok \in SaveOutcomes : disk' = IF ok THEN State' ELSE disk

-----------------------------------------------------------------------------
(* Actions.                                                                *)

(* A push arrives: its node is known and not revoked; the body is read.    *)
PushStarts(n) ==
    /\ n \in active \ inflight
    /\ inflight' = inflight \cup {n}
    /\ Quietly
    /\ UNCHANGED <<clock, rules, engineVars, disk, active, tags, latest, hubStart, lost>>

(* onSnapshot: the push is stored and evaluated.  The node is not looked   *)
(* up again before that: one revoked by servitals-ctl meanwhile is judged. *)
Evaluate(n, v) ==
    /\ n \in inflight
    /\ inflight' = inflight \ {n}
    /\ latest' = [latest EXCEPT ![n] = clock]
    /\ running' = [running EXCEPT ![n] = RunningAfter(n, v)]
    /\ LET run == RunningAfter(n, v)
           offl == EvaluateKey(OfflineKey(n), n, v, run, FALSE).inst.state = "firing"
       IN  Apply([k \in Key |-> EvaluateKey(k, n, v, run, offl)])
    /\ UNCHANGED <<clock, rules, muteRule, muteNode, active, tags, hubStart, lost>>
    /\ Save

(* Variant: the timer repeats alerts and never looks for silent nodes.     *)
CheckRepeatsOnly ==
    /\ Apply([k \in Key |-> IF inst[k].state = "firing" /\ ~Stale(k[2])
                            THEN Retell(inst[k], clock, Quiet(k, clock, inst[OfflineKey(k[2])].state = "firing"))
                            ELSE Keep(inst[k])])
    /\ UNCHANGED <<clock, rules, running, muteRule, muteNode, hubVars, hubStart, lost>>
    /\ Save

(* The minute's timer.                                                     *)
Check ==
    /\ LET offl(n) == CheckKey(OfflineKey(n), FALSE).inst.state = "firing"
       IN  Apply([k \in Key |-> CheckKey(k, offl(k[2]))])
    /\ UNCHANGED <<clock, rules, running, muteRule, muteNode, hubVars, hubStart, lost>>
    /\ Save

(* A mute until now or earlier is an unmute, also of a rule that is gone.  *)
MuteRule(r, until) ==
    /\ r \in DOMAIN rules \/ until <= clock
    /\ muteRule' = [muteRule EXCEPT ![r] = IF until > clock THEN until ELSE 0]
    /\ Quietly
    /\ UNCHANGED <<clock, rules, inst, running, muteNode, hubVars, hubStart, lost>>
    /\ Save

MuteNode(n, until) ==
    /\ n \in active
    /\ muteNode' = [muteNode EXCEPT ![n] = IF until > clock THEN until ELSE 0]
    /\ Quietly
    /\ UNCHANGED <<clock, rules, inst, running, muteRule, hubVars, hubStart, lost>>
    /\ Save

(* The rules file is written before the engine takes the new rules.        *)
SetRules(rs) ==
    /\ rules' = rs
    /\ muteRule' = PruneMutes(muteRule, rs)
    /\ Apply([k \in Key |-> PruneKey(k, inst[k], rs)])
    /\ UNCHANGED <<clock, running, muteNode, hubVars, hubStart, lost>>
    /\ Save

SetTags(n, ts) ==
    /\ n \in active
    /\ tags' = [tags EXCEPT ![n] = ts]
    /\ Quietly
    /\ UNCHANGED <<clock, rules, engineVars, disk, active, latest, inflight, hubStart, lost>>

(* A node revoked from the page: it leaves nodes.json, its last push and   *)
(* its alerts are forgotten.  A push being read holds the very object the  *)
(* revocation empties, so its signature fails.  A hub that stops between   *)
(* the write of nodes.json and forget has done what RevokeFromCtl followed *)
(* by Restart does.                                                        *)
RevokeFromPage(n) ==
    /\ n \in active
    /\ "page" \in RevokeWays
    /\ active' = active \ {n}
    /\ inflight' = inflight \ {n}
    /\ latest' = [latest EXCEPT ![n] = Never]
    /\ Apply([k \in Key |-> ForgetKey(k, n)])
    /\ running' = [running EXCEPT ![n] = {}]
    /\ muteNode' = [muteNode EXCEPT ![n] = 0]
    /\ UNCHANGED <<clock, rules, muteRule, tags, hubStart, lost>>
    /\ Save

(* A node revoked with servitals-ctl: another process edits nodes.json.    *)
RevokeFromCtl(n) ==
    /\ n \in active
    /\ "ctl" \in RevokeWays
    /\ active' = active \ {n}
    /\ Quietly
    /\ UNCHANGED <<clock, rules, engineVars, disk, tags, latest, inflight, hubStart, lost>>

(* The hub stops at any point between two operations and starts again: the *)
(* state comes from the file and is pruned with the rules the file has     *)
(* now; pushes being read are gone; the last pushes come back from the     *)
(* snapshot files, but for the nodes in gone (revoked, or not readable).   *)
(* A start that cannot save ends the process: it is not a start.           *)
Restart(rs, gone) ==
    /\ rules' = rs
    /\ running' = disk.running
    /\ muteRule' = PruneMutes(disk.muteRule, rs)
    /\ muteNode' = disk.muteNode
    /\ Apply([k \in Key |-> PruneKey(k, disk.inst[k], rs)])
    /\ Node \ active \subseteq gone
    /\ latest' = [n \in Node |-> IF n \in gone THEN Never ELSE latest[n]]
    /\ inflight' = {}
    /\ hubStart' = clock
    /\ lost' = (lost \/ disk # State)
    /\ UNCHANGED <<clock, active, tags>>
    /\ disk' = State'

Tick ==
    /\ clock < MaxTime
    /\ clock' = clock + 1
    /\ Quietly
    /\ UNCHANGED <<rules, engineVars, disk, hubVars, hubStart, lost>>

-----------------------------------------------------------------------------
Init ==
    /\ clock = 0
    /\ rules \in RuleSets
    /\ inst = [k \in Key |-> NoInstance]
    /\ running = [n \in Node |-> {}]
    /\ muteRule = [r \in Rule |-> 0]
    /\ muteNode = [n \in Node |-> 0]
    /\ disk = State
    /\ active = Node
    /\ tags \in [Node -> SUBSET Tag]
    /\ latest = [n \in Node |-> Never]
    /\ hubStart = 0
    /\ inflight = {}
    /\ out = Silence
    /\ told = [k \in Key |-> FALSE]
    /\ toldAt = [k \in Key |-> 0]
    /\ lost = FALSE

Next ==
    \/ \E n \in Node : PushStarts(n)
    \/ \E n \in Node, v \in Views : Evaluate(n, v)
    \/ Check
    \/ \E r \in Rule, until \in MuteTimes : MuteRule(r, until)
    \/ \E n \in Node, until \in MuteTimes : MuteNode(n, until)
    \/ \E rs \in RuleSets : SetRules(rs)
    \/ \E n \in Node, ts \in SUBSET Tag : SetTags(n, ts)
    \/ \E n \in Node : RevokeFromPage(n)
    \/ \E n \in Node : RevokeFromCtl(n)
    \/ \E rs \in RuleSets, gone \in SUBSET Node : Restart(rs, gone)
    \/ Tick

Spec == Init /\ [][Next]_vars

(* The timer fires every minute for as long as the hub runs, and time      *)
(* passes; nothing is assumed of nodes or persons.                         *)
FairSpec == Spec /\ WF_vars(Check) /\ WF_vars(Tick)

-----------------------------------------------------------------------------
(* Properties.                                                             *)

(* The state of the engine and of the ledger has its type.                 *)
TypeOK ==
    /\ clock \in Nat
    /\ rules \in RuleSets
    /\ inst \in [Key -> Instance]
    /\ running \in [Node -> SUBSET Sub]
    /\ muteRule \in [Rule -> Nat]
    /\ muteNode \in [Node -> Nat]
    /\ disk \in [inst : [Key -> Instance], running : [Node -> SUBSET Sub],
                 muteRule : [Rule -> Nat], muteNode : [Node -> Nat]]
    /\ active \subseteq Node
    /\ tags \in [Node -> SUBSET Tag]
    /\ latest \in [Node -> Nat \cup {Never}]
    /\ hubStart \in Nat
    /\ inflight \subseteq Node
    /\ out \in [Key -> Event]
    /\ told \in [Key -> BOOLEAN]
    /\ toldAt \in [Key -> Nat]
    /\ lost \in BOOLEAN

Matches ==
    \A k \in Key :
        /\ told[k] <=> inst[k].notified
        /\ told[k] => inst[k].state = "firing" /\ toldAt[k] = inst[k].lastNotified

(* The engine knows what it told: an alert is marked notified exactly when *)
(* a told start is still open, with the right time, through mutes, rule    *)
(* changes, revocations and restarts (alerts.js 126-138, 176-187), unless  *)
(* a crash lost a state that could not be saved.                           *)
ToldMatchesState == ~lost => Matches

(* No alert outlives its rule: one is kept only while its rule is in the   *)
(* list and not off, also when the rules file changed while the hub was    *)
(* down (prune, alerts.js 174-187).                                        *)
AlertHasRule ==
    \A k \in Key : inst[k].state # "ok" => k[1] \in DOMAIN rules /\ ~rules[k[1]].off

(* A mute ends with its rule: a rule that comes into the list is not kept  *)
(* quiet by the mute of an earlier rule of its id, also when the rules     *)
(* file changed while the hub was down (prune, alerts.js 182-183), unless  *)
(* the removal could not be saved before the hub stopped.                  *)
NewRuleIsHeard ==
    [][~lost' => \A r \in DOMAIN rules' \ DOMAIN rules : muteRule'[r] = 0]_vars

(* No start and no repeat is told while its rule or node is muted, or      *)
(* while the node is offline after this very step (alerts.js 119-122): the *)
(* offline rule is judged before the others.                               *)
QuietIsSilent ==
    [][\A k \in Key : out'[k] \in {"firing", "repeat"} =>
           ~Muted(k, clock) /\ (k[1] # Offline => inst'[OfflineKey(k[2])].state # "firing")]_vars

(* What is passed on for each alert is a start, repeats at least Repeat    *)
(* apart, and an end: see AlertStream.                                     *)
Stream == INSTANCE AlertStream WITH
              event <- [k \in Key |-> IF out[k] \in Told THEN out[k] ELSE "none"],
              open <- told, openedAt <- toldAt
StreamSpec == Stream!Spec

(* The rules that are on containers in every list a person saves.  A rule  *)
(* of one's own can be given another metric under its id: the alerts it    *)
(* had then stay until the next push that has the new metric's group.      *)
OnContainers == {r \in Rule : \A rs \in RuleSets : r \in DOMAIN rs => rs[r].metric = "container.down"}

(* An alert on a container is kept only while the container counts as seen *)
(* running (alerts.js 54-57, 194-199): one that never ran never alerts,    *)
(* and one that left the list takes its alert with it.                     *)
ContainerWasRunning ==
    \A k \in Key : k[1] \in OnContainers /\ inst[k].state # "ok" => k[3] \in running[k[2]]

(* Can the alert of a key be told, as the minute's check sees it?          *)
CanBeTold(k) ==
    /\ inst[k].state = "firing"
    /\ ~Quiet(k, clock, inst[OfflineKey(k[2])].state = "firing")
    /\ k[2] \in active /\ latest[k[2]] # Never
    /\ k[1] # Offline => ~Stale(k[2])

(* An alert that fired silently is told once nothing keeps it quiet: the   *)
(* end of a mute or of the node's being offline is enough, without a push  *)
(* (alerts.js 134-138, 226-236).                                           *)
SilentIsToldLater ==
    \A k \in Key : CanBeTold(k) ~> (inst[k].notified \/ ~CanBeTold(k))

(* A node that stopped pushing is told offline (alerts.js 217-225), unless *)
(* it comes back, is muted or revoked, or the rule is off for it.          *)
MustGoOffline(n) ==
    /\ n \in active /\ latest[n] # Never
    /\ Stale(n)
    /\ Applies(rules[Offline], n, tags[n])
    /\ ~Muted(OfflineKey(n), clock)
GoneIsToldOffline ==
    \A n \in Node : MustGoOffline(n) ~> (told[OfflineKey(n)] \/ ~MustGoOffline(n))

(* The told alerts of a revoked node end told (alerts.js 9-10 and 286).    *)
RevokedAlertsEnd ==
    \A k \in Key : (k[2] \notin active /\ told[k]) ~> ~told[k]
=============================================================================
