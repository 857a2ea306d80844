------------------------------- MODULE Notify -------------------------------
(***************************************************************************)
(* The notifier (src/hub/lib/notify.js): alert events that the engine      *)
(* tells go to channels.  Each channel has a bounded queue and one worker, *)
(* which tries a message a few times; quiet hours hold warnings and end    *)
(* with one summary; info events wait for a digest once a day.             *)
(*                                                                         *)
(* The engine is the environment: for each alert it tells a start, repeats *)
(* and an end, as AlertStream says.  A severity belongs to an alert's rule *)
(* and is fixed here.  What a person sees on a channel is "seen".          *)
(***************************************************************************)
EXTENDS Integers, Sequences

CONSTANTS
    Channel,       \* channel ids
    Key,           \* alerts
    Sev,           \* alert -> "critical", "warning" or "info"
    Configs,       \* channel settings a person can save, see Config
    Day,           \* length of a day, in units of the clock
    MaxQueue,      \* messages that wait for a channel (100)
    MaxHeld,       \* events held in quiet hours (500)
    MaxDigest,     \* events in the digest (500)
    Retries,       \* tries after the first one (3)
    SaveOutcomes,  \* {TRUE}, or BOOLEAN when notify-state.json may fail to be written
    Restarts,      \* {TRUE} if the hub can stop and start again, else {}
    MaxEvents,     \* bound on the events
    MaxTime        \* bound on the clock

VARIABLES
    clock,     \* the hub's local time
    cfg,       \* the settings in force
    held,      \* events held in quiet hours
    digest,    \* info events for the next digest, by number
    digestDay, \* the day of the last digest, -1 for none
    disk,      \* notify-state.json: the last saved value of the three above
    queue,     \* channel -> messages that wait
    sending,   \* channel -> the message its worker sends, with its failed tries
    firing,    \* environment: alert -> its start was told and its end not yet
    events,    \* environment: number of events so far
    seen,      \* history: channel -> alerts a person takes to be firing
    missed,    \* history: channels that something did not reach
    digested,  \* history: info events that went into a digest
    lastDigest,\* history: the day of the last digest that went out, -1 for none
    out        \* what the last step put into queues

stateVars == <<held, digest, digestDay>>
sendVars == <<queue, sending>>
envVars == <<firing, events>>
pastVars == <<seen, missed, digested, lastDigest>>
vars == <<clock, cfg, stateVars, disk, sendVars, envVars, pastVars, out>>

-----------------------------------------------------------------------------
(* Data.                                                                   *)

Severity == {"critical", "warning", "info"}
Rank(s) == CASE s = "critical" -> 0 [] s = "warning" -> 1 [] s = "info" -> 2

(* The channels that are on, the least severity of each, the ones that get *)
(* the digest, quiet hours (from = to: none, the code refuses such hours)  *)
(* and the time of the digest.                                             *)
Hours == [from : 0 .. Day - 1, to : 0 .. Day - 1]
NoHours == [from |-> 0, to |-> 0]
Config == [on : SUBSET Channel, min : [Channel -> Severity], digest : SUBSET Channel,
           quiet : {h \in Hours : h.from # h.to} \cup {NoHours}, digestAt : 0 .. Day - 1]

(* An event held; a line of a message: an alert and whether it fires; a    *)
(* message: its lines (a digest has none here).                            *)
HeldEvent == [key : Key, kind : {"firing", "repeat", "resolved"}]
Line == Key \X BOOLEAN
Message == SUBSET Line

Nothing == [alert |-> {}, summary |-> {}, digest |-> {}]

ASSUME NotifyAssumption ==
    /\ Sev \in [Key -> Severity]
    /\ Configs \subseteq Config
    /\ Day \in Nat \ {0}
    /\ {MaxQueue, MaxHeld, MaxDigest} \subseteq Nat \ {0}
    /\ {Retries, MaxEvents, MaxTime} \subseteq Nat
    /\ SaveOutcomes \subseteq BOOLEAN /\ Restarts \subseteq {TRUE}

-----------------------------------------------------------------------------
(* Times.                                                                  *)

Minute(t) == t % Day
DayOf(t) == t \div Day

(* Variant: hours that pass midnight are never quiet.                      *)
InQuietSameDay(t) == cfg.quiet.from <= Minute(t) /\ Minute(t) < cfg.quiet.to

InQuiet(t) ==
    /\ cfg.quiet # NoHours
    /\ IF cfg.quiet.from < cfg.quiet.to
       THEN Minute(t) >= cfg.quiet.from /\ Minute(t) < cfg.quiet.to
       ELSE Minute(t) >= cfg.quiet.from \/ Minute(t) < cfg.quiet.to

-----------------------------------------------------------------------------
(* Queues.                                                                 *)

(* Variant: one element too many stays.                                    *)
NewestAndOne(s, n) == IF Len(s) > n + 1 THEN SubSeq(s, Len(s) - n, Len(s)) ELSE s

(* The last n elements of a sequence.                                      *)
Newest(s, n) == IF Len(s) > n THEN SubSeq(s, Len(s) - n + 1, Len(s)) ELSE s

(* deliver: a message waits for each channel; a full queue loses its       *)
(* oldest message.  Full names the channels that lose one.                 *)
Put(q, m, to) == [c \in Channel |-> IF c \in to THEN Newest(Append(q[c], m), MaxQueue) ELSE q[c]]
Full(q, to) == {c \in to : Len(q[c]) >= MaxQueue}

(* The channels that are on and take a severity.                           *)
Takers(s) == {c \in cfg.on : Rank(s) <= Rank(cfg.min[c])}

(* Variant: the first event of an alert.                                   *)
FirstKind(k) ==
    LET at == {i \in DOMAIN held : held[i].key = k}
    IN  held[CHOOSE i \in at : \A j \in at : i <= j].kind

(* releaseHeld: of each alert held, its last event, without the ends of    *)
(* alerts that fired inside the quiet hours.                               *)
LastKind(k) ==
    LET at == {i \in DOMAIN held : held[i].key = k}
    IN  held[CHOOSE i \in at : \A j \in at : j <= i].kind
FiredInside(k) == \E i \in DOMAIN held : held[i].key = k /\ held[i].kind = "firing"
HeldKeys == {held[i].key : i \in DOMAIN held}

Summary == {<<k, LastKind(k) # "resolved">> :
               k \in {x \in HeldKeys : LastKind(x) # "resolved" \/ ~FiredInside(x)}}

(* Held events go out as soon as it is not quiet: what an event or the     *)
(* minute's tick does first.                                               *)
Releases == held # << >> /\ ~InQuiet(clock)
Lines == IF Releases THEN Summary ELSE {}
SummaryTakers == IF Lines = {} THEN {} ELSE Takers("warning")
HeldAfter == IF Releases THEN << >> ELSE held
QueueAfter == Put(queue, Lines, SummaryTakers)

State == [held |-> held, digest |-> digest, digestDay |-> digestDay]

(* save: a write that fails is only logged                                 *)
Save == \E ok \in SaveOutcomes : disk' = IF ok THEN State' ELSE disk

-----------------------------------------------------------------------------
(* Events.  Each way of onEvent has its own action.                        *)

(* The engine tells an event of an alert.                                  *)
Tells(k, kind) ==
    /\ events < MaxEvents
    /\ events' = events + 1
    /\ firing[k] <=> kind # "firing"
    /\ firing' = [firing EXCEPT ![k] = kind # "resolved"]

(* An info event waits for the digest.                                     *)
Info(k, kind) ==
    /\ Tells(k, kind)
    /\ Sev[k] = "info"
    /\ digest' = Newest(Append(digest, events), MaxDigest)
    /\ held' = HeldAfter
    /\ queue' = QueueAfter
    /\ missed' = missed \cup Full(queue, SummaryTakers)
    /\ out' = [Nothing EXCEPT !.summary = Lines]
    /\ UNCHANGED <<clock, cfg, digestDay, sending, seen, digested, lastDigest>>
    /\ Save

(* A warning in quiet hours is held.                                       *)
Hold(k, kind) ==
    /\ Tells(k, kind)
    /\ Sev[k] = "warning"
    /\ InQuiet(clock)
    /\ held' = Newest(Append(held, [key |-> k, kind |-> kind]), MaxHeld)
    /\ missed' = IF Len(held) >= MaxHeld THEN Channel ELSE missed
    /\ out' = Nothing
    /\ UNCHANGED <<clock, cfg, digest, digestDay, sendVars, seen, digested, lastDigest>>
    /\ Save

(* Variant: the event goes out without the summary before it.              *)
DeliverOnly(k, kind) ==
    /\ Tells(k, kind)
    /\ Sev[k] = "critical" \/ (Sev[k] = "warning" /\ ~InQuiet(clock))
    /\ queue' = Put(queue, {<<k, kind # "resolved">>}, Takers(Sev[k]))
    /\ missed' = missed \cup Full(queue, Takers(Sev[k]))
    /\ out' = [Nothing EXCEPT !.alert = {k}]
    /\ UNCHANGED <<clock, cfg, stateVars, disk, sending, seen, digested, lastDigest>>

(* Any other event goes to the channels at once, after what was held.      *)
(* Nothing is saved: notify-state.json keeps the held events until the     *)
(* next save.                                                              *)
Deliver(k, kind) ==
    /\ Tells(k, kind)
    /\ Sev[k] = "critical" \/ (Sev[k] = "warning" /\ ~InQuiet(clock))
    /\ held' = HeldAfter
    /\ queue' = Put(QueueAfter, {<<k, kind # "resolved">>}, Takers(Sev[k]))
    /\ missed' = missed \cup Full(queue, SummaryTakers) \cup Full(QueueAfter, Takers(Sev[k]))
    /\ out' = [Nothing EXCEPT !.alert = {k}, !.summary = Lines]
    /\ UNCHANGED <<clock, cfg, digest, digestDay, disk, sending, seen, digested, lastDigest>>

-----------------------------------------------------------------------------
(* The minute's tick: the summary, the digest when its time has come.      *)

DigestDue == Minute(clock) >= cfg.digestAt /\ digestDay # DayOf(clock)
DigestTakers == IF DigestDue /\ digest # << >> THEN cfg.on \cap cfg.digest ELSE {}
Digested == IF DigestDue THEN {digest[i] : i \in DOMAIN digest} ELSE {}

TickChanges ==
    /\ held' = HeldAfter
    /\ queue' = Put(QueueAfter, {}, DigestTakers)
    /\ missed' = missed \cup Full(queue, SummaryTakers) \cup Full(QueueAfter, DigestTakers)
    /\ digest' = IF DigestDue THEN << >> ELSE digest
    /\ digestDay' = IF DigestDue THEN DayOf(clock) ELSE digestDay
    /\ digested' = digested \cup Digested
    /\ lastDigest' = IF Digested # {} THEN DayOf(clock) ELSE lastDigest
    /\ out' = [Nothing EXCEPT !.summary = Lines, !.digest = Digested]
    /\ UNCHANGED <<clock, cfg, sending, envVars, seen>>

(* Variants: the tick does not save; it leaves the summary to events.      *)
TickUnsaved == TickChanges /\ UNCHANGED disk
TickLeavesHeld == held = << >> /\ TickChanges /\ Save

Tick == TickChanges /\ Save

-----------------------------------------------------------------------------
(* Sending.  A channel's worker takes one message at a time.               *)

(* The next message; it is dropped if the channel was turned off meanwhile *)
TakeNext(c) ==
    /\ queue[c] # << >>
    /\ queue' = [queue EXCEPT ![c] = Tail(@)]
    /\ sending' = [sending EXCEPT ![c] = @ \cup IF c \in cfg.on THEN {[msg |-> Head(queue[c]), tries |-> 0]} ELSE {}]
    /\ missed' = missed \cup ({c} \ cfg.on)
    /\ out' = Nothing
    /\ UNCHANGED <<clock, cfg, stateVars, disk, envVars, seen, digested, lastDigest>>

(* Variants: a message is taken while another one is being sent; a worker  *)
(* stops at a channel that was turned off.                                 *)
TakeAnyTime(c) == TakeNext(c)
TakeIfOn(c) == sending[c] = {} /\ c \in cfg.on /\ TakeNext(c)

Take(c) == sending[c] = {} /\ TakeNext(c)

(* What a person takes to be firing after a message.                       *)
Read(fires, m) == (fires \cup {k \in Key : <<k, TRUE>> \in m}) \ {k \in Key : <<k, FALSE>> \in m}

(* One try of send: it succeeds; or it fails, and the message may have     *)
(* arrived all the same (a lost answer).  A failure is tried again, unless *)
(* it is final or the tries are used up.                                   *)
Try(c, s, arrived, left) ==
    /\ s \in sending[c]
    /\ seen' = IF arrived THEN [seen EXCEPT ![c] = Read(@, s.msg)] ELSE seen
    /\ sending' = [sending EXCEPT ![c] = (@ \ {s}) \cup left]
    /\ out' = Nothing
    /\ UNCHANGED <<clock, cfg, stateVars, disk, queue, envVars, digested, lastDigest>>

Sent(c, s) ==
    /\ Try(c, s, TRUE, {})
    /\ UNCHANGED missed

FailsOnce(c, s, arrived) ==
    /\ s.tries < Retries
    /\ Try(c, s, arrived, {[s EXCEPT !.tries = @ + 1]})
    /\ UNCHANGED missed

GivesUp(c, s, arrived) ==
    /\ Try(c, s, arrived, {})
    /\ missed' = missed \cup {c}

-----------------------------------------------------------------------------
(* Settings, restart, time.                                                *)

(* Channels that new settings turn off, or give another severity.          *)
Changed(g) == (Channel \ g.on) \cup {c \in Channel : g.min[c] # cfg.min[c]}

(* setConfig: the file is written first; when that fails nothing changes.  *)
SetConfig(g) ==
    /\ g # cfg
    /\ cfg' = g
    /\ missed' = missed \cup Changed(g)
    /\ out' = Nothing
    /\ UNCHANGED <<clock, stateVars, disk, sendVars, envVars, seen, digested, lastDigest>>

(* The hub stops at any time and starts again: what waits or is being sent *)
(* is gone, the rest comes from the files.  channels.json may have been    *)
(* edited; one that cannot be read leaves no channels.                     *)
Restart(g) ==
    /\ TRUE \in Restarts
    /\ cfg' = g
    /\ held' = disk.held /\ digest' = disk.digest /\ digestDay' = disk.digestDay
    /\ queue' = [c \in Channel |-> << >>]
    /\ sending' = [c \in Channel |-> {}]
    /\ missed' = missed \cup Changed(g) \cup {c \in Channel : queue[c] # << >> \/ sending[c] # {}}
                 \cup (IF disk = State THEN {} ELSE Channel)
    /\ out' = Nothing
    /\ UNCHANGED <<clock, disk, envVars, seen, digested, lastDigest>>

Pass ==
    /\ clock < MaxTime
    /\ clock' = clock + 1
    /\ out' = Nothing
    /\ UNCHANGED <<cfg, stateVars, disk, sendVars, envVars, pastVars>>

-----------------------------------------------------------------------------
Init ==
    /\ clock = 0
    /\ cfg \in Configs
    /\ held = << >> /\ digest = << >> /\ digestDay = -1
    /\ disk = State
    /\ queue = [c \in Channel |-> << >>]
    /\ sending = [c \in Channel |-> {}]
    /\ firing = [k \in Key |-> FALSE]
    /\ events = 0
    /\ seen = [c \in Channel |-> {}]
    /\ missed = Channel \ cfg.on
    /\ digested = {}
    /\ lastDigest = -1
    /\ out = Nothing

Kinds == {"firing", "repeat", "resolved"}

SendStep(c) == \E s \in sending[c] : \/ Sent(c, s)
                                     \/ \E arrived \in BOOLEAN : FailsOnce(c, s, arrived)
                                     \/ \E arrived \in BOOLEAN : GivesUp(c, s, arrived)

Next ==
    \/ \E k \in Key, kind \in Kinds : Info(k, kind)
    \/ \E k \in Key, kind \in Kinds : Hold(k, kind)
    \/ \E k \in Key, kind \in Kinds : Deliver(k, kind)
    \/ Tick
    \/ \E c \in Channel : Take(c)
    \/ \E c \in Channel : SendStep(c)
    \/ \E g \in Configs : SetConfig(g)
    \/ \E g \in Configs : Restart(g)
    \/ Pass

Spec == Init /\ [][Next]_vars

(* The timer fires every minute, workers run, a send ends (requests have a *)
(* timeout), and time passes.                                              *)
FairSpec ==
    /\ Spec
    /\ WF_vars(Tick) /\ WF_vars(Pass)
    /\ \A c \in Channel : WF_vars(Take(c)) /\ WF_vars(SendStep(c))

-----------------------------------------------------------------------------
(* Properties.                                                             *)

(* The state of the notifier has its type and its bounds.                  *)
TypeOK ==
    /\ clock \in Nat
    /\ cfg \in Configs
    /\ held \in Seq(HeldEvent) /\ Len(held) <= MaxHeld
    /\ digest \in Seq(Nat) /\ Len(digest) <= MaxDigest
    /\ digestDay \in Nat \cup {-1}
    /\ disk \in [held : Seq(HeldEvent), digest : Seq(Nat), digestDay : Nat \cup {-1}]
    /\ queue \in [Channel -> Seq(Message)]
    /\ \A c \in Channel : Len(queue[c]) <= MaxQueue
    /\ sending \in [Channel -> SUBSET [msg : Message, tries : 0 .. Retries]]
    /\ firing \in [Key -> BOOLEAN]
    /\ events \in Nat
    /\ seen \in [Channel -> SUBSET Key]
    /\ missed \subseteq Channel
    /\ digested \subseteq Nat
    /\ lastDigest \in Nat \cup {-1}
    /\ out \in [alert : SUBSET Key, summary : Message, digest : SUBSET Nat]

(* Nothing waits for a channel, and nothing failed to reach it.            *)
Settled(c) == c \notin missed /\ queue[c] = << >> /\ sending[c] = {} /\ held = << >>
Concerns(k, c) == Sev[k] # "info" /\ Rank(Sev[k]) <= Rank(cfg.min[c])

(* Once nothing waits, a person sees every alert that fires: messages come *)
(* in order, with retries, and the summary stands for what was held        *)
(* (notify.js 373-411).                                                    *)
FiringIsSeen ==
    \A c \in Channel, k \in Key : Settled(c) /\ Concerns(k, c) /\ firing[k] => k \in seen[c]

(* Once nothing waits, a person knows the end of every alert they were     *)
(* told the start of: "an end never overtakes its start" (notify.js 373),  *)
(* and the summary has the "ends told before the window" (397).            *)
EndIsSeen ==
    \A c \in Channel, k \in Key : Settled(c) /\ Concerns(k, c) /\ k \in seen[c] => firing[k]

(* A summary says what is true when it is made: an alert in it still fires *)
(* (notify.js 5-6, 396-411).                                               *)
SummaryIsTrue == [][\A l \in out'.summary : l[2] <=> firing[l[1]]]_vars

(* The minutes from one time of the day to another, midnight or not.       *)
QuietMinutes(h) == {(h.from + i) % Day : i \in 0 .. ((h.to - h.from) % Day) - 1}

(* In quiet hours only critical alerts go to channels, also when the hours *)
(* pass midnight or change (notify.js 325-329, 426-431).                   *)
QuietIsKept ==
    [][(out'.summary # {} \/ \E k \in out'.alert : Sev[k] # "critical")
           => Minute(clock) \notin QuietMinutes(cfg.quiet)]_vars

(* At most one digest a day, and no event in two, also over restarts and   *)
(* changes of the digest's time (notify.js 434-448).                       *)
NoDigestTwice ==
    [][out'.digest # {} => out'.digest \cap digested = {} /\ lastDigest < DayOf(clock)]_vars

(* What quiet hours hold goes out when they end, with or without another   *)
(* event (notify.js 419, 437).                                             *)
HeldIsReleased ==
    (held # << >> /\ ~InQuiet(clock)) ~> (held = << >> \/ InQuiet(clock))

(* A queue empties: no message waits for ever behind one that fails.       *)
QueueEmpties == \A c \in Channel : queue[c] # << >> ~> queue[c] = << >>
=============================================================================
