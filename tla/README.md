# A TLA+ model of Servitals

Servitals watches a small fleet of servers. An **agent** (bash) on each server
collects numbers and pushes them, signed, to a **hub** (node.js). The hub keeps
the last push of each node, a history, and an alert engine whose events go to a
notifier; a page and `servitals-ctl` administer it. This directory models the
parts whose correctness rests on the order of things, checks them with TLC on
small instances and proves with TLAPS that their safety properties hold for every value
of the constants.

Paths are relative to the repository root, which `PROJECT.json` calls `src/`.

## 1. The system

| Part | State | Operations | Correct when |
|---|---|---|---|
| alert engine, `hub/lib/alerts.js` | instances per rule/node/sub, containers seen running, mutes, `state.json`, event log | `evaluate` (a push), `check` (each minute), `mute`, `setRules`, `forget`, start | receivers see start, repeats, end; nothing while quiet; nothing is forgotten over restarts; no alert without its rule |
| agent API, `hub/lib/agentapi.js` | last TS per node and endpoint, `replay.json`, last push, held waits, failure counters | push, wait, wake, close | only newer requests accepted; a revoked node is refused; a wake finds the held wait; only failing clients are slowed |
| hub wiring, `hub/server.js` | last snapshots, sessions, bans, start time | `onSnapshot`, minute timer, `wakeNode`, page handlers, login, start/stop | components change together |
| node store, `hub/lib/nodes.js` | `nodes.json`, a copy of it in each process | add, rename, tag, rotate, revoke, reload, in the hub and in `servitals-ctl` | no node lost, none back after a revocation; an old secret valid one day |
| code linking, `hub/lib/link.js`, `bin/servitals-agent` | requests and codes in memory, limits | start, poll, find, decide, sweep | one node per approved code, and its agent is told |
| snapshots, `hub/lib/snapshot.js` | last snapshot per node, in memory and on disk | validate, rate, view | a rate is never more than what really happened |
| history, `hub/lib/history.js` | the open minute in memory, a ring file with three tiers per series | add, flush, query, sweep, remove | a slot shows its own time only; nothing missing; bounded |
| login, sessions, bans, `hub/server.js`, `hub/lib/{admin,clientip}.js` | `admin.json`, `bans.json`, `fails.json`, whitelist; cookies with a generation | login, account, ban, `servitals-ctl passwd`, `unban`, `whitelist` | tries bounded; a change of the login ends the sessions before it |
| notifier, `hub/lib/notify.js` | queue and worker per channel, held list, digest, `state` file | `onEvent`, `tick`, `deliver`, `test`, reload | order per channel; nothing lost but by the bound; quiet hours kept |
| settings, `hub/lib/confd.js`, `www/js/{app,settings}.js` | `config.json`, files in `conf.d`, the page's copy, the browser's | load, edit, import, reset, save | a file's value is never saved as the person's |
| alerts window, `www/js/alerts.js` | rows, dirty marks, calls under way | load, edit, save, revert, test, mute | no edit lost, no old list over a new one |
| view of a node, `www/js/{app,history}.js` | route, sample, refresh under way, chart | route, tick, refresh, load history | what is shown is of the node that is open |
| agent, `agent/collect.sh`, `agent/lib/api.sh` | interval, trigger file, backoff | push loop, wait loop | a wake leads to a push |
| collectors, crypto, mail, packaging | see `PROJECT.json` | I/O and formatting | not modelled |

Interactions: an agent's HTTP request enters the agent API, which on a stored
push calls `onSnapshot` in `server.js`; that derives rates from the last snapshot,
stores the new one, adds its series to the history, then calls the alert engine; its
events go to the notifier in the same synchronous step. Timers of a minute call
`alerts.check`, `history.flush` and `notifier.tick`. The page's handlers mute, edit
rules and channels, save settings, approve links, tag and revoke. `servitals-ctl` is
another process that shares only files; the page shares nothing with the hub but its
calls, which overlap.

What makes it hard: a request spans an `await` of its body, and whatever was
looked up before it is used after it; alerts are told before the state is saved;
rules and nodes change while alerts are open; the hub may stop between any two
steps, and between any two writes to a file; two processes edit `nodes.json` and
`admin.json` without a lock; agents retry, reorder and lose requests; several
connections of one agent overlap; a person clicks on while the page waits. `PROJECT.json` lists the hazards at their lines.

## 2. Modules

| Module | Models |
|---|---|
| `Alerts` | the alert engine and the parts of `server.js` that drive it |
| `AlertStream` | abstract: what a receiver of alert events may rely on |
| `AgentApi` | `agentapi.js`, `wakeNode`, and both ways to revoke a node |
| `Notify` | `notify.js`, with the engine's event stream as its environment |
| `Nodes` | the node store in both processes |
| `Link` | code linking with the agent's side; extends `Nodes`, in which an approval adds a node |
| `Snapshot` | validation and view of a snapshot, with the monitored host |
| `History` | the ring files of a node |
| `Ingest` | `onSnapshot`: composes `Snapshot` and `History` |
| `Auth` | login, sessions, bans |
| `Settings`, `Editor`, `View` | the page: settings, alerts window, view of a node |
| `Console` | the four parts a person at a browser meets, one of them per behaviour |
| `AlertsProofs`, `AgentApiProofs`, `NotifyProofs` | theorems about `Alerts`, `AgentApi`, `Notify` |
| `EnrolProofs`, `StoreProofs` | theorems about `Link` and about `Nodes` within it |
| `IngestProofs` | theorems about `Snapshot` and `History` as `Ingest` composes them |
| `AuthProofs`, `PageProofs` | theorems about the parts of `Console` |
| `MCAlerts`, `MCAgentApi`, `MCNotify`, `MCEnrol`, `MCIngest`, `MCConsole` | values of the constants for TLC, with the `.cfg` files |

Definitions commented "Variant" are mutated forms of the one below them; no
specification uses them. They show that the properties are sensitive: with the
variant in place TLC finds the property violated.

### Alerts

`inst` is the `instances` map, keyed `<<rule, node, sub>>`; "ok" stands for an
absent entry. `running`, `muteRule`, `muteNode` are the engine's other state and
`disk` is `state.json`. `active`/`tags` are what `nodes.list()` gives, `latest`
the time of a node's last snapshot, `inflight` the pushes whose body is awaited.
`out` is what the step passes to the log; `told`, `toldAt` and `lost` are history
variables. One action per operation: `Evaluate`, `Check`, `MuteRule`/`MuteNode`,
`SetRules`, `RevokeFromPage` (which calls `forget`), `Restart` (load, prune,
save); each ends with the save the code ends with. Judging one key is the
operator `Judge`, shared by `EvaluateKey` and `CheckKey` as `judge` is in the code.

Abstractions:

- `clear: null` is the same as `clear` equal to the threshold, so it is not a
  case of its own; severity, names and values of events are left out.
- A push is a function from groups to readings; two mounts of one name are not
  modelled. The clock does not go back.
- The order of rules matters only in that the offline rule is judged first.
- The event log is the sequence of `out`; its trimming and a line torn by a crash
  are left out.
- A save that fails leaves the file as it was. It also stands for a crash between
  telling and saving. A start whose save fails ends the process (as in the code).
- `Node` is the set of nodes that can be revoked; the hub's own node cannot be.
- `RevokeFromPage` is one step, as its handler is synchronous. A hub that stops inside it,
  after `nodes.json` was written and before `forget` (`server.js` 920-924), leaves what
  `RevokeFromCtl` followed by `Restart` leaves: alerts of a node that is gone. `alerts_told`
  has both ways; `RevokedAlertsEnd` says of the page's way only what holds without such a
  stop, and `alerts_ctl` shows what the other way leaves.
- After a restart only "has a last push or not" matters, because the code takes
  the later of the last push and the hub's start.
- What `checkRules`/`buildRules` ensure of a list is `RuleSetsAssumption`.

### AgentApi

`conn` maps a connection to its phase: `Reading` (head checked, body awaited),
`Waiting` (held), `Ended` (answered, its close event to come). `sent` is the set
of requests agents signed; a request can be delivered at any time, any number of
times, or never. `Refuse` and `Arrive` are the part of `handle` before the await;
`Broken`, `BadSignature`, `PushRefused`, `PushStored`, `WaitHeld` the part after
it. `secret` says whether the node object the request looked up still has its
secret: a revocation from the page empties it in that very object, one by
`servitals-ctl` does not reach it.

Abstractions:

- One client address, the worst case for the failure limiter: everyone is behind
  the same NAT. A counter over `FailLimit` counts as `FailLimit`.
- The model lets a wait's empty body take as long as a push's. The code mostly
  reads it without another request in between; the model allows more, and the
  finding on replay is therefore shown with pushes.
- An edit by `servitals-ctl` while a body is read makes the hub reload
  `nodes.json`, and the request keeps the old object, which a later revocation
  from the page does not reach. This is not modelled.
- `MaxReading` bounds the bodies being read at once.

### Notify

`queue` and `sending` are a channel's queue and the message its worker tries;
`held`, `digest`, `digestDay` are `st`, and `disk` is `notify-state.json`. The three
ways through `onEvent` are `Info`, `Hold` and `Deliver`; each begins with the release
of held events when it is not quiet (`HeldAfter`, `QueueAfter`), as the code does.
`Deliver` does not save, as in the code. `Take`, `Sent`, `FailsOnce`, `GivesUp` are
the worker; a try that failed may have arrived. The environment tells, per alert,
a start, repeats and an end, which is what `AlertStream` promises and
`StreamRefinement` proves of the engine. `seen` is what a person reading a channel
takes to be firing.

Abstractions:

- A day has `Day` units; quiet hours and the digest's time are units of it. Summer
  time and a clock that is set back are left out.
- A rule's severity does not change. Message texts, and the channel's address, are
  left out; a send keeps trying with the settings it started with, as in the code.
- The state file is replaced atomically, so one that cannot be parsed is left out;
  a `channels.json` that cannot be read is a setting without channels.
- `missed` marks channels that lost something by what the code documents: a full
  queue, a send given up, a channel off, a stop with messages under way. The
  properties on what a person sees speak of the others.
- Not modelled: "send test" and the last result kept for the page.

### Nodes and Link

Hub and `servitals-ctl` run the same code, so there is one set of actions with the
process as parameter. A change is three steps: `Begin` (load, check, change the copy in
memory), `Write` (the file is replaced) or `WriteFails`, `Stat` (its time stamp is
noted). `mem` is a process's copy with the time stamp it has seen, `file.stamp` counts
the changes of the file. `servitals-ctl` starts with nothing in memory each time. A file
can be absent, good, or `bad`: broken by hand. `Accepts` is what the agent API makes of
the store. In `Link`, `Approve` is `decide` up to the save of the node and `Approved` the
rest; the node's save can fail in between (`ApproveFails`), or the hub stop. A poll can be
answered, answered with the reply lost, get no answer at all, over a network that is down
or from a hub that is (`PollUnanswered`, at any time), or another answer that ends the
agent (`PollDies`). `added` is every node that a write has put into the file, also one left
in memory by a save that failed and written by the next.

Abstractions:

- Names and tags are left out: a rename writes the file as it is in memory.
- The time stamp differs after every write. Two writes in the same millisecond, and the
  stamp of another's write noted as one's own, are among the races below.
- `raced` marks behaviours where a writer began before the other had ended, or a hand
  edit fell between. The properties of the store speak of the others; see section 6.
- A time unit is far longer than a poll interval: an agent polls at least once in each.
- The limits on starts, open requests and wrong codes only refuse, and are left out.

### Snapshot, History and Ingest

`Snapshot` has the host as environment: it counts traffic, boots (counters restart at 0)
and changes its interface; what it measured arrives in any order, late or twice. `flow`
is the true traffic. In `History` a point is not a number but what it was computed from:
its minute and the number of its samples for the fine tier, the set of those for the
coarse one, so that a query can be compared with what really came. `Stages` is the file
after each of the writes `writeMinute` makes; a crash or an error ends a write after any
of them (`Reached`, `StopStart`). `Ingest` joins both at `onSnapshot`: a series is added
only where the view has a number.

Abstractions:

- Two tiers stand for the code's three.
- `fault` names what goes wrong in a behaviour: nothing, one write or stop, the clock
  going back once, the host's troubles, or too many names of series. One fault per
  behaviour keeps the instances small.
- One network counter stands for all counters; all are guarded the same way.

### Auth

A request is in one of four places: its body awaited, its password being checked, slowed
down for 800 ms after a wrong one, or the new password being hashed. What it read on
arrival (ban, whitelist) and when its body came (login, generation) stays in it.
`servitals-ctl passwd` is two steps, a read and a replace. `tried` counts wrong
passwords checked since an address was last cleared, whatever was recorded of them.
Name and password are one value; hashing and signing are left out. A ban or a session can
end at any time.

`fails.json` and `bans.json` are written in place, and a file that does not parse reads as
an empty one. So each write of `recordFail` and `clearFails` can throw, the file unchanged
or empty after it (`CountBreaks`, `ClearBreaks`), bans can go that did not end (`BansLost`:
a torn write of `banInfo`, or an `unban` that puts back what it read before a ban), and
the hub can stop with wrong passwords in their 800 ms uncounted (`HubStops`; a stop in the
middle of `recordFail` is `CountBreaks` and then `HubStops`). `spared` is the history of the
addresses that lost a count or a ban this way, until their count starts over.

### Settings, Editor, View

One panel's setting stands for all: its value in the shared set, which a file may manage,
and in the set of its own a node may have (`nodePanels`), which starts as a copy of the
shared one (`OwnSet`) and which no file manages. A setting that is no panel has only the
shared value. `Settings` has a page, its browser's local copy, the
hub's saved copy and a file that comes and goes; `behind` marks pages that got a file's
value before the hub saw it removed, `copied` those that copied one into a node's own set.
`OtherSaves` is any other page. In `Editor` the rows
are the set of changes that are in them; calls are served in any order, fail, or lose
their answer after they were served. In `View` a sample is its node and its time, and a
refresh is the chain of awaits of `refreshNow`: a tick, the wake, and ticks until a newer
sample is there. Drawing is left out: `RenderMetrics` is which sample is drawn.

`Console` puts `Auth` and the three together. They have no state in common, so a
behaviour of all is one of each: a behaviour of `Console` is about one part, chosen at
its start, which checks all of them in one run without multiplying their states.

## 3. Runs

| Run | Shows |
|---|---|
| `alerts_told` | one node, a disk rule with a clear value, `lab` overrides, mutes, edits, tags, both revocations, restarts: `ToldMatchesState`, `QuietIsSilent`, refinement of `AlertStream` |
| `alerts_live` | containers that appear, fail, vanish, empty lists, rules off or removed, with a fair timer: `AlertHasRule`, `ContainerWasRunning`, `NewRuleIsHeard`, `SilentIsToldLater`, `GoneIsToldOffline`, `RevokedAlertsEnd` |
| `alerts_ctl` | **violation**: the alerts of a node revoked with `servitals-ctl` never end |
| `api` | late, repeated, reordered delivery, wrong secrets, overlapping waits, both revocations, restarts: types, `AcceptedIsNewer`, `RevokedIsRefused`, `HeldIsFound`, `HeldIsAnswered`, `SlowedForOwnFailures` |
| `api_replay` | **violation**: two pushes read at once, the second is accepted with a TS that is not newer |
| `notify_quiet` | quiet hours of all shapes, edited while they run, full queues, failing sends: `FiringIsSeen`, `SummaryIsTrue`, `QuietIsKept`, `HeldIsReleased` |
| `notify_send` | two days with restarts, channels off, digest times: types and bounds, `EndIsSeen`, `NoDigestTwice`, `QueueEmpties` |
| `notify_flap` | **violation**: an end that quiet hours swallow |
| `enrol` | both writers of `nodes.json`, failing writes, stops, broken files, linking with lost replies: `AddedStays`, `CutStaysCut`, `RetiredIsRefused`, `GraceIsKept`, `OneNodePerCode`, `ApprovedIsTold` |
| `ingest` | snapshots to ring files with all faults: `RateIsTrue`, `ShownIsTrue`, `NothingMissing`, `SeriesCapped`, `SweepLosesNothing` |
| `console` | overlapping logins and changes of the login, broken writes of the counters and stops, managed settings, edits during saves, late answers: `TriesBounded`, `ChangeEndsSessions`, `SavedIsOwn`, `EditsKept`, `ListNeverGoesBack`, `ChartIsOwn` |
| `page_late` | **violation**: a sample of one node drawn under another |

Bounds. Time runs to 3 or 4 units; a `for` of 1, a `Repeat` and an offline
`Limit` of 2 each leave room for pending, firing, repeat and end, and for a mute
that ends within the run. Readings 0, 1, 2 are below the clear value, between
it and the threshold, and over it. One node suffices for alerts because no
operator relates two nodes (each key reads its own node's state only); two rules
are needed for the inhibition by the offline alert. For the API one node with two
connections has the overlaps that matter (an older wait whose close is still to come
and a newer one; a body being read while a wait is held); the failure limiter needs a
second client, which is whoever names no known node, and a map that holds one client. `MaxTime`
bounds liveness too: a run in which time has stopped is checked as one where the
clock stays, so the liveness properties speak of what is due within the bound.
Saves fail only in the proof (`ToldCorrect` holds for any outcome of a save), since
what a lost state does to a receiver is not what `StreamSpec` is about. For the
notifier a day of three units has a time before, in and after quiet hours; queues of
two messages overflow with the four events a run has; one channel suffices, as
channels share nothing but the settings. `SummaryIsTrue` is checked without restarts
and `EndIsSeen` without quiet hours: section 6 and `notify_flap` say why.

In `enrol` there are three nodes, one of them the hub's own, two of them alike
(symmetry), four changes of the file and four secrets: enough for an add, two rotations
and a revocation, or for a link and its failed save. People either administer nodes or
link one in a behaviour (`Scenarios`), which bounds the run. An overlap of two units has
a rotation within the window of another. One request is enough for linking, as requests
share only the clock. In `ingest` a fine tier of three minutes and a coarse one of three
times two minutes wrap and straddle each other within seven minutes, which is also
longer than the sweep's reach of six. In `console` two requests at once and `MaxFails`
of 2 have the overlap at the ban; two changes of the login, three edits and two calls,
two nodes and two loads of history are the smallest with a late answer after a newer
one. `AllScenes` splits the logins: anyone calls; or the login changes; or two writes break
or the hub stops, with one address calling. A setting has one value a person can give,
besides the built-in and the file's: the properties ask only which of these three it is.
`Covered` ends a behaviour there once a mark is set (`crossed`, `unlisted`) after
which no property says anything, and leaves out pages that have an import on the screen
and a copy in the browser at once; the proof of `SavedIsOwn` does not.

Deadlock is checked in the runs of `Alerts`, `AgentApi` and `Notify`. `enrol`, `ingest`
and `console` may stop: their clocks and counters reach their bounds and nobody has to
ask for anything more.

Fairness. `WF(Check)`: the hub's `setInterval` of a minute fires while it runs.
`WF(Tick)`: time passes. `WF(Timeout(s))`: a `setTimeout` of a held wait fires. For the notifier `WF(Tick)` is
the same minute's timer, `WF(Take(c))` and `WF(SendStep(c))` a worker that goes on
and a send that ends: every request has a timeout.
Nothing is assumed of agents, persons, or restarts. That an approved agent is told
needs no fairness: `ApprovedIsTold` is about the moment it gives up.

## 4. Proofs

Every invariant and every action property that a passing run checks is a theorem: it
holds for all values of the constants, all numbers of nodes, rules, series, connections,
channels, pages, and all sizes of rings and queues. What the constants must satisfy is
assumed by name in the modules. Each proof has the same shape: an inductive invariant, one
lemma per group of actions that keeps it, and the property as its consequence.

**Alerts** (`AlertsProofs`)

- `TypeCorrect`: `TypeOK`, inductive by itself; the others rest on it.
- `NewRulesAreHeard`: an action property, by `MutesHaveRules`: only a rule of the list is
  muted. A restart may find a mute of a rule that is gone only in a file whose last save
  failed, which `lost` marks.
- `ToldCorrect`: `ToldMatchesState`. `Matches` alone is not inductive: a restart
  replaces the state by the file's. Every operation's result *continues* the told stream
  of a matching instance (`…Continues` lemmas), so `Apply` keeps `Matches`, and a restart
  either finds `disk = State` or sets `lost`.
- `StreamRefinement`: if every save succeeds, `Spec => StreamSpec`. It needs
  `NothingUnsaved` (the file equals the state), so that a restart is a stutter of the
  stream or a set of ends.
- `AlertHasRuleCorrect`; `QuietStaysSilent`, an action property: the offline alert of the
  node is judged before any other is asked whether it is quiet.
- `ContainersRanFirst`: `RunningInv` says it of the state and of the file, since a restart
  brings the file's back. It also needs `AlertHasRule`.

**AgentApi** (`AgentApiProofs`)

- `HeldCorrect` and `TypesCorrect`: proved together, because the types are not
  inductive alone: that `waiters[n]` names a connection in phase `waiting` is what makes
  `conn[waiters[n]].node` exist.
- `RevokedCorrect`, by `CutHasNoSecret`: no request being read that still has a secret is
  of a revoked node.
- `OrderCorrect`, with one body read at a time and a replay file that can be written, by
  `InOrder` (memory, file and history agree, a request being read is newer than all).
  `api_replay` shows what happens without the first assumption.
- `SlowedCorrect`, by `FailInv`: the counter never says more than the client's last
  failures do, and its window ends no later than theirs.

**Notify** (`NotifyProofs`)

- `TypesCorrect`: the bounds hold of the file too (`TypeInv`), or a restart would break them.
- `FiringReachesPeople`, `EndsReachPeople`, `CriticalEndsReachPeople`: one invariant,
  `SeenInv`. For every channel that lost nothing, what its reader will take to be firing
  once its queue and the message being sent have arrived is what fires, or the alert is
  held (`Reaches`). `EndIsSeen` assumes that no settings have quiet hours: `notify_flap`
  shows why. `CriticalEndIsSeen` says the same of critical alerts under any quiet hours.
- `SummariesAreTrue`: the last event held of an alert says whether it fires. It assumes
  that the hub does not restart: section 6 says why.
- `DigestsDoNotRepeat`: if saves succeed. `DigestInv`: the file has what memory has, and
  the day of the last digest is never ahead.
- `QuietHoursAreKept`: that `inQuiet`'s two cases are the minutes from one time of the day
  to another, over midnight or not.

**Nodes and Link** (`EnrolProofs`, `StoreProofs`)

- `CodeMakesOneNode`, `ApprovedAgentIsTold`, by `LinkInv`: an approval under way has its
  request pending and its node not yet in the store; while an agent polls, the hub has its
  request; and no copy or file has a node of a request that was neither approved nor
  excused, so that no later save can add one. An unanswered poll leaves all of it alone
  until the deadline. The second uses `Slack <= Keep`: an agent polls for at most 30 s after its
  request ended and the hub keeps an answer for `KEEP_MS`, which is longer.
- `AddedNodesStay`, `RevokedStaysRevoked`, `RetiredSecretsEnd`, `GraceIsAlwaysKept`, by
  `StoreInv`, while no two writers overlapped: whenever the hub would answer or write from
  its copy, that copy covers the file (`HubFits`: it has all nodes of the file, but may have
  revoked more by a write that failed); what `servitals-ctl` writes differs from the file in
  its own node only (`CtlFits`); the file has every secret's history (`FileFits`).

**Snapshot and History** (`IngestProofs`)

- `RatesAreTrue`, by `CounterInv`: between two samples of one interface the counter never
  gains more than the traffic did. It is what remains true over boots and other interfaces.
- `FilesAreCapped`, `HistoryIsTrue`, `SweepIsSafe`, by `HistInv`: every point in a file is
  in its slot and of a minute with samples (`Own`), less than a turn behind the last index
  and not ahead of it (`Tight`) or, where a write may have ended early, ahead of it by no
  more than the clock (`Loose`); the coarse index is never ahead of the fine one. `Tight`
  is what lets the clock go back; `Loose` is what a crash between two stages leaves. Two
  indices of one slot less than a turn apart are equal (`SameSlot`), so what is shown is
  of its time.
- `HistoryIsWhole` (`NothingMissing`), by `FullInv`: every minute with samples is in
  memory, or in both tiers wherever they go back to it, or out of reach. That last part
  is needed because the sweep may take a series whose next minute is already in memory.
  The coarse point has all of its bucket because a bucket fits in the fine tier
  (`Step <= Len1`, which the code's 10 and 60 minutes against a day satisfy).

`add` and `flush` are loops over the series of a snapshot, written as folds. That a fold
is a loop is proved by induction over its length: the library's induction rules cannot be
instantiated by the provers, but the existence of a least counterexample follows from
`WFMin` and `NatLessThanWellFounded` (`LeastNatural`, `Induction`, `FoldIsLoop`), and a
set can stand for the predicate. `LoopDoes` then says what a loop does to each series.

**Auth and the page** (`AuthProofs`, `PageProofs`)

- `TriesAreBounded`, by `TriesInv`: wrong passwords that were checked are recorded, or
  belong to a request that is being slowed down, or came with the ban. It counts requests,
  hence the assumption that `Slot` is finite. What breaks leaves the count and the ban of
  an address alone, bans it, or spares it (`SparedStep`).
- `ChangeEndsAllSessions`, by `SessionInv`: while no two changes crossed, no cookie has a
  generation above the login's, and those of the login's were made after the last change.
- `SavedIsAlwaysOwn`: a page that is not `behind` has the file's value nowhere in its shared
  settings while the hub has no such file (`SetInv`), and none has it in a node's own set
  until `ownSet` copies it there (`OwnInv`). `EditsAreKept`: with one call under way, what
  the person keeps is in the rows, and in what was sent or stored. `ListOnlyGrows`: only the newest load draws.
  `ChartIsAlwaysOwn`: only the latest load draws, and it is of the node `histState` names.

Assumptions on constants, besides types: finite `Slot` and `Series`, a nonempty `Iface`,
pairwise different values of a setting, `Step <= Len1 <= Reach`, `0 < Slack <= Keep`.

Only model-checked: liveness (`SilentIsToldLater`, `GoneIsToldOffline`,
`RevokedAlertsEnd`, `HeldIsAnswered`, `HeldIsReleased`, `QueueEmpties`), because the prover
handles neither fairness nor `ENABLED`; and the four violations, which are counterexamples.

## 5. Findings

1. `servitals-ctl node revoke` edits `nodes.json` only. The hub's `check` then
   skips the node and nothing calls `forget`: told alerts of that node stay firing
   and their end is never told, against `alerts.js` 9-10 and 286. (`alerts_ctl`)
2. The TS check precedes the await of the body and is not repeated after it, so
   with two bodies in flight a push is accepted whose TS is not newer than the last
   accepted one, against `docs/protocol.md` 4.1. (`api_replay`)
3. `releaseHeld` leaves out the end of an alert that has a start among the held
   events. If the alert was told before quiet hours and ends, fires and ends again
   inside them, its end is left out although the channel knows its start, against
   `notify.js` 396-397. (`notify_flap`)
4. `tick` draws whatever sample it awaited. A person who opens another node while one is
   on its way gets the first node's numbers under the second node's name: the refresh
   under way keeps the new one from starting, and the sample's time ends it. They stay
   until the next refresh, against `www/js/app.js` 507 and 824. (`page_late`)

## 6. Known limits of the code

Met while modelling; the properties leave them out, each with its mark.

- Node store (`raced`): with no lock, of two overlapping writers the later one undoes the
  earlier one's change, a revocation included; a writer may note the time stamp of the
  other's write as its own (`nodes.js` 37-40) and keep an old copy. A change whose write
  failed stays in the hub's memory and is written with the next one (94). A second rotation
  within a day drops the secret in between: only the oldest and the newest work.
- Linking (`excused`): when the one reply that names the node is lost, the agent's last
  poll before its deadline gets no answer, a proxy's status ends the agent
  (`servitals-agent` 205), or the hub stops before the reply, the node stays in the store
  and no agent has it. So does a node whose save failed and which the next save writes.
- History (`torn`): a file whose first write ends between a point and its index
  (`history.js` 142-145) keeps a point that later writes do not clear. A restart within
  a minute starts that minute again, and its point then has the later samples only. After
  the clock went back, the sweep may take a series that still shows.
- Login (`crossed`): two changes of the login at once write the same generation, so that
  sessions of the first survive the second. A login whose old password was checked before
  a change ends gets a session after it (`server.js` 697-705). A ban that starts while a
  request is served does not stop it. `bans.json` and `fails.json` are written in place:
  a write that stops half way empties them, for all addresses (`spared`). `servitals-ctl
  unban` can be undone by a write of the hub, and can undo one.
- Settings (`behind`, `copied`): a page, or a copy in a browser, that has a file's value from
  before the file was removed saves it as the person's own. And `ownSet` (`settings.js`
  257-262) starts a server's own panels as a copy of the shared ones, what a file set
  included. No file manages `nodePanels`, so the save keeps the file's value there
  (`server.js` 995-1003), and that server shows it when the file is gone, although 992 says
  that "removing the file brings the page's own value back": without the mark `copied`,
  `SavedIsOwn` fails in three steps. A save sends all settings and undoes
  those another page saved meanwhile. An import shows managed values the hub will not keep.
- Alerts window (`keep`, `overlapped`): edits made while the rules are saved, or while an
  editor loads, are lost; loads of rules and channels have no sequence number.
- View (`unlisted`): after a failed list of series the chart of the node before can stay
  up to a minute. A first sample that fails leaves the panels of the node before.
- Alert rules: a rule of one's own can be given another metric under its id
  (`www/js/alerts.js` 194). Its alerts are of subs of the old metric; `prune` keeps them,
  and they stay until a push has the new metric's group, for ever if none has it. The proof
  of `ContainerWasRunning` met this; the property speaks of rules whose metric stays.
- Notifier: the event that comes first after quiet hours releases the held events
  without a save (`notify.js` 432). If the hub stops before the minute's tick, the next
  start sends their summary again, with alerts that have ended since.

## 7. Plan

1. `Agent` composed with `AgentApi`: trigger file, retries, a wake leads to a push.
2. `Hub`: the engine composed with the notifier, with severities that change, and for
   the notifier an abstract specification (per channel, what arrives is a subsequence
   of what was queued), proved as a refinement from `TypeInv` and `WorkerInv`.
3. Theorems that weaken assumptions: `EndIsSeen` of an alert that was not told before
   quiet hours, and `SummaryIsTrue` over restarts whose file was saved.

## 8. Not modelled

Collectors and formatting on the agent, cryptography, HTTP and file parsing, mail
and web push encodings, static files, the drawing of the page, translation, packaging:
I/O or pure formatting without protocol state. The agent's loop, and the fleet's status
as a pure function of the last push. `PROJECT.json` gives the reason per part.
