-------------------------------- MODULE View --------------------------------
(***************************************************************************)
(* What the page shows of a node and when it asks for it (src/www/js/      *)
(* app.js: loadNodes, route, tick, refreshNow; src/www/js/history.js:      *)
(* loadHistory).  A refresh is a chain of waits: a tick, the wake of the   *)
(* agent, and ticks until a newer sample is there.  A person may open      *)
(* another node at any of them.                                            *)
(*                                                                         *)
(* A sample is its node and its time; a chart is the node it is of.        *)
(***************************************************************************)
EXTENDS Naturals

CONSTANTS
    Node,           \* the nodes of the hub
    Local,          \* the hub's own host
    None,           \* no node: for the page, the local one
    MaxTs,          \* bound: times of samples
    MaxPolls,       \* ticks after a wake (14)
    HistLoad        \* history loads that can be under way at once

VARIABLES
    sample,         \* node -> the time of its latest sample on the hub, 0 for none
    hash,           \* location.hash: None, "fleet" or a node
    known,          \* the page has the list of nodes (fleetNodes, localNode)
    view, current,  \* view and currentNode
    lastData,       \* the sample the page shows
    run,            \* the refresh under way
    due,            \* loadHistory is about to be called
    hist,           \* histState: the node listed, and whether the last load is recent
    load,           \* load -> a call of loadHistory under way
    chart,          \* the node whose chart is drawn
    asked,          \* history: loadHistory was called since this node was opened
    unlisted        \* history: a node's list of series could not be loaded

viewVars == <<sample, hash, known, view, current, lastData, run, due, hist, load, chart, asked, unlisted>>
pageVars == <<hash, known, view, current>>
histVars == <<due, hist, load, chart, asked, unlisted>>

ASSUME NodesAssumption == Local \in Node /\ None \notin Node /\ MaxTs \in Nat /\ MaxPolls \in Nat \ {0}

NoData == [node |-> None, ts |-> 0]
Resting == [at |-> "rest"]
NoLoad == [at |-> "none"]

(* A refresh: where it is, which of its ticks it is in (the first, one of  *)
(* the polls, or the fleet's second), the time its sample must pass.       *)
Refresh(place, turn, before) == [at |-> place, turn |-> turn, before |-> before, want |-> None]

(* The node data.json or /__ctl/node answers for, and currentNode ||       *)
(* localNode.                                                              *)
DataNode(n) == IF n = None THEN Local ELSE n
Shown == IF current # None THEN current ELSE IF known THEN Local ELSE None

-----------------------------------------------------------------------------
(* route: another view or node starts with nothing of the one before.      *)
RouteFor(h, k) ==
    CASE h \in Node /\ k -> [view |-> "node", node |-> h]
      [] h = "fleet" \/ (h = None /\ k) -> [view |-> "fleet", node |-> None]
      [] OTHER -> [view |-> "node", node |-> None]

Route(h, k) ==
    LET to == RouteFor(h, k) IN
    /\ view' = to.view /\ current' = to.node
    /\ IF <<view, current>> # <<to.view, to.node>>
       THEN lastData' = NoData /\ asked' = FALSE
       ELSE UNCHANGED <<lastData, asked>>

(* tick starts: in the fleet it asks for the nodes; in the node view for   *)
(* the sample, and for the nodes first when they are 30 s old.             *)
Tick(r, v, n, nodesFirst) ==
    CASE v = "fleet" -> [r EXCEPT !.at = "fleet"]
      [] v # "fleet" /\ nodesFirst -> [r EXCEPT !.at = "nodes"]
      [] OTHER -> [r EXCEPT !.at = "fetch", !.want = n]

(* ... and when it ends, the refresh goes on.                              *)
TickEnds(r, v, d) ==
    CASE r.turn = 0 -> Refresh("wake", IF v = "fleet" THEN MaxPolls ELSE 0, d.ts)
      [] r.turn > 0 /\ (r.turn >= MaxPolls \/ d.ts > r.before) -> Resting
      [] OTHER -> [r EXCEPT !.at = "wait", !.want = None]

(* refreshNow, by a timer or a person                                      *)
RefreshNow(nodesFirst) ==
    /\ run = Resting
    /\ run' = Tick(Refresh("wait", 0, 0), view, current, nodesFirst)
    /\ UNCHANGED <<sample, pageVars, lastData, histVars>>

(* hashchange: the route, then a refresh unless one is under way           *)
Open(h, nodesFirst) ==
    /\ h # hash
    /\ hash' = h
    /\ Route(h, known)
    /\ run' = IF run = Resting THEN Tick(Refresh("wait", 0, 0), view', current', nodesFirst) ELSE run
    /\ UNCHANGED <<sample, known, due, hist, load, chart, unlisted>>

(* loadNodes: the first list the page gets may open the fleet.             *)
LoadNodes(ok) ==
    /\ run.at \in {"fleet", "nodes"}
    /\ known' = (known \/ ok)
    /\ IF ok /\ ~known /\ hash = None THEN Route(hash, TRUE)
       ELSE UNCHANGED <<view, current, lastData, asked>>
    /\ run' = IF run.at = "fleet" THEN TickEnds(run, view', lastData')
              ELSE [run EXCEPT !.at = "fetch", !.want = current']
    /\ UNCHANGED <<sample, hash, due, hist, load, chart, unlisted>>

(* renderMetrics: every panel is drawn from one sample, or hidden when it  *)
(* has nothing of it.                                                      *)
RenderMetrics(n) == [node |-> n, ts |-> sample[n]]

(* The sample is there, or the hub has none or gives no answer.            *)
Fetched(ok) ==
    LET n == DataNode(run.want) IN
    /\ run.at = "fetch"
    /\ ok => sample[n] > 0
    /\ IF ok THEN lastData' = RenderMetrics(n) /\ due' = (due \/ view = "node")
       ELSE UNCHANGED <<lastData, due>>
    /\ run' = TickEnds(run, view, lastData')
    /\ UNCHANGED <<sample, pageVars, hist, load, chart, asked, unlisted>>

(* /__ctl/refresh was sent, or could not be.                               *)
Woken ==
    /\ run.at = "wake"
    /\ run' = [run EXCEPT !.at = "wait"]
    /\ UNCHANGED <<sample, pageVars, lastData, histVars>>

(* 500 ms, or in the fleet 2.5 s, later                                    *)
Waited(nodesFirst) ==
    /\ run.at = "wait"
    /\ run' = Tick([run EXCEPT !.turn = @ + 1], view, current, nodesFirst)
    /\ UNCHANGED <<sample, pageVars, lastData, histVars>>

(* An agent pushes a newer sample.                                         *)
Publish(n) ==
    /\ sample[n] < MaxTs
    /\ sample' = [sample EXCEPT ![n] = @ + 1]
    /\ UNCHANGED <<pageVars, lastData, run, histVars>>

-----------------------------------------------------------------------------
(* Variant: only a newer load makes one stale.                             *)
StaleByNumber(l) == ~load[l].newest

(* stale() in loadHistory                                                  *)
Stale(l) == ~load[l].newest \/ load[l].node # Shown

(* loadHistory: at most once a minute for the same node unless forced.  A  *)
(* new node's chart starts empty.                                          *)
LoadHistory(l, force) ==
    LET fresh == Shown # hist.node IN
    /\ Shown # None /\ (fresh \/ force \/ ~hist.recent)
    /\ load[l] = NoLoad
    /\ load' = [m \in HistLoad |-> IF m = l THEN [at |-> "list", node |-> Shown, newest |-> TRUE]
                               ELSE IF load[m] # NoLoad THEN [load[m] EXCEPT !.newest = FALSE]
                               ELSE NoLoad]
    /\ hist' = [hist EXCEPT !.recent = TRUE]
    /\ chart' = IF fresh THEN None ELSE chart
    /\ asked' = TRUE
    /\ UNCHANGED <<sample, pageVars, lastData, run, unlisted>>

(* showHistory after a sample was drawn                                    *)
ShowHistory(l) == due /\ due' = FALSE /\ LoadHistory(l, FALSE)

ShowNothingNew ==
    /\ due /\ due' = FALSE
    /\ Shown = None \/ (Shown = hist.node /\ hist.recent)
    /\ asked' = (asked \/ Shown # None)
    /\ UNCHANGED <<sample, pageVars, lastData, run, hist, load, chart, unlisted>>

(* A person chooses another series or range.                               *)
ChooseSeries(l) == view = "node" /\ LoadHistory(l, TRUE) /\ UNCHANGED due

(* The list of series: without it the load goes on, but its node is not    *)
(* noted.                                                                  *)
Listed(l, ok) ==
    /\ load[l].at = "list"
    /\ IF Stale(l) THEN load' = [load EXCEPT ![l] = NoLoad] /\ UNCHANGED <<hist, unlisted>>
       ELSE /\ load' = [load EXCEPT ![l].at = "points"]
            /\ hist' = IF ok THEN [hist EXCEPT !.node = Shown] ELSE hist
            /\ unlisted' = (unlisted \/ (~ok /\ hist.node # Shown))
    /\ UNCHANGED <<sample, pageVars, lastData, run, due, chart, asked>>

(* The points, or an empty chart instead                                   *)
Points(l) ==
    /\ load[l].at = "points"
    /\ chart' = IF Stale(l) THEN chart ELSE load[l].node
    /\ load' = [load EXCEPT ![l] = NoLoad]
    /\ UNCHANGED <<sample, pageVars, lastData, run, due, hist, asked, unlisted>>

MinutePasses ==
    /\ hist.recent
    /\ hist' = [hist EXCEPT !.recent = FALSE]
    /\ UNCHANGED <<sample, pageVars, lastData, run, due, load, chart, asked, unlisted>>

-----------------------------------------------------------------------------
(* The page has started: it asked for the nodes, took its route, and       *)
(* refreshes.                                                              *)
ViewInit ==
    /\ sample \in [Node -> 0 .. 1]
    /\ hash \in {None, "fleet"} \cup Node
    /\ known \in BOOLEAN
    /\ view = RouteFor(hash, known).view /\ current = RouteFor(hash, known).node
    /\ lastData = NoData
    /\ run = Resting
    /\ due = FALSE /\ hist = [node |-> None, recent |-> FALSE]
    /\ load = [l \in HistLoad |-> NoLoad]
    /\ chart = None /\ asked = FALSE /\ unlisted = FALSE

ViewNext ==
    \/ \E nodesFirst \in BOOLEAN : RefreshNow(nodesFirst) \/ Waited(nodesFirst)
    \/ \E h \in {None, "fleet"} \cup Node, nodesFirst \in BOOLEAN : Open(h, nodesFirst)
    \/ \E ok \in BOOLEAN : LoadNodes(ok) \/ Fetched(ok)
    \/ Woken
    \/ \E n \in Node : Publish(n)
    \/ \E l \in HistLoad : ShowHistory(l) \/ ChooseSeries(l) \/ Points(l)
    \/ \E l \in HistLoad, ok \in BOOLEAN : Listed(l, ok)
    \/ ShowNothingNew \/ MinutePasses

-----------------------------------------------------------------------------
(* Once the history of an opened node was asked for, its chart is that     *)
(* node's or empty, whichever answers come late (history.js:107-110).  A   *)
(* failed list of series leaves histState at the node before, whose chart  *)
(* is then not loaded again for a minute; this says nothing after one.     *)
ChartIsOwn ==
    (view = "node" /\ asked /\ ~unlisted) => chart \in {None, Shown}

(* Between refreshes the node view shows the node it is open on: "another  *)
(* node: its own sparklines, containers and network history" (app.js:507). *)
RestShowsOwn ==
    (view = "node" /\ run = Resting /\ lastData # NoData) => lastData.node = DataNode(current)
=============================================================================
