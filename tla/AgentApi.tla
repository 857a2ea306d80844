------------------------------ MODULE AgentApi ------------------------------
(***************************************************************************)
(* The hub's side of the agent protocol (src/hub/lib/agentapi.js): signed  *)
(* pushes and the wait long poll.  The network delivers what agents sent   *)
(* late, in any order, more than once or never.                            *)
(*                                                                         *)
(* A request has two steps: its head is checked when it arrives, then the  *)
(* hub awaits the body, and the rest runs without a break.  A wait that is *)
(* held has a third: it is answered by its timer, by a wake, by the next   *)
(* wait of the node or by a shutdown, or its client goes away.             *)
(***************************************************************************)
EXTENDS Integers, FiniteSets, Sequences

CONSTANTS
    Node,           \* node ids
    Anyone,         \* the client address, as failures of unknown ids are counted
    Slot,           \* connections to the hub
    NoSlot,         \* no connection
    Endpoints,      \* subset of {"push", "wait"}
    Grades,         \* what agents send, a subset of Grade
    Drifts,         \* how far an agent's clock is ahead of the hub's
    Holds,          \* the times a wait can ask to be held (5 to 55 s)
    Skew,           \* largest clock difference (MAX_SKEW_MS)
    PushMin,        \* least time between pushes (PUSH_MIN_MS), and between wakes
    FailLimit,      \* failures per window before a client is slowed down
    FailWindow,     \* length of that window (FAIL_WINDOW_MS)
    MaxClients,     \* clients the failure counters are kept for (10000)
    RevokeWays,     \* how nodes are revoked: subset of {"page", "ctl"}
    WriteOutcomes,  \* {TRUE}, or BOOLEAN when replay.json may fail to be written
    StartTime,      \* the clock at the start, far from 0 in the real world
    MaxTime,        \* bound on the clock
    MaxSent,        \* bound on the requests agents sign
    MaxReading      \* bound on the bodies being read at a time

VARIABLES
    clock,      \* the hub's clock
    sent,       \* requests agents signed and sent
    known,      \* nodes that are not revoked
    cut,        \* history: the nodes the page revoked
    conn,       \* slot -> the request on it
    lastTs,     \* <<node, endpoint>> -> last accepted TS, 0 for none
    diskTs,     \* replay.json
    lastPush,   \* node -> hub time of the last stored push, 0 for none
    lastWake,   \* node -> hub time of the last wake, 0 for none
    waiters,    \* node -> the slot of its held wait, or NoSlot
    failures,   \* client -> failed authentications in a window, n = 0: none
    outcome,    \* what the last step decided about a request
    newest,     \* history: <<node, endpoint>> -> newest TS ever accepted
    failLog     \* history: client -> the times of its last FailLimit failures

replayVars == <<lastTs, diskTs, newest>>
failVars == <<failures, failLog>>
nodeVars == <<lastPush, lastWake, waiters>>
vars == <<clock, sent, known, cut, conn, replayVars, nodeVars, failVars, outcome>>

-----------------------------------------------------------------------------
(* Data.                                                                   *)

(* A request: signed with the node's secret or not ("unsigned"), its body  *)
(* fit to be stored, of the wrong shape, or over the size limit.           *)
Grade == {"good", "unsigned", "invalid", "large"}
Request == [node : Node, endpoint : {"push", "wait"}, ts : Nat, grade : Grade]
Stamp == Node \X {"push", "wait"}
StampOf(m) == <<m.node, m.endpoint>>
Client == Node \cup {Anyone}

(* A connection: free; reading a body (hubMs: when its head was checked,   *)
(* secret: the node object it looked up still has one); holding a wait     *)
(* until due; or answered and about to be closed.                          *)
Free == [phase |-> "free"]
Reading(m, t) == [phase |-> "reading", req |-> m, hubMs |-> t, secret |-> TRUE]
Waiting(n, due) == [phase |-> "waiting", node |-> n, due |-> due]
Ended(n) == [phase |-> "ended", node |-> n]

NoFailures == [n |-> 0, until |-> 0]
Nothing == [kind |-> "none"]
Accepted(m) == [kind |-> "accepted", node |-> m.node, endpoint |-> m.endpoint, ts |-> m.ts]
Refused == [kind |-> "refused"]
Slowed(c) == [kind |-> "slowed", client |-> c]

ASSUME SetsAssumption == /\ Anyone \notin Node /\ NoSlot \notin Slot /\ IsFiniteSet(Slot)
                         /\ Endpoints \subseteq {"push", "wait"} /\ Grades \subseteq Grade
                         /\ WriteOutcomes \subseteq BOOLEAN
ASSUME NumbersAssumption == /\ Drifts \subseteq Nat /\ Holds \subseteq Nat
                            /\ {Skew, PushMin, FailWindow, MaxClients} \subseteq Nat
                            /\ {StartTime, MaxTime, MaxSent, MaxReading} \subseteq Nat
                            /\ FailLimit \in Nat \ {0} /\ StartTime >= PushMin

-----------------------------------------------------------------------------
(* Failed authentications.                                                 *)

Blocked(c) == failures[c].until >= clock /\ failures[c].n >= FailLimit

Count(f) == IF f.n = 0 \/ f.until < clock
            THEN [n |-> 1, until |-> clock + FailWindow]
            ELSE [f EXCEPT !.n = IF @ < FailLimit THEN @ + 1 ELSE @]   \* more counts as FailLimit

(* Variant: the counters of other clients are taken out of the map.        *)
KeepOnly(all, c) == [x \in {c} |-> all[x]]

(* The map is emptied when it holds too many clients.                      *)
Bounded(all, c) ==
    IF Cardinality({x \in Client : all[x].n > 0}) > MaxClients
    THEN [x \in Client |-> NoFailures] ELSE all

(* failed: one more failure of a client; the log is history                *)
Failed(c, real) ==
    /\ failures' = Bounded([failures EXCEPT ![c] = Count(@)], c)
    /\ failLog' = [failLog EXCEPT ![real] =
                      LET l == Append(@, clock) IN IF Len(l) > FailLimit THEN Tail(l) ELSE l]

(* Variant: failures count per address only.                               *)
PerAddress(n) == Anyone

(* whose failures count: the address for an unknown id, else address and   *)
(* node, so that a broken agent does not lock out one behind the same NAT  *)
Who(n) == IF n \in known THEN n ELSE Anyone

-----------------------------------------------------------------------------
(* Replay protection and the long poll.                                    *)

(* Variant: replay.json is not written.                                    *)
AcceptTsInMemory(m) ==
    /\ lastTs' = [lastTs EXCEPT ![StampOf(m)] = m.ts]
    /\ newest' = [newest EXCEPT ![StampOf(m)] = IF m.ts > @ THEN m.ts ELSE @]
    /\ UNCHANGED diskTs

(* acceptTs: remembered, and written with all the others; a write that     *)
(* fails is only logged                                                    *)
AcceptTs(m) ==
    /\ lastTs' = [lastTs EXCEPT ![StampOf(m)] = m.ts]
    /\ newest' = [newest EXCEPT ![StampOf(m)] = IF m.ts > @ THEN m.ts ELSE @]
    /\ \E ok \in WriteOutcomes : diskTs' = IF ok THEN lastTs' ELSE diskTs

(* finishWait, as it changes the connections: the wait is answered         *)
Answer(c, s) == [c EXCEPT ![s] = Ended(conn[s].node)]

(* A new wait answers the one the node already has, and takes its place.   *)
Replace(s, n, due) ==
    LET prev == waiters[n]
        answered == IF prev = NoSlot THEN conn ELSE Answer(conn, prev)
    IN  [answered EXCEPT ![s] = Waiting(n, due)]

-----------------------------------------------------------------------------
(* Actions.                                                                *)

(* An agent signs a request with its own clock and sends it.               *)
Send(n, e, d, g) ==
    /\ Cardinality(sent) < MaxSent
    /\ sent' = sent \cup {[node |-> n, endpoint |-> e, ts |-> clock + d, grade |-> g]}
    /\ outcome' = Nothing
    /\ UNCHANGED <<clock, known, cut, conn, replayVars, nodeVars, failVars>>

(* The head of a request that gets no further is answered at once.         *)
Unknown(m) ==
    /\ m.node \notin known
    /\ IF Blocked(Who(m.node))
       THEN /\ outcome' = Slowed(Anyone)
            /\ UNCHANGED failVars
       ELSE /\ outcome' = Refused
            /\ Failed(Who(m.node), Anyone)

SlowedDown(m) ==
    /\ m.node \in known
    /\ Blocked(Who(m.node))
    /\ outcome' = Slowed(m.node)
    /\ UNCHANGED failVars

Far(m) == m.ts - clock > Skew \/ clock - m.ts > Skew
Stale(m) == m.ts <= lastTs[StampOf(m)]

ClockSkew(m) ==
    /\ m.node \in known
    /\ ~Blocked(Who(m.node))
    /\ Far(m)
    /\ outcome' = Refused
    /\ Failed(Who(m.node), m.node)

ReplayOrLarge(m) ==
    /\ m.node \in known
    /\ ~Blocked(Who(m.node))
    /\ ~Far(m)
    /\ Stale(m) \/ m.grade = "large"
    /\ outcome' = Refused
    /\ UNCHANGED failVars

Refuse(s, m) ==
    /\ conn[s] = Free
    /\ Unknown(m) \/ SlowedDown(m) \/ ClockSkew(m) \/ ReplayOrLarge(m)
    /\ UNCHANGED <<clock, sent, known, cut, conn, replayVars, nodeVars>>

(* The head is fine: the hub awaits the body.                              *)
Arrive(s, m) ==
    /\ conn[s] = Free
    /\ Cardinality({x \in Slot : conn[x].phase = "reading"}) < MaxReading
    /\ m.node \in known
    /\ ~Blocked(Who(m.node))
    /\ ~Far(m) /\ ~Stale(m) /\ m.grade # "large"
    /\ conn' = [conn EXCEPT ![s] = Reading(m, clock)]
    /\ outcome' = Nothing
    /\ UNCHANGED <<clock, sent, known, cut, replayVars, nodeVars, failVars>>

(* The body does not come, or is over the limit: no more is done.          *)
Broken(s) ==
    /\ conn[s].phase = "reading"
    /\ conn' = [conn EXCEPT ![s] = Free]
    /\ outcome' = Refused
    /\ UNCHANGED <<clock, sent, known, cut, replayVars, nodeVars, failVars>>

(* The body is there: the signature is checked, with what was looked up    *)
(* when the request arrived.                                               *)
BadSignature(s) ==
    LET c == conn[s]
    IN  /\ c.phase = "reading"
        /\ c.req.grade = "unsigned" \/ ~c.secret
        /\ conn' = [conn EXCEPT ![s] = Free]
        /\ outcome' = Refused
        /\ Failed(c.req.node, c.req.node)
        /\ UNCHANGED <<clock, sent, known, cut, replayVars, nodeVars>>

Signed(s) == conn[s].phase = "reading" /\ conn[s].req.grade # "unsigned" /\ conn[s].secret
TooSoon(s) == conn[s].hubMs - lastPush[conn[s].req.node] < PushMin

(* A push that is too soon, or whose snapshot does not validate.           *)
PushRefused(s) ==
    /\ Signed(s)
    /\ conn[s].req.endpoint = "push"
    /\ TooSoon(s) \/ conn[s].req.grade = "invalid"
    /\ conn' = [conn EXCEPT ![s] = Free]
    /\ outcome' = Refused
    /\ UNCHANGED <<clock, sent, known, cut, replayVars, nodeVars, failVars>>

PushStored(s) ==
    LET m == conn[s].req
    IN  /\ Signed(s)
        /\ m.endpoint = "push"
        /\ ~TooSoon(s) /\ m.grade = "good"
        /\ AcceptTs(m)
        /\ lastPush' = [lastPush EXCEPT ![m.node] = conn[s].hubMs]
        /\ conn' = [conn EXCEPT ![s] = Free]
        /\ outcome' = Accepted(m)
        /\ UNCHANGED <<clock, sent, known, cut, lastWake, waiters, failVars>>

(* A wait is held; its body does not matter.                               *)
WaitHeld(s, hold) ==
    LET m == conn[s].req
    IN  /\ Signed(s)
        /\ m.endpoint = "wait"
        /\ AcceptTs(m)
        /\ conn' = Replace(s, m.node, clock + hold)
        /\ waiters' = [waiters EXCEPT ![m.node] = s]
        /\ outcome' = Accepted(m)
        /\ UNCHANGED <<clock, sent, known, cut, lastPush, lastWake, failVars>>

(* Variant: the timer finds nothing to do for a node revoked meanwhile.    *)
TimeoutOfKnown(s) ==
    /\ conn[s].phase = "waiting" /\ conn[s].node \in known
    /\ clock >= conn[s].due
    /\ conn' = Answer(conn, s)
    /\ waiters' = [waiters EXCEPT ![conn[s].node] = IF @ = s THEN NoSlot ELSE @]
    /\ outcome' = Nothing
    /\ UNCHANGED <<clock, sent, known, cut, replayVars, lastPush, lastWake, failVars>>

(* The timer of a held wait.                                               *)
Timeout(s) ==
    /\ conn[s].phase = "waiting"
    /\ clock >= conn[s].due
    /\ conn' = Answer(conn, s)
    /\ waiters' = [waiters EXCEPT ![conn[s].node] = IF @ = s THEN NoSlot ELSE @]
    /\ outcome' = Nothing
    /\ UNCHANGED <<clock, sent, known, cut, replayVars, lastPush, lastWake, failVars>>

(* Someone wants fresh data: the node is woken, unless it pushed or was    *)
(* woken within the last PushMin.                                          *)
Wake(n) ==
    /\ n \in known
    /\ clock - lastPush[n] >= PushMin /\ clock - lastWake[n] >= PushMin
    /\ waiters[n] # NoSlot
    /\ lastWake' = [lastWake EXCEPT ![n] = clock]
    /\ conn' = Answer(conn, waiters[n])
    /\ waiters' = [waiters EXCEPT ![n] = NoSlot]
    /\ outcome' = Nothing
    /\ UNCHANGED <<clock, sent, known, cut, replayVars, lastPush, failVars>>

(* Variant: the node's wait is dropped, whichever connection closes.       *)
CloseDropsAny(s) ==
    /\ conn[s].phase \in {"waiting", "ended"}
    /\ conn' = [conn EXCEPT ![s] = Free]
    /\ waiters' = [waiters EXCEPT ![conn[s].node] = NoSlot]
    /\ outcome' = Nothing
    /\ UNCHANGED <<clock, sent, known, cut, replayVars, lastPush, lastWake, failVars>>

(* The connection of a wait closes: after its answer, or because the agent *)
(* went away.                                                              *)
Close(s) ==
    /\ conn[s].phase \in {"waiting", "ended"}
    /\ conn' = [conn EXCEPT ![s] = Free]
    /\ waiters' = [waiters EXCEPT ![conn[s].node] = IF @ = s THEN NoSlot ELSE @]
    /\ outcome' = Nothing
    /\ UNCHANGED <<clock, sent, known, cut, replayVars, lastPush, lastWake, failVars>>

(* close: at a stop signal every held wait is answered.                    *)
Shutdown ==
    /\ \E n \in Node : waiters[n] # NoSlot
    /\ conn' = [s \in Slot |-> IF \E n \in Node : waiters[n] = s THEN Ended(conn[s].node) ELSE conn[s]]
    /\ waiters' = [n \in Node |-> NoSlot]
    /\ outcome' = Nothing
    /\ UNCHANGED <<clock, sent, known, cut, replayVars, lastPush, lastWake, failVars>>

(* The hub stops, at any time, and starts again: only replay.json is left. *)
Restart ==
    /\ conn' = [s \in Slot |-> Free]
    /\ lastTs' = diskTs
    /\ lastPush' = [n \in Node |-> 0]
    /\ lastWake' = [n \in Node |-> 0]
    /\ waiters' = [n \in Node |-> NoSlot]
    /\ failures' = [c \in Client |-> NoFailures]
    /\ outcome' = Nothing
    /\ UNCHANGED <<clock, sent, known, cut, diskTs, newest, failLog>>

(* Variant: the node is marked revoked and keeps its secret.               *)
RevokeKeepsSecret(n) ==
    /\ n \in known /\ "page" \in RevokeWays
    /\ known' = known \ {n} /\ cut' = cut \cup {n}
    /\ outcome' = Nothing
    /\ UNCHANGED <<clock, sent, conn, replayVars, nodeVars, failVars>>

(* Revoking from the page empties the secret in the very object a request  *)
(* being read has looked up.                                               *)
RevokeFromPage(n) ==
    /\ n \in known /\ "page" \in RevokeWays
    /\ known' = known \ {n} /\ cut' = cut \cup {n}
    /\ conn' = [s \in Slot |-> IF conn[s].phase = "reading" /\ conn[s].req.node = n
                               THEN [conn[s] EXCEPT !.secret = FALSE] ELSE conn[s]]
    /\ outcome' = Nothing
    /\ UNCHANGED <<clock, sent, replayVars, nodeVars, failVars>>

(* servitals-ctl is another process: the object in the hub stays.          *)
RevokeFromCtl(n) ==
    /\ n \in known /\ "ctl" \in RevokeWays
    /\ known' = known \ {n}
    /\ outcome' = Nothing
    /\ UNCHANGED <<clock, sent, cut, conn, replayVars, nodeVars, failVars>>

Tick ==
    /\ clock < MaxTime
    /\ clock' = clock + 1
    /\ outcome' = Nothing
    /\ UNCHANGED <<sent, known, cut, conn, replayVars, nodeVars, failVars>>

-----------------------------------------------------------------------------
Init ==
    /\ clock = StartTime
    /\ sent = {}
    /\ known = Node /\ cut = {}
    /\ conn = [s \in Slot |-> Free]
    /\ lastTs = [k \in Stamp |-> 0]
    /\ diskTs = lastTs
    /\ newest = lastTs
    /\ lastPush = [n \in Node |-> 0]
    /\ lastWake = [n \in Node |-> 0]
    /\ waiters = [n \in Node |-> NoSlot]
    /\ failures = [c \in Client |-> NoFailures]
    /\ failLog = [c \in Client |-> << >>]
    /\ outcome = Nothing

Next ==
    \/ \E n \in Node, e \in Endpoints, d \in Drifts, g \in Grades : Send(n, e, d, g)
    \/ \E s \in Slot, m \in sent : Refuse(s, m)
    \/ \E s \in Slot, m \in sent : Arrive(s, m)
    \/ \E s \in Slot : Broken(s)
    \/ \E s \in Slot : BadSignature(s)
    \/ \E s \in Slot : PushRefused(s)
    \/ \E s \in Slot : PushStored(s)
    \/ \E s \in Slot, hold \in Holds : WaitHeld(s, hold)
    \/ \E s \in Slot : Timeout(s)
    \/ \E n \in Node : Wake(n)
    \/ \E s \in Slot : Close(s)
    \/ Shutdown
    \/ Restart
    \/ \E n \in Node : RevokeFromPage(n)
    \/ \E n \in Node : RevokeFromCtl(n)
    \/ Tick

Spec == Init /\ [][Next]_vars

(* Timers fire when their time has come, and time passes.                  *)
FairSpec == Spec /\ (\A s \in Slot : WF_vars(Timeout(s))) /\ WF_vars(Tick)

-----------------------------------------------------------------------------
(* Properties.                                                             *)

Conn == {Free}
        \cup [phase : {"reading"}, req : Request, hubMs : Nat, secret : BOOLEAN]
        \cup [phase : {"waiting"}, node : Node, due : Nat]
        \cup [phase : {"ended"}, node : Node]

(* The state of the hub has its type.                                      *)
TypeOK ==
    /\ clock \in Nat
    /\ sent \subseteq Request
    /\ known \subseteq Node /\ cut \subseteq Node
    /\ conn \in [Slot -> Conn]
    /\ lastTs \in [Stamp -> Nat] /\ diskTs \in [Stamp -> Nat] /\ newest \in [Stamp -> Nat]
    /\ lastPush \in [Node -> Nat] /\ lastWake \in [Node -> Nat]
    /\ waiters \in [Node -> Slot \cup {NoSlot}]
    /\ failures \in [Client -> [n : 0 .. FailLimit, until : Nat]]
    /\ failLog \in [Client -> Seq(Nat)]
    /\ outcome \in {Nothing, Refused} \cup {Slowed(c) : c \in Client}
                   \cup [kind : {"accepted"}, node : Node, endpoint : {"push", "wait"}, ts : Nat]

(* The wait a wake finds for a node is the one that is held, and a held    *)
(* wait is always the one a wake finds: a node never has two, and a late   *)
(* close of an older one does not hide the newer (agentapi.js 105-109,     *)
(* 187-192).                                                               *)
HeldIsFound ==
    \A n \in Node, s \in Slot :
        waiters[n] = s <=> conn[s].phase = "waiting" /\ conn[s].node = n

(* A request is accepted only with a TS newer than every one accepted      *)
(* before for its node and endpoint, also across restarts (protocol.md     *)
(* 4.1 item 4; agentapi.js 5-8).                                           *)
AcceptedIsNewer ==
    [][outcome'.kind = "accepted" => outcome'.ts > newest[StampOf(outcome')]]_vars

(* Once the page has revoked a node nothing of it is accepted, not even a  *)
(* request whose body was being read (agentapi.js 127, 154-157).           *)
RevokedIsRefused ==
    [][outcome'.kind = "accepted" => outcome'.node \notin cut]_vars

(* A client is slowed down only for its own failures, FailLimit of them    *)
(* within the last FailWindow: a broken or revoked agent never locks out a *)
(* healthy one behind the same address (agentapi.js 78-85, 128-138).       *)
SlowedForOwnFailures ==
    outcome.kind = "slowed" =>
        LET l == failLog[outcome.client]
        IN  Len(l) = FailLimit /\ clock - l[1] <= FailWindow

(* A held wait is answered or closed in the end, whatever else happens to  *)
(* its node (agentapi.js 188-192), if its time comes within the bound.     *)
HeldIsAnswered ==
    \A s \in Slot : (conn[s].phase = "waiting" /\ conn[s].due <= MaxTime) ~> conn[s].phase # "waiting"
=============================================================================
