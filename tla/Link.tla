-------------------------------- MODULE Link --------------------------------
(***************************************************************************)
(* Code linking (src/hub/lib/link.js, its pages in src/hub/server.js and   *)
(* the agent's side in src/bin/servitals-agent) on top of the node store.  *)
(* An agent starts a request and polls; a person approves or denies it;    *)
(* approving adds a node to the store, and the poll that follows tells the *)
(* agent its id, once.  Requests live in the hub's memory.                 *)
(*                                                                         *)
(* The limits on starts, open requests and wrong codes only refuse: what   *)
(* they refuse changes nothing here, and may be refused at any time.       *)
(***************************************************************************)
EXTENDS Nodes

CONSTANTS
    TTL,        \* how long a code can be used (TTL_MS)
    Keep,       \* how long after that a request is remembered (KEEP_MS)
    Slack       \* how much longer than TTL an agent polls (30 s, 6 polls)

VARIABLES
    links,      \* request -> its entry in byDevice and byUser
    agent,      \* request -> the agent that made it
    excused,    \* history: requests whose end something took away: a lost reply, no
                \* answer to the last poll, a save that failed, a stop of either side
    nodesOf     \* history: request -> the nodes made for it

linkVars == <<links, agent, excused, nodesOf>>
vars == <<storeVars, linkVars>>

Gone == [status |-> "gone"]

(* An agent: not started, polling until its deadline (asked: polled since  *)
(* the clock moved), or done: it was told its node, was told no or gave    *)
(* up, or died.                                                            *)
New == [state |-> "new"]
Polling(deadline, asked) == [state |-> "polling", deadline |-> deadline, asked |-> asked]
Done(how) == [state |-> how]

ASSUME TimesAssumption == {TTL, Keep, Slack} \subseteq Nat /\ 0 < Slack /\ Slack <= Keep

-----------------------------------------------------------------------------
HubFree == at["hub"] = "idle"

(* Variant: a request is forgotten as soon as its code expires.            *)
SweptAtOnce(l) ==
    [r \in Req |-> CASE l[r] = Gone \/ clock > l[r].expires -> Gone
                     [] OTHER -> [l[r] EXCEPT !.findable = @ /\ l[r].status = "pending"]]

(* sweep: expired codes and, later, whole requests go                      *)
Swept(l) ==
    [r \in Req |-> CASE l[r] = Gone \/ clock > l[r].expires + Keep -> Gone
                     [] OTHER -> [l[r] EXCEPT !.findable =
                                     @ /\ clock <= l[r].expires /\ l[r].status = "pending"]]

(* start: the agent gets a device code and a user code                     *)
Start(r) ==
    /\ HubFree
    /\ agent[r] = New /\ "link" \in does
    /\ links' = [Swept(links) EXCEPT ![r] =
                    [status |-> "pending", expires |-> clock + TTL, findable |-> TRUE]]
    /\ agent' = [agent EXCEPT ![r] = Polling(clock + TTL + Slack, TRUE)]
    /\ UNCHANGED <<storeVars, excused, nodesOf>>

(* what a poll answers: an id, to wait, or that it is over                 *)
Answer(e) ==
    CASE e = Gone -> "expired"
      [] e.status = "spent" -> "expired"
      [] e.status = "denied" -> "denied"
      [] e.status = "approved" -> "linked"
      [] e.status = "pending" -> IF clock > e.expires THEN "expired" ELSE "wait"

(* poll: an answer of "linked" is given once; the reply may get lost       *)
Poll(r, arrives) ==
    LET now == Swept(links)
        answer == Answer(now[r])
    IN  /\ HubFree
        /\ agent[r].state = "polling" /\ ~agent[r].asked
        /\ links' = IF answer = "linked" THEN [now EXCEPT ![r].status = "spent"] ELSE now
        /\ agent' = [agent EXCEPT ![r] = IF arrives /\ answer # "wait" THEN Done(answer)
                                         ELSE Polling(@.deadline, TRUE)]
        /\ excused' = IF ~arrives /\ answer = "linked" THEN excused \cup {r} ELSE excused
        /\ UNCHANGED <<storeVars, nodesOf>>

(* No answer, from a hub that is down or over a network that is: the agent *)
(* asks again until its deadline.                                          *)
PollUnanswered(r) ==
    /\ agent[r].state = "polling" /\ ~agent[r].asked
    /\ agent' = [agent EXCEPT ![r].asked = TRUE]
    /\ excused' = IF clock >= agent[r].deadline THEN excused \cup {r} ELSE excused
    /\ UNCHANGED <<storeVars, links, nodesOf>>

(* Any other answer, as a proxy's, ends the command, as a person may.      *)
PollDies(r) ==
    /\ agent[r].state = "polling"
    /\ agent' = [agent EXCEPT ![r] = Done("died")]
    /\ excused' = excused \cup {r}
    /\ UNCHANGED <<storeVars, links, nodesOf>>

(* The agent's own deadline.                                               *)
GiveUp(r) ==
    /\ agent[r].state = "polling" /\ agent[r].asked
    /\ clock >= agent[r].deadline
    /\ agent' = [agent EXCEPT ![r] = Done("expired")]
    /\ UNCHANGED <<storeVars, links, excused, nodesOf>>

(* find: a code is good while it is pending and its time is not over       *)
Found(r) ==
    LET e == Swept(links)[r]
    IN  e # Gone /\ e.findable /\ e.status = "pending" /\ clock <= e.expires

(* Variant: a code is used up when its node was added.                     *)
ApproveKeepsCode(r, i) ==
    /\ HubFree
    /\ Found(r)
    /\ Begin("hub", [kind |-> "link", id |-> i, req |-> r])
    /\ nodesOf' = [nodesOf EXCEPT ![r] = @ \cup {i}]
    /\ links' = Swept(links)
    /\ UNCHANGED <<agent, excused>>

(* decide, approved: the code is used up, then the node is added, which    *)
(* throws when the file cannot be written (a hub that runs has read it     *)
(* once, so that it is never unreadable): the request then stays pending   *)
Approve(r, i) ==
    /\ HubFree
    /\ Found(r)
    /\ Begin("hub", [kind |-> "link", id |-> i, req |-> r])
    /\ nodesOf' = [nodesOf EXCEPT ![r] = @ \cup {i}]
    /\ links' = [Swept(links) EXCEPT ![r].findable = FALSE]
    /\ UNCHANGED <<agent, excused>>

(* ... the node is saved: the request is approved                          *)
Approved(r) ==
    /\ at["hub"] = "stat" /\ op["hub"].kind = "link" /\ op["hub"].req = r
    /\ Stat("hub")
    /\ links' = [links EXCEPT ![r].status = "approved"]
    /\ UNCHANGED <<agent, excused, nodesOf>>

(* ... the node cannot be saved: the request stays pending, without a code *)
ApproveFails(r) ==
    /\ op["hub"].kind = "link" /\ op["hub"].req = r
    /\ WriteFails("hub")
    /\ excused' = excused \cup {r}
    /\ UNCHANGED <<links, agent, nodesOf>>

(* decide, denied                                                          *)
Deny(r) ==
    /\ HubFree
    /\ Found(r)
    /\ links' = [Swept(links) EXCEPT ![r].findable = FALSE, ![r].status = "denied"]
    /\ UNCHANGED <<storeVars, agent, excused, nodesOf>>

(* The hub stops: every request is forgotten.                              *)
HubStops ==
    /\ Stop("hub")
    /\ links' = [r \in Req |-> Gone]
    /\ excused' = excused \cup {r \in Req : links[r] # Gone}
    /\ UNCHANGED <<agent, nodesOf>>

(* Agents poll every interval, which is short for the clock.               *)
Tick ==
    /\ StoreTick
    /\ \A r \in Req : agent[r].state = "polling" => agent[r].asked /\ clock < agent[r].deadline
    /\ agent' = [r \in Req |-> IF agent[r].state = "polling" THEN [agent[r] EXCEPT !.asked = FALSE]
                               ELSE agent[r]]
    /\ UNCHANGED <<links, excused, nodesOf>>

-----------------------------------------------------------------------------
Init ==
    /\ StoreInit
    /\ links = [r \in Req |-> Gone]
    /\ agent = [r \in Req |-> New]
    /\ excused = {}
    /\ nodesOf = [r \in Req |-> {}]

Next ==
    \/ \E p \in Proc : \E o \in Asked(p) : Begin(p, o) /\ UNCHANGED linkVars
    \/ \E p \in Proc : Write(p) /\ UNCHANGED linkVars
    \/ \E p \in Proc : WriteFails(p) /\ op[p].kind # "link" /\ UNCHANGED linkVars
    \/ \E p \in Proc : Stat(p) /\ (p = "hub" => op[p].kind # "link") /\ UNCHANGED linkVars
    \/ Boot /\ UNCHANGED linkVars
    \/ Look /\ UNCHANGED linkVars
    \/ Stop("ctl") /\ UNCHANGED linkVars
    \/ \E kind \in {"bad", "good"} : HandEdit(kind) /\ UNCHANGED linkVars
    \/ HubStops
    \/ Tick
    \/ \E r \in Req : Start(r)
    \/ \E r \in Req, arrives \in BOOLEAN : Poll(r, arrives)
    \/ \E r \in Req : PollUnanswered(r) \/ PollDies(r)
    \/ \E r \in Req : GiveUp(r)
    \/ \E r \in Req, i \in Id \ {Local} : Approve(r, i)
    \/ \E r \in Req : Approved(r) \/ ApproveFails(r)
    \/ \E r \in Req : Deny(r)

Spec == Init /\ [][Next]_vars

-----------------------------------------------------------------------------
(* Properties.                                                             *)

(* One code makes one node at most, also when saving it fails and the      *)
(* person tries again (link.js 151-154).                                   *)
OneNodePerCode == \A r \in Req : Cardinality(nodesOf[r]) <= 1

(* An agent that was told no or gave up has no node: one whose code was    *)
(* approved learns its node before its deadline, however many of its polls *)
(* got no answer, unless that was its last one, the one reply with the id  *)
(* was lost, the hub stopped, or the save failed and a later one wrote the *)
(* node (link.js 17-18, 69, 110-116; servitals-agent 195-208).             *)
ApprovedIsTold ==
    \A r \in Req : agent[r].state \in {"denied", "expired"} /\ r \notin excused
                   => nodesOf[r] \cap added = {}
=============================================================================
