------------------------------- MODULE Nodes --------------------------------
(***************************************************************************)
(* The node store (src/hub/lib/nodes.js): nodes.json, edited by the hub,   *)
(* by servitals-ctl and by hand.  Hub and servitals-ctl run the same code: *)
(* a change loads the file, changes the copy in memory, replaces the file  *)
(* and notes its time stamp; there is no lock, so the steps of the two     *)
(* processes interleave.  servitals-ctl starts with nothing in memory, the *)
(* hub keeps its copy until the time stamp of the file changes.            *)
(*                                                                         *)
(* Names and tags are left out: a rename writes the file as it is in       *)
(* memory.  A change takes milliseconds: the clock stands still meanwhile. *)
(***************************************************************************)
EXTENDS Integers, FiniteSets

CONSTANTS
    Id,         \* node ids
    Local,      \* the id of the hub's own host
    Nobody,     \* no node
    Req,        \* link requests (of Link, here only as what an added node is for)
    NoReq,
    Scenarios,  \* sets of kinds of change: those of one behaviour
    Overlap,    \* how long a replaced secret still works (OVERLAP_MS)
    MaxTime,    \* bound on the clock
    MaxSecret,  \* bound on the secrets made
    MaxStamp    \* bound on the changes of the file

VARIABLES
    clock,
    does,       \* the kinds of change people make in this behaviour
    file,       \* nodes.json: none, good or bad (it does not parse; nodes: its text still)
    at,         \* process -> where it is: "down", "idle", "write", "stat"
    mem,        \* process -> its copy, the time stamp it has, whether to refuse to write
    op,         \* process -> the change it makes
    secrets,    \* the number of secrets made so far
    used,       \* ids given out so far: new ones are random
    raced,      \* history: two writers overlapped
    added,      \* history: ids that were ever written to the file
    cut,        \* history: ids that were revoked
    retired     \* history: secrets that were replaced

storeVars == <<clock, does, file, at, mem, op, secrets, used, raced, added, cut, retired>>

-----------------------------------------------------------------------------
(* Data.                                                                   *)

Proc == {"hub", "ctl"}
NoFile == -1
NoSecret == 0
Node == [secret : Nat, old : Nat, until : Nat, revoked : BOOLEAN]
NewNode(s) == [secret |-> s, old |-> NoSecret, until |-> 0, revoked |-> FALSE]
RevokedNode == [secret |-> NoSecret, old |-> NoSecret, until |-> 0, revoked |-> TRUE]

Known(n) == n # Nobody /\ ~n.revoked

Kind == {"local", "add", "link", "rename", "revoke", "rotate"}
NoOp == [kind |-> "local", id |-> Local, req |-> NoReq]
Fresh == [nodes |-> [i \in Id |-> Nobody], seen |-> NoFile, unreadable |-> FALSE]

ASSUME KindsAssumption == \A k \in Scenarios : k \subseteq Kind
ASSUME IdsAssumption == Local \in Id /\ NoReq \notin Req /\ Nobody \notin Node
ASSUME StoreBounds == {Overlap, MaxTime, MaxSecret, MaxStamp} \subseteq Nat

-----------------------------------------------------------------------------
(* What a change does.                                                     *)

(* Variant: the file is read once.                                         *)
LoadOnce(m) ==
    CASE file.kind = "none" -> Fresh
      [] file.kind # "none" /\ m.seen # NoFile -> m
      [] file.kind = "good" /\ m.seen = NoFile ->
            [nodes |-> file.nodes, seen |-> file.stamp, unreadable |-> FALSE]
      [] file.kind = "bad" /\ m.seen = NoFile -> [m EXCEPT !.unreadable = TRUE]

(* load: the file is read again when its time stamp changed; one that does *)
(* not parse leaves the last good copy, and without one is never written   *)
Load(m) ==
    CASE file.kind = "none" -> Fresh
      [] file.kind # "none" /\ file.stamp = m.seen -> m
      [] file.kind = "good" /\ file.stamp # m.seen ->
            [nodes |-> file.nodes, seen |-> file.stamp, unreadable |-> FALSE]
      [] file.kind = "bad" /\ file.stamp # m.seen -> [m EXCEPT !.unreadable = @ \/ m.seen = NoFile]

(* Variant: an unreadable file is no reason not to add a node.             *)
AddAnyway(o, m) ==
    IF o.kind \in {"local", "add", "link"}
    THEN m.nodes[o.id] = Nobody
    ELSE Known(m.nodes[o.id]) /\ (o.kind = "revoke" => o.id # Local)

(* the early ends of ensureLocal, add and change                           *)
Allowed(o, m) ==
    IF o.kind \in {"local", "add", "link"}
    THEN ~m.unreadable /\ m.nodes[o.id] = Nobody
    ELSE Known(m.nodes[o.id]) /\ (o.kind = "revoke" => o.id # Local)

(* Variant: rotating again starts the window of the secret in between.     *)
RotateAlways(n, s) == [n EXCEPT !.old = n.secret, !.until = clock + Overlap, !.secret = s]

(* Variant: rotating again extends the window.                             *)
RotateExtends(n, s) ==
    [n EXCEPT !.old = IF n.old # NoSecret /\ n.until > clock THEN @ ELSE n.secret,
              !.until = clock + Overlap, !.secret = s]

(* rotate: within the window of an older secret that one stays             *)
Rotated(n, s) ==
    IF n.old # NoSecret /\ n.until > clock
    THEN [n EXCEPT !.secret = s]
    ELSE [n EXCEPT !.old = n.secret, !.until = clock + Overlap, !.secret = s]

Makes(o) == o.kind \in {"local", "add", "link", "rotate"}

Changed(o, n) ==
    CASE o.kind \in {"local", "add", "link"} -> NewNode(secrets + 1)
      [] o.kind = "rename" -> n
      [] o.kind = "revoke" -> RevokedNode
      [] o.kind = "rotate" -> Rotated(n, secrets + 1)

(* what the hub answers an agent from: get loads first                     *)
Seen == Load(mem["hub"]).nodes

(* the signatures the agent API accepts for a node                         *)
Accepts(i, s) ==
    /\ at["hub"] # "down" /\ Known(Seen[i])
    /\ s = Seen[i].secret \/ (s = Seen[i].old /\ Seen[i].until > clock)

-----------------------------------------------------------------------------
(* Steps.                                                                  *)

Busy(p) == at[p] \in {"write", "stat"}

(* The nodes that a copy has, revoked ones too.                            *)
Ids(nodes) == {i \in Id : nodes[i] # Nobody}

(* A process loads the file and makes a change in memory.                  *)
Begin(p, o) ==
    LET m == Load(IF p = "ctl" THEN Fresh ELSE mem[p])
    IN  /\ at[p] = (IF o.kind = "local" THEN "down" ELSE "idle")
        /\ Allowed(o, m)
        /\ Makes(o) => secrets < MaxSecret
        /\ o.kind \in {"local", "add", "link"} => o.id \notin used
        /\ file.stamp < MaxStamp
        /\ mem' = [mem EXCEPT ![p] = [m EXCEPT !.nodes[o.id] = Changed(o, @)]]
        /\ secrets' = IF Makes(o) THEN secrets + 1 ELSE secrets
        /\ used' = used \cup {o.id}
        /\ at' = [at EXCEPT ![p] = "write"]
        /\ op' = [op EXCEPT ![p] = o]
        /\ raced' = (raced \/ \E q \in Proc \ {p} : Busy(q))
        /\ UNCHANGED <<clock, does, file, added, cut, retired>>

(* history: the secret a rotation replaces, and whether it gets a window   *)
Retire(o) ==
    IF o.kind # "rotate" \/ raced THEN {}
    ELSE {[id |-> o.id, secret |-> file.nodes[o.id].secret, since |-> clock,
           grace |-> \A x \in retired : x.id = o.id /\ x.grace => x.since + Overlap <= clock]}

(* save, first half: the file is replaced, with all that is in memory: a   *)
(* change whose save failed before is in it too                            *)
Write(p) ==
    LET o == op[p]
    IN  /\ at[p] = "write"
        /\ file' = [kind |-> "good", nodes |-> mem[p].nodes, stamp |-> file.stamp + 1]
        /\ at' = [at EXCEPT ![p] = "stat"]
        /\ added' = added \cup Ids(mem[p].nodes)
        /\ cut' = IF o.kind = "revoke" THEN cut \cup {o.id} ELSE cut
        /\ retired' = retired \cup Retire(o)
        /\ UNCHANGED <<clock, does, mem, op, secrets, used, raced>>

(* The file cannot be written: the change stays in the hub's memory, the   *)
(* error is answered; servitals-ctl and a hub that starts exit.            *)
WriteFails(p) ==
    /\ at[p] = "write"
    /\ IF p = "hub" /\ op[p].kind # "local"
       THEN at' = [at EXCEPT ![p] = "idle"] /\ UNCHANGED mem
       ELSE /\ at' = [at EXCEPT ![p] = IF p = "hub" THEN "down" ELSE "idle"]
            /\ mem' = [mem EXCEPT ![p] = Fresh]
    /\ op' = [op EXCEPT ![p] = NoOp]
    /\ UNCHANGED <<clock, does, file, secrets, used, raced, added, cut, retired>>

(* save, second half: the time stamp of what is there now                  *)
Stat(p) ==
    /\ at[p] = "stat"
    /\ at' = [at EXCEPT ![p] = "idle"]
    /\ mem' = [mem EXCEPT ![p] = IF p = "hub" THEN [@ EXCEPT !.seen = file.stamp] ELSE Fresh]
    /\ op' = [op EXCEPT ![p] = NoOp]
    /\ UNCHANGED <<clock, does, file, secrets, used, raced, added, cut, retired>>

(* The hub starts with its own node there; else it adds it (Begin "local").*)
Boot ==
    /\ at["hub"] = "down"
    /\ Known(Load(Fresh).nodes[Local])
    /\ at' = [at EXCEPT !["hub"] = "idle"]
    /\ mem' = [mem EXCEPT !["hub"] = Load(Fresh)]
    /\ UNCHANGED <<clock, does, file, op, secrets, used, raced, added, cut, retired>>

(* Any question to the hub: it looks at the file.                          *)
Look ==
    /\ at["hub"] = "idle"
    /\ mem' = [mem EXCEPT !["hub"] = Load(@)]
    /\ UNCHANGED <<clock, does, file, at, op, secrets, used, raced, added, cut, retired>>

(* A process stops at any step.                                            *)
Stop(p) ==
    /\ at[p] # (IF p = "hub" THEN "down" ELSE "idle")
    /\ at' = [at EXCEPT ![p] = IF p = "hub" THEN "down" ELSE "idle"]
    /\ mem' = [mem EXCEPT ![p] = Fresh]
    /\ op' = [op EXCEPT ![p] = NoOp]
    /\ UNCHANGED <<clock, does, file, secrets, used, raced, added, cut, retired>>

(* A hand edit breaks the file, or mends it.  One made while a change is   *)
(* under way, or on top of one the hub has not read yet, is a race too.    *)
HandEdit(kind) ==
    /\ file.kind = (IF kind = "bad" THEN "good" ELSE "bad")
    /\ file.stamp < MaxStamp
    /\ file' = [file EXCEPT !.kind = kind, !.stamp = @ + 1]
    /\ raced' = (raced \/ \E p \in Proc : Busy(p)
                       \/ (at["hub"] = "idle" /\ mem["hub"].seen # file.stamp /\ kind = "bad"))
    /\ UNCHANGED <<clock, does, at, mem, op, secrets, used, added, cut, retired>>

StoreTick ==
    /\ clock < MaxTime
    /\ ~\E p \in Proc : Busy(p)
    /\ clock' = clock + 1
    /\ UNCHANGED <<does, file, at, mem, op, secrets, used, raced, added, cut, retired>>

StoreInit ==
    /\ clock = 0 /\ does \in Scenarios
    /\ file = [kind |-> "none", nodes |-> Fresh.nodes, stamp |-> 0]
    /\ at = [p \in Proc |-> IF p = "hub" THEN "down" ELSE "idle"]
    /\ mem = [p \in Proc |-> Fresh]
    /\ op = [p \in Proc |-> NoOp]
    /\ secrets = 0 /\ used = {}
    /\ raced = FALSE
    /\ added = {} /\ cut = {} /\ retired = {}

(* What the command line and the page ask for; linking is in Link.         *)
Asked(p) ==
    LET kinds == IF p = "hub" THEN {"rename", "revoke"} ELSE {"add", "rename", "revoke", "rotate"}
    IN  {[kind |-> k, id |-> i, req |-> NoReq] : k \in kinds \cap does, i \in Id}
        \cup (IF p = "hub" THEN {NoOp} ELSE {})

-----------------------------------------------------------------------------
(* Properties.                                                             *)

(* A node that was added stays in nodes.json, whatever write fails, stops  *)
(* half way or finds a file broken by hand (nodes.js 18, 31-32, 55, 83;    *)
(* server.js 166), unless two writers overlap.                             *)
AddedStays == ~raced => \A i \in added : file.nodes[i] # Nobody

(* A node that was revoked, from the page or with servitals-ctl, is        *)
(* refused from then on, by this hub and by one started later (nodes.js    *)
(* 20-35, 103-109; servitals-ctl 310), unless two writers overlap.         *)
CutStaysCut == ~raced => \A i \in cut : ~(at["hub"] # "down" /\ Known(Seen[i]))

(* A secret works no longer than Overlap after a rotation replaced it,     *)
(* however often the node is rotated again (nodes.js 110-124; agentapi.js  *)
(* 154-156), unless two writers overlap.                                   *)
RetiredIsRefused ==
    ~raced => \A x \in retired : Accepts(x.id, x.secret) => clock < x.since + Overlap

(* The secret a server may still hold when its node is rotated works until *)
(* its window ends, also when the node is rotated again within it          *)
(* (nodes.js 115-119), unless the node is revoked or two writers overlap.  *)
GraceIsKept ==
    ~raced => \A x \in retired :
                  /\ x.grace /\ clock < x.since + Overlap
                  /\ at["hub"] # "down" /\ Known(Seen[x.id])
                  => Accepts(x.id, x.secret)
=============================================================================
