---------------------------- MODULE EnrolProofs -----------------------------
(***************************************************************************)
(* Theorems about code linking, for any number of nodes and requests and   *)
(* any times, and the lemmas about the node store that they and            *)
(* StoreProofs rest on.                                                    *)
(***************************************************************************)
EXTENDS Link, FiniteSetTheorems, TLAPS

-----------------------------------------------------------------------------
(* Types.                                                                  *)

Entry == Node \cup {Nobody}
Copy == [nodes : [Id -> Entry], seen : Nat \cup {NoFile}, unreadable : BOOLEAN]
Change == [kind : Kind, id : Id, req : Req \cup {NoReq}]

StoreType ==
    /\ clock \in Nat
    /\ file \in [kind : {"none", "good", "bad"}, nodes : [Id -> Entry], stamp : Nat]
    /\ at \in [Proc -> {"down", "idle", "write", "stat"}]
    /\ mem \in [Proc -> Copy]
    /\ op \in [Proc -> Change]
    /\ secrets \in Nat
    /\ used \in SUBSET Id /\ added \in SUBSET Id /\ cut \in SUBSET Id
    /\ raced \in BOOLEAN

LinkRec == [status : {"pending", "denied", "approved", "spent"}, expires : Nat, findable : BOOLEAN]
PollRec == [state : {"polling"}, deadline : Nat, asked : BOOLEAN]
DoneRec == [state : {"denied", "expired", "linked", "died"}]

LinkType ==
    /\ links \in [Req -> {Gone} \cup LinkRec]
    /\ agent \in [Req -> {New} \cup PollRec \cup DoneRec]
    /\ excused \in SUBSET Req
    /\ nodesOf \in [Req -> SUBSET Id]

Adds(o) == o.kind \in {"local", "add", "link"}

-----------------------------------------------------------------------------
(* The nodes that are, or ever were, somewhere: in the file or in memory.  *)
There == added \cup Ids(file.nodes) \cup UNION {Ids(mem[p].nodes) : p \in Proc}

(* Processes and ids, whether or not two writers overlapped.               *)
Steps ==
    /\ at["ctl"] # "down"
    /\ \A p \in Proc : ~Busy(p) => op[p] = NoOp
    /\ op["ctl"].kind # "link" /\ op["hub"].kind # "rotate"
    /\ \A p \in Proc : Busy(p) => op[p].id \in used
    /\ There \subseteq used

(* One node for a code: the code is used up before the node is added.      *)
CodeOnce(r) ==
    /\ agent[r] = New => links[r] = Gone
    /\ nodesOf[r] # {} => /\ \E i \in Id : nodesOf[r] = {i}
                          /\ agent[r] # New
                          /\ links[r] = Gone \/ ~links[r].findable

Codes == \A r \in Req : CodeOnce(r)

(* The hub's change for a request, and who may still add its node.         *)
Linking(r) == op["hub"].kind = "link" /\ op["hub"].req = r

Links ==
    /\ at["hub"] = "down" \/ (Busy("hub") /\ op["hub"].kind = "local") => \A r \in Req : links[r] = Gone
    /\ \A r \in Req : nodesOf[r] \subseteq used
    /\ \A r \in Req : Linking(r) => /\ links[r] # Gone /\ links[r].status = "pending" /\ clock <= links[r].expires
                                    /\ nodesOf[r] = {op["hub"].id}

(* What an agent is told, unless it is excused: while it polls, the hub    *)
(* has its request and nothing was told; once it was told no or gave up,   *)
(* its code is good no more.                                               *)
Told(r) ==
    /\ agent[r].state = "polling" =>
         /\ links[r] # Gone /\ links[r].status # "spent"
         /\ agent[r].deadline = links[r].expires + Slack /\ clock <= agent[r].deadline
         /\ links[r].status = "approved" /\ agent[r].asked => clock < agent[r].deadline
    /\ agent[r].state # "died"
    /\ agent[r].state \in {"denied", "expired"} =>
         links[r] = Gone \/ links[r].status # "pending" \/ clock > links[r].expires
    /\ agent[r].state = "linked" => links[r] = Gone \/ links[r].status = "spent"
    /\ Linking(r) => agent[r].state = "polling"
    /\ nodesOf[r] \cap There # {} =>
         \/ agent[r].state = "linked"
         \/ agent[r].state = "polling" /\ links[r].status = "approved"
         \/ Linking(r)

LinkInv == Steps /\ Codes /\ Links /\ \A r \in Req \ excused : Told(r)

-----------------------------------------------------------------------------
(* The parts a change is made of.                                          *)

(* What no copy, no change and no node are.                                *)
LEMMA Constants ==
    /\ Fresh \in Copy /\ Fresh.seen = NoFile /\ \A i \in Id : Fresh.nodes[i] = Nobody
    /\ NoOp \in Change /\ NoOp.kind = "local"
    /\ RevokedNode \in Node /\ RevokedNode # Nobody /\ ~Known(RevokedNode) /\ RevokedNode.old = NoSecret
    /\ ~Known(Nobody)
    /\ \A n \in Node : n # Nobody
  <1>1. Fresh \in Copy /\ Fresh.seen = NoFile /\ \A i \in Id : Fresh.nodes[i] = Nobody
    BY DEF Fresh, Copy, Entry, NoFile
  <1>2. NoOp \in Change /\ NoOp.kind = "local"
    BY IdsAssumption DEF NoOp, Change, Kind
  <1>3. RevokedNode \in Node /\ RevokedNode.old = NoSecret /\ RevokedNode.revoked = TRUE
    BY DEF RevokedNode, Node, NoSecret
  <1>4. \A n \in Node : n # Nobody
    BY IdsAssumption
  <1> QED BY <1>1, <1>2, <1>3, <1>4 DEF Known

(* load gives a copy (nodes.js 20-35).                                     *)
LEMMA LoadType ==
    ASSUME StoreType, NEW m \in Copy
    PROVE  Load(m) \in Copy
  <1>1. Fresh \in Copy
    BY Constants
  <1>2. [nodes |-> file.nodes, seen |-> file.stamp, unreadable |-> FALSE] \in Copy
    BY DEF StoreType, Copy
  <1>3. [m EXCEPT !.unreadable = @ \/ m.seen = NoFile] \in Copy
    BY DEF Copy
  <1>4. file.kind \in {"none", "good", "bad"}
    BY DEF StoreType
  <1> QED BY <1>1, <1>2, <1>3, <1>4 DEF Load

(* The cases of load.                                                      *)
LEMMA LoadCases ==
    ASSUME StoreType, NEW m \in Copy
    PROVE  /\ file.kind = "none" => Load(m) = Fresh
           /\ file.kind # "none" /\ file.stamp = m.seen => Load(m) = m
           /\ file.kind = "good" /\ file.stamp # m.seen => Load(m).nodes = file.nodes /\ Load(m).seen = file.stamp
           /\ file.kind = "bad" /\ file.stamp # m.seen =>
                Load(m).nodes = m.nodes /\ Load(m).seen = m.seen /\ (m.seen = NoFile => Load(m).unreadable)
  <1>1. file.kind \in {"none", "good", "bad"}
    BY DEF StoreType
  <1>2. DOMAIN m = {"nodes", "seen", "unreadable"}
    BY DEF Copy
  <1> QED BY <1>1, <1>2 DEF Load

(* A rotated node is a node, with the new secret (nodes.js 110-124).       *)
LEMMA RotatedNode ==
    ASSUME StoreType, NEW n \in Node, NEW s \in Nat
    PROVE  /\ Rotated(n, s) \in Node
           /\ Rotated(n, s).secret = s /\ Rotated(n, s).revoked = n.revoked
           /\ n.old # NoSecret /\ n.until > clock => Rotated(n, s).old = n.old /\ Rotated(n, s).until = n.until
           /\ ~(n.old # NoSecret /\ n.until > clock) =>
                Rotated(n, s).old = n.secret /\ Rotated(n, s).until = clock + Overlap
  <1>1. clock + Overlap \in Nat
    BY StoreBounds DEF StoreType
  <1> QED BY <1>1 DEF Rotated, Node

(* What a change makes of a node.                                          *)
LEMMA ChangedNode ==
    ASSUME StoreType, NEW o \in Change, NEW n \in Entry, Adds(o) \/ Known(n)
    PROVE  /\ Changed(o, n) \in Node
           /\ Adds(o) => Changed(o, n) = NewNode(secrets + 1)
           /\ o.kind = "rename" => Changed(o, n) = n
           /\ o.kind = "revoke" => Changed(o, n) = RevokedNode
           /\ o.kind = "rotate" => Changed(o, n) = Rotated(n, secrets + 1)
  <1>1. secrets + 1 \in Nat
    BY DEF StoreType
  <1>2. NewNode(secrets + 1) \in Node
    BY <1>1 DEF NewNode, Node, NoSecret
  <1>3. ~Adds(o) => n \in Node
    BY DEF Known, Entry
  <1>4. ~Adds(o) => Rotated(n, secrets + 1) \in Node
    BY <1>1, <1>3, RotatedNode
  <1>5. o.kind \in Kind
    BY DEF Change
  <1> QED BY <1>2, <1>3, <1>4, <1>5, Constants DEF Changed, Adds, Kind

(* What the command line and the page ask for are changes.                 *)
LEMMA AskedChanges ==
    ASSUME StoreType, NEW p \in Proc, NEW o \in Asked(p)
    PROVE  /\ o \in Change /\ o.kind # "link" /\ o.req = NoReq
           /\ p = "hub" => o.kind # "rotate" /\ (o.kind = "local" => o = NoOp)
           /\ p = "ctl" => o.kind # "local"
  <1>1. NoOp \in Change /\ NoOp.kind = "local" /\ NoOp.req = NoReq
    BY Constants DEF NoOp
  <1>2. \/ p = "hub" /\ o = NoOp
        \/ \E k \in (IF p = "hub" THEN {"rename", "revoke"} ELSE {"add", "rename", "revoke", "rotate"}), i \in Id :
              o = [kind |-> k, id |-> i, req |-> NoReq]
    BY DEF Asked
  <1> QED BY <1>1, <1>2 DEF Change, Kind, Proc

(* A change begins: the copy it loaded, with one node changed.             *)
Loading(p) == Load(IF p = "ctl" THEN Fresh ELSE mem[p])

LEMMA Begins ==
    ASSUME StoreType, NEW p \in Proc, NEW o \in Change, Begin(p, o)
    PROVE  /\ Loading(p) \in Copy
           /\ Allowed(o, Loading(p))
           /\ Adds(o) \/ Known(Loading(p).nodes[o.id])
           /\ mem'[p] \in Copy
           /\ mem'[p].nodes = [Loading(p).nodes EXCEPT ![o.id] = Changed(o, @)]
           /\ mem'[p].seen = Loading(p).seen
           /\ \A q \in Proc \ {p} : mem'[q] = mem[q] /\ at'[q] = at[q] /\ op'[q] = op[q]
           /\ at'[p] = "write" /\ op'[p] = o
           /\ at[p] = (IF o.kind = "local" THEN "down" ELSE "idle")
           /\ secrets' = (IF Makes(o) THEN secrets + 1 ELSE secrets)
           /\ Adds(o) => o.id \notin used
           /\ used' = used \cup {o.id}
           /\ raced' = (raced \/ \E q \in Proc \ {p} : Busy(q))
           /\ UNCHANGED <<clock, file, added, cut, retired>>
  <1> DEFINE m == Loading(p)
             n == Changed(o, m.nodes[o.id])
  <1>1. m \in Copy
    <2>1. Fresh \in Copy /\ mem[p] \in Copy
      BY Constants DEF StoreType
    <2> QED BY <2>1, LoadType DEF Loading
  <1>2. Allowed(o, m)
    BY DEF Begin, Loading
  <1>3. Adds(o) \/ Known(m.nodes[o.id])
    BY <1>2 DEF Allowed, Adds
  <1>4. m.nodes[o.id] \in Entry /\ o.id \in Id
    BY <1>1 DEF Copy, Change
  <1>5. n \in Node
    BY <1>3, <1>4, ChangedNode
  <1>6. mem' = [mem EXCEPT ![p] = [m EXCEPT !.nodes[o.id] = n]]
    BY DEF Begin, Loading
  <1>7. /\ [m EXCEPT !.nodes[o.id] = n] \in Copy
        /\ [m EXCEPT !.nodes[o.id] = n].nodes = [m.nodes EXCEPT ![o.id] = n]
        /\ [m EXCEPT !.nodes[o.id] = n].seen = m.seen
    <2> HIDE DEF m, n
    <2> QED BY <1>1, <1>4, <1>5 DEF Copy, Entry
  <1>8. mem'[p] = [m EXCEPT !.nodes[o.id] = n] /\ \A q \in Proc \ {p} : mem'[q] = mem[q]
    BY <1>6 DEF StoreType
  <1>9. /\ at' = [at EXCEPT ![p] = "write"] /\ op' = [op EXCEPT ![p] = o]
        /\ at[p] = (IF o.kind = "local" THEN "down" ELSE "idle")
        /\ secrets' = (IF Makes(o) THEN secrets + 1 ELSE secrets)
        /\ Adds(o) => o.id \notin used
        /\ used' = used \cup {o.id}
        /\ raced' = (raced \/ \E q \in Proc \ {p} : Busy(q))
        /\ UNCHANGED <<clock, file, added, cut, retired>>
    BY DEF Begin, Adds
  <1>10. /\ at'[p] = "write" /\ op'[p] = o
         /\ \A q \in Proc \ {p} : at'[q] = at[q] /\ op'[q] = op[q]
    BY <1>9 DEF StoreType
  <1> HIDE DEF m, n
  <1> QED BY <1>1, <1>2, <1>3, <1>7, <1>8, <1>9, <1>10 DEF m, n

(* A process steps: its place, copy and change; the other's stay.          *)
LEMMA OneProcess ==
    ASSUME StoreType, NEW p \in Proc, NEW a, NEW m, NEW o,
           at' = [at EXCEPT ![p] = a], mem' = [mem EXCEPT ![p] = m], op' = [op EXCEPT ![p] = o]
    PROVE  /\ at'[p] = a /\ mem'[p] = m /\ op'[p] = o
           /\ \A q \in Proc \ {p} : at'[q] = at[q] /\ mem'[q] = mem[q] /\ op'[q] = op[q]
           /\ a \in {"down", "idle", "write", "stat"} => at' \in [Proc -> {"down", "idle", "write", "stat"}]
           /\ m \in Copy => mem' \in [Proc -> Copy]
           /\ o \in Change => op' \in [Proc -> Change]
  BY DEF StoreType

(* Every step of the store keeps the types.                                *)
LEMMA BeginType ==
    ASSUME StoreType, NEW p \in Proc, NEW o \in Change, Begin(p, o)
    PROVE  StoreType'
  <1>1. at' \in [Proc -> {"down", "idle", "write", "stat"}] /\ op' \in [Proc -> Change]
    BY DEF Begin, StoreType
  <1>2. mem' \in [Proc -> Copy]
    <2>1. mem'[p] \in Copy /\ \A q \in Proc \ {p} : mem'[q] = mem[q]
      BY Begins
    <2>2. DOMAIN mem' = Proc /\ mem' = [q \in Proc |-> mem'[q]]
      BY DEF Begin, StoreType
    <2> QED BY <2>1, <2>2 DEF StoreType
  <1>3. secrets' \in Nat /\ used' \in SUBSET Id /\ raced' \in BOOLEAN
    BY DEF Begin, StoreType, Change
  <1> QED BY <1>1, <1>2, <1>3 DEF Begin, StoreType

(* ... the other steps of a process.                                       *)
LEMMA ProcessType ==
    ASSUME StoreType, NEW p \in Proc
    PROVE  /\ Write(p) => StoreType'
           /\ WriteFails(p) => StoreType'
           /\ Stat(p) => StoreType'
           /\ Stop(p) => StoreType'
  <1>1. Fresh \in Copy /\ NoOp \in Change
    BY Constants
  <1>2. ASSUME Write(p) PROVE StoreType'
    <2>1. file' = [kind |-> "good", nodes |-> mem[p].nodes, stamp |-> file.stamp + 1]
      BY <1>2 DEF Write
    <2>2. file' \in [kind : {"none", "good", "bad"}, nodes : [Id -> Entry], stamp : Nat]
      BY <2>1 DEF StoreType, Copy
    <2>3. added' \in SUBSET Id /\ cut' \in SUBSET Id
      BY <1>2 DEF Write, StoreType, Change, Ids
    <2> QED BY <1>2, <2>2, <2>3 DEF Write, StoreType
  <1>3. ASSUME WriteFails(p) PROVE StoreType'
    BY <1>1, <1>3 DEF WriteFails, StoreType
  <1>4. ASSUME Stat(p) PROVE StoreType'
    <2>1. [mem[p] EXCEPT !.seen = file.stamp] \in Copy
      BY DEF StoreType, Copy
    <2>2. mem' \in [Proc -> Copy]
      BY <1>1, <1>4, <2>1 DEF Stat, StoreType
    <2> QED BY <1>1, <1>4, <2>2 DEF Stat, StoreType
  <1>5. ASSUME Stop(p) PROVE StoreType'
    BY <1>1, <1>5 DEF Stop, StoreType
  <1> QED BY <1>2, <1>3, <1>4, <1>5

(* ... and the hub's start, its looks at the file, hand edits and time.    *)
LEMMA OtherType ==
    ASSUME StoreType
    PROVE  /\ Boot => StoreType'
           /\ Look => StoreType'
           /\ \A kind \in {"bad", "good"} : HandEdit(kind) => StoreType'
           /\ StoreTick => StoreType'
           /\ UNCHANGED storeVars => StoreType'
  <1>1. Load(Fresh) \in Copy /\ Load(mem["hub"]) \in Copy
    <2>1. Fresh \in Copy /\ mem["hub"] \in Copy
      BY Constants DEF StoreType, Proc
    <2> QED BY <2>1, LoadType
  <1>2. ASSUME Boot PROVE StoreType'
    BY <1>1, <1>2 DEF Boot, StoreType
  <1>3. ASSUME Look PROVE StoreType'
    BY <1>1, <1>3 DEF Look, StoreType
  <1>4. ASSUME NEW kind \in {"bad", "good"}, HandEdit(kind) PROVE StoreType'
    <2>1. file' \in [kind : {"none", "good", "bad"}, nodes : [Id -> Entry], stamp : Nat]
      <3>1. file' = [file EXCEPT !.kind = kind, !.stamp = @ + 1]
        BY <1>4 DEF HandEdit
      <3>2. file \in [kind : {"none", "good", "bad"}, nodes : [Id -> Entry], stamp : Nat]
        BY DEF StoreType
      <3>3. file' = [kind |-> kind, nodes |-> file.nodes, stamp |-> file.stamp + 1]
        BY <3>1, <3>2
      <3>4. file.nodes \in [Id -> Entry] /\ file.stamp + 1 \in Nat
        BY <3>2
      <3> QED BY <3>3, <3>4
    <2>2. raced' \in BOOLEAN
      BY <1>4 DEF HandEdit, StoreType
    <2> QED BY <1>4, <2>1, <2>2 DEF HandEdit, StoreType
  <1>5. ASSUME StoreTick PROVE StoreType'
    BY <1>5 DEF StoreTick, StoreType
  <1>6. ASSUME UNCHANGED storeVars PROVE StoreType'
    BY <1>6 DEF storeVars, StoreType
  <1> QED BY <1>2, <1>3, <1>4, <1>5, <1>6

-----------------------------------------------------------------------------
(* Requests and agents.                                                    *)

(* An entry or an agent that is there is a whole record.                   *)
LEMMA LinkFields ==
    ASSUME LinkType, NEW r \in Req
    PROVE  /\ links[r] # Gone => links[r] \in LinkRec
           /\ agent[r].state \in {"new", "polling", "denied", "expired", "linked", "died"}
           /\ agent[r].state = "polling" => agent[r] \in PollRec
           /\ agent[r].state # "polling" => agent[r] \in {New} \cup DoneRec
           /\ agent[r] = New <=> agent[r].state = "new"
  BY DEF LinkType, New, PollRec, DoneRec

(* sweep forgets old requests, and ends codes; nothing else (link.js).     *)
LEMMA Sweeps ==
    ASSUME LinkType, StoreType, NEW r \in Req
    PROVE  /\ Swept(links)[r] \in {Gone} \cup LinkRec
           /\ links[r] = Gone => Swept(links)[r] = Gone
           /\ Swept(links)[r] # Gone =>
                /\ links[r] # Gone /\ Swept(links)[r] \in LinkRec
                /\ Swept(links)[r].status = links[r].status /\ Swept(links)[r].expires = links[r].expires
                /\ Swept(links)[r].findable => links[r].findable
           /\ links[r] # Gone /\ clock <= links[r].expires + Keep => Swept(links)[r] # Gone
  <1>1. CASE links[r] = Gone
    BY <1>1 DEF Swept
  <1>2. CASE links[r] # Gone
    <2> DEFINE e == [links[r] EXCEPT !.findable = @ /\ clock <= links[r].expires /\ links[r].status = "pending"]
    <2>1. links[r] \in LinkRec
      BY <1>2, LinkFields
    <2>2. e \in LinkRec /\ e.status = links[r].status /\ e.expires = links[r].expires /\ (e.findable => links[r].findable)
      BY <2>1 DEF LinkRec
    <2>3. Swept(links)[r] = IF clock > links[r].expires + Keep THEN Gone ELSE e
      BY <1>2 DEF Swept
    <2>4. e # Gone
      BY <2>2 DEF LinkRec, Gone
    <2>5. clock \in Nat /\ links[r].expires \in Nat /\ Keep \in Nat
      BY <2>1, TimesAssumption DEF StoreType, LinkRec
    <2> HIDE DEF e
    <2> QED BY <1>2, <2>1, <2>2, <2>3, <2>4, <2>5
  <1> QED BY <1>1, <1>2

(* ... and it is a function of the requests.                               *)
LEMMA SweptType ==
    ASSUME LinkType, StoreType
    PROVE  Swept(links) \in [Req -> {Gone} \cup LinkRec]
  <1>1. \A r \in Req : Swept(links)[r] \in {Gone} \cup LinkRec
    BY Sweeps
  <1>2. Swept(links) = [r \in Req |-> Swept(links)[r]]
    BY DEF Swept
  <1> QED BY <1>1, <1>2

-----------------------------------------------------------------------------
(* Processes and ids.                                                      *)

(* What load gives is in the file or was in memory.                        *)
LEMMA LoadIds ==
    ASSUME StoreType, NEW m \in Copy
    PROVE  Ids(Load(m).nodes) \subseteq Ids(file.nodes) \cup Ids(m.nodes)
  <1>1. \/ Load(m).nodes = file.nodes \/ Load(m).nodes = m.nodes \/ Load(m) = Fresh
    <2>1. file.kind \in {"none", "good", "bad"}
      BY DEF StoreType
    <2> QED BY <2>1, LoadCases
  <1> QED BY <1>1, Constants DEF Ids

(* One place of a process and the file: what there is of the nodes.        *)
LEMMA ThereStep ==
    ASSUME NEW p \in Proc, NEW X, \A q \in Proc \ {p} : mem'[q] = mem[q],
           added' \subseteq There \cup X, Ids(file'.nodes) \subseteq There \cup X,
           Ids(mem'[p].nodes) \subseteq There \cup X
    PROVE  There' \subseteq There \cup X
  <1> SUFFICES ASSUME NEW i \in There' PROVE i \in There \cup X
    OBVIOUS
  <1>1. CASE i \in added' \cup Ids(file'.nodes) \cup Ids(mem'[p].nodes)
    BY <1>1
  <1>2. CASE i \notin added' \cup Ids(file'.nodes) \cup Ids(mem'[p].nodes)
    <2>1. PICK q \in Proc : i \in Ids(mem'[q].nodes)
      BY <1>2 DEF There, Ids
    <2>2. q # p
      BY <1>2, <2>1
    <2>3. i \in Ids(mem[q].nodes)
      BY <2>1, <2>2
    <2> QED BY <2>3 DEF There
  <1> QED BY <1>1, <1>2

(* A change brings the node that it adds, if any.                          *)
LEMMA ThereBegin ==
    ASSUME StoreType, NEW p \in Proc, NEW o \in Change, Begin(p, o)
    PROVE  There' \subseteq There \cup (IF Adds(o) THEN {o.id} ELSE {})
  <1> DEFINE X == IF Adds(o) THEN {o.id} ELSE {}
             m == Loading(p)
  <1>1. /\ m \in Copy /\ (Adds(o) \/ Known(m.nodes[o.id]))
        /\ mem'[p].nodes = [m.nodes EXCEPT ![o.id] = Changed(o, @)]
        /\ \A q \in Proc \ {p} : mem'[q] = mem[q]
        /\ UNCHANGED <<file, added>>
    BY Begins
  <1>2. Ids(m.nodes) \subseteq There
    <2>1. Fresh \in Copy /\ mem[p] \in Copy /\ Ids(Fresh.nodes) = {}
      BY Constants DEF StoreType, Ids
    <2>2. Ids(m.nodes) \subseteq Ids(file.nodes) \cup Ids(mem[p].nodes)
      BY <2>1, LoadIds DEF Loading
    <2> QED BY <2>2 DEF There
  <1>3. Ids(mem'[p].nodes) \subseteq There \cup X
    <2> SUFFICES ASSUME NEW i \in Id, mem'[p].nodes[i] # Nobody PROVE i \in There \cup X
      BY DEF Ids
    <2>1. m.nodes \in [Id -> Entry]
      BY <1>1 DEF Copy
    <2> HIDE DEF m
    <2>2. CASE i = o.id /\ Adds(o)
      BY <2>2
    <2>3. CASE i = o.id /\ ~Adds(o)
      <3>1. m.nodes[i] # Nobody
        BY <1>1, <2>3 DEF Known
      <3> QED BY <1>2, <3>1 DEF Ids
    <2>4. CASE i # o.id
      <3>1. m.nodes[i] # Nobody
        BY <1>1, <2>1, <2>4
      <3> QED BY <1>2, <3>1 DEF Ids
    <2> QED BY <2>2, <2>3, <2>4
  <1>4. added' \subseteq There \cup X /\ Ids(file'.nodes) \subseteq There \cup X
    BY <1>1 DEF There, Ids
  <1> HIDE DEF X, m
  <1>5. There' \subseteq There \cup X
    BY <1>1, <1>3, <1>4, ThereStep
  <1> QED BY <1>5 DEF X

(* No other step of the store brings one.                                  *)
LEMMA ThereStays ==
    ASSUME StoreType
    PROVE  /\ \A p \in Proc : Write(p) \/ WriteFails(p) \/ Stat(p) \/ Stop(p) => There' \subseteq There
           /\ Boot \/ Look \/ StoreTick \/ UNCHANGED storeVars => There' \subseteq There
           /\ \A kind \in {"bad", "good"} : HandEdit(kind) => There' \subseteq There
  <1>1. ASSUME NEW p \in Proc, Write(p) \/ WriteFails(p) \/ Stat(p) \/ Stop(p)
        PROVE  There' \subseteq There
    <2>1. mem[p] \in Copy /\ Ids(mem[p].nodes) \subseteq There /\ Ids(Fresh.nodes) = {}
      BY Constants DEF StoreType, Ids, There
    <2>2. added \subseteq There /\ Ids(file.nodes) \subseteq There
      BY DEF There
    <2>3. \A q \in Proc \ {p} : mem'[q] = mem[q]
      <3>1. mem' = mem \/ \E m : mem' = [mem EXCEPT ![p] = m]
        <4>1. CASE Write(p)
          BY <4>1 DEF Write
        <4>2. CASE WriteFails(p)
          BY <4>2 DEF WriteFails
        <4>3. CASE Stat(p)
          BY <4>3 DEF Stat
        <4>4. CASE Stop(p)
          BY <4>4 DEF Stop
        <4> QED BY <1>1, <4>1, <4>2, <4>3, <4>4
      <3> QED BY <3>1 DEF StoreType
    <2>4. mem'[p].nodes \in {mem[p].nodes, Fresh.nodes}
      <3>1. CASE Write(p)
        BY <3>1 DEF Write
      <3>2. CASE WriteFails(p)
        BY <3>2 DEF WriteFails, StoreType
      <3>3. CASE Stat(p)
        BY <2>1, <3>3 DEF Stat, StoreType, Copy
      <3>4. CASE Stop(p)
        BY <3>4 DEF Stop, StoreType
      <3> QED BY <1>1, <3>1, <3>2, <3>3, <3>4
    <2>5. /\ added' \subseteq added \cup Ids(mem[p].nodes)
          /\ file'.nodes \in {file.nodes, mem[p].nodes}
      <3>1. CASE Write(p)
        BY <3>1 DEF Write
      <3>2. CASE WriteFails(p) \/ Stat(p) \/ Stop(p)
        BY <3>2 DEF WriteFails, Stat, Stop
      <3> QED BY <1>1, <3>1, <3>2
    <2>6. Ids(mem'[p].nodes) \subseteq There /\ Ids(file'.nodes) \subseteq There /\ added' \subseteq There
      BY <2>1, <2>2, <2>4, <2>5
    <2>7. There' \subseteq There \cup {}
      BY <2>3, <2>6, ThereStep
    <2> QED BY <2>7
  <1>2. ASSUME Boot \/ Look PROVE There' \subseteq There
    <2>1. Fresh \in Copy /\ mem["hub"] \in Copy /\ Ids(Fresh.nodes) = {} /\ "hub" \in Proc
      BY Constants DEF StoreType, Ids, Proc
    <2>2. /\ Ids(Load(Fresh).nodes) \subseteq There /\ Ids(Load(mem["hub"]).nodes) \subseteq There
          /\ added \subseteq There /\ Ids(file.nodes) \subseteq There
      BY <2>1, LoadIds DEF There
    <2>3. /\ mem' = [mem EXCEPT !["hub"] = Load(Fresh)] \/ mem' = [mem EXCEPT !["hub"] = Load(mem["hub"])]
          /\ UNCHANGED <<file, added>>
      BY <1>2 DEF Boot, Look
    <2>4. /\ mem'["hub"] \in {Load(Fresh), Load(mem["hub"])}
          /\ \A q \in Proc \ {"hub"} : mem'[q] = mem[q]
      BY <2>1, <2>3 DEF StoreType
    <2>5. Ids(mem'["hub"].nodes) \subseteq There /\ Ids(file'.nodes) \subseteq There /\ added' \subseteq There
      BY <2>2, <2>3, <2>4
    <2>6. There' \subseteq There \cup {}
      BY <2>1, <2>4, <2>5, ThereStep
    <2> QED BY <2>6
  <1>3. ASSUME StoreTick \/ UNCHANGED storeVars \/ \E kind \in {"bad", "good"} : HandEdit(kind)
        PROVE  There' \subseteq There
    <2>1. UNCHANGED <<mem, added>> /\ file'.nodes = file.nodes
      BY <1>3 DEF StoreTick, HandEdit, storeVars, StoreType
    <2> QED BY <2>1 DEF There, Ids
  <1> QED BY <1>1, <1>2, <1>3

(* A change begins with an id nobody has.                                  *)
LEMMA StepsBegin ==
    ASSUME StoreType, Steps, NEW p \in Proc, NEW o \in Change, Begin(p, o),
           p = "ctl" => o.kind # "link", p = "hub" => o.kind # "rotate"
    PROVE  Steps'
  <1>1. /\ \A q \in Proc \ {p} : at'[q] = at[q] /\ op'[q] = op[q]
        /\ at'[p] = "write" /\ op'[p] = o /\ used' = used \cup {o.id}
    BY Begins
  <1>2. at'["ctl"] # "down" /\ op'["ctl"].kind # "link" /\ op'["hub"].kind # "rotate"
    BY <1>1 DEF Steps, Proc
  <1>3. \A q \in Proc : ~Busy(q)' => op'[q] = NoOp
    BY <1>1 DEF Steps, Busy
  <1>4. \A q \in Proc : Busy(q)' => op'[q].id \in used'
    BY <1>1 DEF Steps, Busy
  <1>5. There' \subseteq used'
    BY <1>1, ThereBegin DEF Steps
  <1> QED BY <1>2, <1>3, <1>4, <1>5 DEF Steps

(* The file is replaced.                                                   *)
LEMMA StepsWrite ==
    ASSUME StoreType, Steps, NEW p \in Proc, Write(p)
    PROVE  Steps'
  <1>1. at' = [at EXCEPT ![p] = "stat"] /\ at[p] = "write" /\ UNCHANGED <<op, used>>
    BY DEF Write
  <1>2. at'[p] = "stat" /\ \A q \in Proc \ {p} : at'[q] = at[q]
    BY <1>1 DEF StoreType
  <1>3. \A q \in Proc : Busy(q)' <=> Busy(q)
    BY <1>1, <1>2 DEF Busy
  <1>4. at'["ctl"] # "down"
    BY <1>2 DEF Steps, Proc
  <1>5. There' \subseteq used'
    BY <1>1, ThereStays DEF Steps
  <1> QED BY <1>1, <1>3, <1>4, <1>5 DEF Steps

(* A process gives up its change, or ends it, or does nothing to it.       *)
LEMMA StepsEnd ==
    ASSUME StoreType, Steps, UNCHANGED used, There' \subseteq There,
           \A p \in Proc : \/ at'[p] = at[p] /\ op'[p] = op[p]
                           \/ ~Busy(p)' /\ op'[p] = NoOp,
           at'["ctl"] # "down"
    PROVE  Steps'
  <1>1. NoOp.kind = "local"
    BY Constants
  <1>2. op'["ctl"].kind # "link" /\ op'["hub"].kind # "rotate"
    BY <1>1 DEF Steps, Proc
  <1>3. \A p \in Proc : Busy(p)' => Busy(p) /\ op'[p] = op[p]
    BY DEF Busy
  <1>4. \A p \in Proc : ~Busy(p)' => op'[p] = NoOp
    BY DEF Busy, Steps
  <1>5. (\A p \in Proc : Busy(p)' => op'[p].id \in used') /\ There' \subseteq used'
    BY <1>3 DEF Steps
  <1> QED BY <1>2, <1>4, <1>5 DEF Steps

(* The steps that end a change, and those without one.                     *)
LEMMA EndsCase ==
    ASSUME StoreType, Steps
    PROVE  /\ \A p \in Proc : WriteFails(p) \/ Stat(p) \/ Stop(p) => Steps'
           /\ Boot \/ Look \/ StoreTick \/ UNCHANGED storeVars => Steps'
           /\ \A kind \in {"bad", "good"} : HandEdit(kind) => Steps'
  <1>1. ASSUME NEW p \in Proc, WriteFails(p) \/ Stat(p) \/ Stop(p) PROVE Steps'
    <2>1. /\ UNCHANGED used /\ op' = [op EXCEPT ![p] = NoOp]
          /\ \E a \in {"idle", "down"} : at' = [at EXCEPT ![p] = a] /\ (p = "ctl" => a = "idle")
      <3>1. CASE WriteFails(p)
        BY <3>1 DEF WriteFails
      <3>2. CASE Stat(p)
        BY <3>2 DEF Stat
      <3>3. CASE Stop(p)
        BY <3>3 DEF Stop
      <3> QED BY <1>1, <3>1, <3>2, <3>3
    <2>2. \A q \in Proc \ {p} : at'[q] = at[q] /\ op'[q] = op[q]
      BY <2>1 DEF StoreType
    <2>3. ~Busy(p)' /\ op'[p] = NoOp /\ (p = "ctl" => at'[p] = "idle")
      BY <2>1 DEF StoreType, Busy
    <2>4. at'["ctl"] # "down"
      BY <2>2, <2>3 DEF Steps, Proc
    <2>5. There' \subseteq There
      BY <1>1, ThereStays
    <2> QED BY <2>1, <2>2, <2>3, <2>4, <2>5, StepsEnd
  <1>2. ASSUME Boot PROVE Steps'
    <2>1. at["hub"] = "down" /\ at' = [at EXCEPT !["hub"] = "idle"] /\ UNCHANGED <<op, used>>
      BY <1>2 DEF Boot
    <2>2. op["hub"] = NoOp
      BY <2>1 DEF Steps, Busy, Proc
    <2>3. at'["hub"] = "idle" /\ at'["ctl"] = at["ctl"]
      BY <2>1 DEF StoreType, Proc
    <2>4. ~Busy("hub")' /\ at'["ctl"] # "down"
      BY <2>3 DEF Busy, Steps
    <2>5. There' \subseteq There
      BY <1>2, ThereStays
    <2> QED BY <2>1, <2>2, <2>3, <2>4, <2>5, StepsEnd DEF Proc
  <1>3. ASSUME Look \/ StoreTick \/ UNCHANGED storeVars \/ \E kind \in {"bad", "good"} : HandEdit(kind) PROVE Steps'
    <2>1. UNCHANGED <<at, op, used>>
      BY <1>3 DEF Look, StoreTick, HandEdit, storeVars
    <2>2. at'["ctl"] # "down"
      BY <2>1 DEF Steps
    <2>3. There' \subseteq There
      BY <1>3, ThereStays
    <2> QED BY <2>1, <2>2, <2>3, StepsEnd
  <1> QED BY <1>1, <1>2, <1>3

-----------------------------------------------------------------------------
(* Linking.                                                                *)

Asking == Codes /\ Links /\ \A r \in Req \ excused : Told(r)

(* Hub without requests.                                                   *)
NoLinks == at["hub"] = "down" \/ (Busy("hub") /\ op["hub"].kind = "local")

(* A step of the store alone.  It begins and ends no linking, and brings   *)
(* no node of a request.                                                   *)
LEMMA StoreOnly ==
    ASSUME Asking, UNCHANGED linkVars, clock' = clock, used \subseteq used',
           NoLinks' => NoLinks,
           \A r \in Req : Linking(r)' => op'["hub"] = op["hub"],
           \A r \in Req : Linking(r)' <=> Linking(r),
           There' \cap used \subseteq There
    PROVE  Asking'
  <1>1. UNCHANGED <<links, agent, excused, nodesOf>>
    BY DEF linkVars
  <1>2. Codes'
    BY <1>1 DEF Asking, Codes, CodeOnce
  <1>3. Links'
    <2>1. NoLinks' => \A r \in Req : links'[r] = Gone
      BY <1>1 DEF Asking, Links, NoLinks
    <2>2. \A r \in Req : nodesOf'[r] \subseteq used'
      BY <1>1 DEF Asking, Links
    <2>3. \A r \in Req : Linking(r)' =>
              /\ links'[r] # Gone /\ links'[r].status = "pending" /\ clock' <= links'[r].expires
              /\ nodesOf'[r] = {op'["hub"].id}
      BY <1>1 DEF Asking, Links
    <2> QED BY <2>1, <2>2, <2>3 DEF Links, NoLinks
  <1>4. ASSUME NEW r \in Req \ excused' PROVE Told(r)'
    <2>1. Told(r)
      BY <1>1 DEF Asking
    <2>2. nodesOf[r] \subseteq used
      BY DEF Asking, Links
    <2>3. nodesOf'[r] \cap There' # {} => nodesOf[r] \cap There # {}
      BY <1>1, <2>2
    <2> QED BY <1>1, <2>1, <2>3 DEF Told
  <1> QED BY <1>2, <1>3, <1>4 DEF Asking

(* The steps of the store, one by one.                                     *)
LEMMA BeginAsking ==
    ASSUME StoreType, Steps, Asking, NEW p \in Proc, NEW o \in Asked(p), Begin(p, o), UNCHANGED linkVars
    PROVE  Asking'
  <1>1. o \in Change /\ o.kind # "link" /\ (p = "ctl" => o.kind # "local")
    BY AskedChanges
  <1>2. /\ \A q \in Proc \ {p} : at'[q] = at[q] /\ op'[q] = op[q]
        /\ at'[p] = "write" /\ op'[p] = o /\ used' = used \cup {o.id}
        /\ Adds(o) => o.id \notin used
        /\ at[p] = (IF o.kind = "local" THEN "down" ELSE "idle")
        /\ UNCHANGED clock
    BY <1>1, Begins
  <1>3. NoLinks' => NoLinks
    <2>1. CASE p = "ctl"
      BY <1>2, <2>1 DEF NoLinks, Busy, Proc
    <2>2. CASE p = "hub"
      BY <1>2, <2>2 DEF NoLinks, Busy, Proc
    <2> QED BY <2>1, <2>2 DEF Proc
  <1>4. \A r \in Req : Linking(r)' => p = "ctl" /\ Linking(r) /\ op'["hub"] = op["hub"]
    BY <1>1, <1>2 DEF Linking, Proc
  <1>5. \A r \in Req : Linking(r) => Linking(r)'
    <2>1. p = "hub" => op["hub"].kind = "local"
      BY <1>2, Constants DEF Steps, Busy
    <2> QED BY <1>2, <2>1 DEF Linking, Proc
  <1>6. There' \cap used \subseteq There
    BY <1>1, <1>2, ThereBegin
  <1> QED BY <1>2, <1>3, <1>4, <1>5, <1>6, StoreOnly

(* ... the file is replaced.                                               *)
LEMMA WriteAsking ==
    ASSUME StoreType, Steps, Asking, NEW p \in Proc, Write(p), UNCHANGED linkVars
    PROVE  Asking'
  <1>1. at' = [at EXCEPT ![p] = "stat"] /\ at[p] = "write" /\ UNCHANGED <<op, used, clock>>
    BY DEF Write
  <1>2. at'[p] = "stat" /\ \A q \in Proc \ {p} : at'[q] = at[q]
    BY <1>1 DEF StoreType
  <1>3. \A r \in Req : Linking(r)' <=> Linking(r)
    BY <1>1 DEF Linking
  <1>4. NoLinks' => NoLinks
    BY <1>1, <1>2 DEF NoLinks, Busy, Proc
  <1>5. There' \subseteq There
    BY ThereStays
  <1> QED BY <1>1, <1>3, <1>4, <1>5, StoreOnly

(* ... a change ends, other than one that approves a request.              *)
LEMMA EndAsking ==
    ASSUME StoreType, Steps, Asking, NEW p \in Proc, UNCHANGED linkVars,
           \/ WriteFails(p) /\ op[p].kind # "link"
           \/ Stat(p) /\ (p = "hub" => op[p].kind # "link")
           \/ Stop(p) /\ p = "ctl"
    PROVE  Asking'
  <1>1. /\ UNCHANGED <<clock, used>> /\ op' = [op EXCEPT ![p] = NoOp]
        /\ \E a \in {"idle", "down"} : at' = [at EXCEPT ![p] = a] /\ (a = "down" => p = "hub" /\ op[p].kind = "local" /\ Busy(p))
    <2>1. CASE WriteFails(p)
      BY <2>1 DEF WriteFails, Busy
    <2>2. CASE Stat(p)
      BY <2>2 DEF Stat
    <2>3. CASE Stop(p) /\ p = "ctl"
      BY <2>3 DEF Stop
    <2> QED BY <2>1, <2>2, <2>3
  <1>2. at'[p] \in {"idle", "down"} /\ op'[p] = NoOp /\ \A q \in Proc \ {p} : at'[q] = at[q] /\ op'[q] = op[q]
    BY <1>1 DEF StoreType
  <1>3. at'[p] = "down" => p = "hub" /\ op[p].kind = "local" /\ Busy(p)
    BY <1>1 DEF StoreType
  <1>4. NoLinks' => NoLinks
    <2>1. CASE p = "hub"
      BY <1>2, <1>3, <2>1 DEF NoLinks, Busy
    <2>2. CASE p # "hub"
      BY <1>2, <2>2 DEF NoLinks, Busy, Proc
    <2> QED BY <2>1, <2>2
  <1>5. \A r \in Req : Linking(r)' => p # "hub" /\ Linking(r) /\ op'["hub"] = op["hub"]
    BY <1>2, Constants DEF Linking, Proc
  <1>6. p = "hub" => op["hub"].kind # "link"
    OBVIOUS
  <1>7. \A r \in Req : Linking(r) => Linking(r)'
    BY <1>2, <1>6 DEF Linking, Proc
  <1>8. There' \subseteq There
    BY ThereStays
  <1> QED BY <1>1, <1>4, <1>5, <1>7, <1>8, StoreOnly

(* ... the steps without a change.                                         *)
LEMMA IdleAsking ==
    ASSUME StoreType, Steps, Asking, UNCHANGED linkVars,
           Boot \/ Look \/ UNCHANGED storeVars \/ \E kind \in {"bad", "good"} : HandEdit(kind)
    PROVE  Asking'
  <1>1. UNCHANGED <<clock, used, op>>
    BY DEF Boot, Look, HandEdit, storeVars
  <1>2. at' = at \/ (at["hub"] = "down" /\ at' = [at EXCEPT !["hub"] = "idle"])
    BY DEF Boot, Look, HandEdit, storeVars
  <1>3. at'["hub"] = at["hub"] \/ (at["hub"] = "down" /\ at'["hub"] = "idle")
    BY <1>2 DEF StoreType, Proc
  <1>4. \A r \in Req : Linking(r)' <=> Linking(r)
    BY <1>1 DEF Linking
  <1>5. NoLinks' => NoLinks
    BY <1>1, <1>3 DEF NoLinks, Busy
  <1>6. There' \subseteq There
    BY ThereStays
  <1> QED BY <1>1, <1>4, <1>5, <1>6, StoreOnly

(* sweep alone, for a request the hub is not linking.                      *)
LEMMA SweptKeeps ==
    ASSUME StoreType, LinkType, NEW r \in Req, CodeOnce(r), r \notin excused => Told(r),
           links'[r] = Swept(links)[r], agent'[r] = agent[r], nodesOf'[r] = nodesOf[r],
           UNCHANGED clock, nodesOf[r] \cap There' \subseteq There, ~Linking(r), ~Linking(r)'
    PROVE  CodeOnce(r)' /\ (r \notin excused => Told(r)')
  <1>1. CodeOnce(r)'
    BY Sweeps DEF CodeOnce
  <1>2. ASSUME r \notin excused PROVE Told(r)'
    <2>1. agent[r].state = "polling" => links'[r] # Gone
      <3> SUFFICES ASSUME agent[r].state = "polling" PROVE Swept(links)[r] # Gone
        OBVIOUS
      <3>1. links[r] # Gone /\ agent[r].deadline = links[r].expires + Slack /\ clock <= agent[r].deadline
        BY <1>2 DEF Told
      <3>2. links[r].expires \in Nat /\ clock \in Nat /\ Keep \in Nat /\ Slack \in Nat /\ Slack <= Keep
        BY <3>1, LinkFields, TimesAssumption DEF LinkRec, StoreType
      <3>3. clock <= links[r].expires + Keep
        BY <3>1, <3>2
      <3> QED BY <3>1, <3>3, Sweeps
    <2>2. links'[r] # Gone => links[r] # Gone /\ links'[r].status = links[r].status /\ links'[r].expires = links[r].expires
      BY Sweeps
    <2>3. nodesOf'[r] \cap There' # {} => nodesOf[r] \cap There # {}
      OBVIOUS
    <2> QED BY <1>2, <2>1, <2>2, <2>3 DEF Told
  <1> QED BY <1>1, <1>2

(* A hub that is idle links nothing, and a step that leaves the store      *)
(* alone keeps what the hub and the ids say of each other.                 *)
LEMMA LinksIdle ==
    ASSUME Steps, Links, at["hub"] = "idle", UNCHANGED storeVars, UNCHANGED nodesOf
    PROVE  /\ Links' /\ Steps' /\ There' = There /\ clock' = clock
           /\ \A r \in Req : ~Linking(r) /\ ~Linking(r)'
  <1>1. op["hub"].kind = "local"
    BY Constants DEF Steps, Busy, Proc
  <1>2. UNCHANGED <<at, op, used, added, clock, file, mem>>
    BY DEF storeVars
  <1>3. \A r \in Req : ~Linking(r) /\ ~Linking(r)'
    BY <1>1, <1>2 DEF Linking
  <1>4. There' = There
    BY <1>2 DEF There, Ids
  <1>5. Steps'
    BY <1>2, <1>4 DEF Steps, Busy
  <1>6. Links'
    BY <1>2, <1>3 DEF Links, Busy
  <1> QED BY <1>2, <1>3, <1>4, <1>5, <1>6

(* An agent starts (start, link.js).                                       *)
LEMMA StartStep ==
    ASSUME StoreType, LinkType, Steps, Asking, NEW r \in Req, Start(r)
    PROVE  LinkType' /\ Steps' /\ Asking'
  <1> DEFINE e == [status |-> "pending", expires |-> clock + TTL, findable |-> TRUE]
             a == Polling(clock + TTL + Slack, TRUE)
  <1>1. clock + TTL \in Nat /\ clock + TTL + Slack \in Nat /\ clock \in Nat /\ TTL \in Nat /\ Slack \in Nat
    BY TimesAssumption DEF StoreType
  <1>2. e \in LinkRec /\ e # Gone /\ e.status = "pending" /\ e.expires = clock + TTL
    BY <1>1 DEF LinkRec, Gone
  <1>3. a \in PollRec /\ a # New /\ a.state = "polling" /\ a.deadline = clock + TTL + Slack
    BY <1>1 DEF PollRec, Polling, New
  <1>4. /\ links' = [Swept(links) EXCEPT ![r] = e] /\ agent' = [agent EXCEPT ![r] = a] /\ agent[r] = New
        /\ UNCHANGED <<storeVars, excused, nodesOf>> /\ at["hub"] = "idle"
    BY DEF Start, HubFree
  <1> HIDE DEF e, a
  <1>5. LinkType'
    BY <1>2, <1>3, <1>4, SweptType DEF LinkType
  <1>6. Links' /\ Steps' /\ There' = There /\ clock' = clock /\ \A q \in Req : ~Linking(q) /\ ~Linking(q)'
    BY <1>4, LinksIdle DEF Asking
  <1>7. /\ links'[r] = e /\ agent'[r] = a
        /\ \A q \in Req \ {r} : links'[q] = Swept(links)[q] /\ agent'[q] = agent[q]
    BY <1>4, SweptType DEF LinkType
  <1>8. nodesOf'[r] = {}
    BY <1>4 DEF Asking, Codes, CodeOnce
  <1>9. CodeOnce(r)' /\ Told(r)'
    BY <1>1, <1>2, <1>3, <1>4, <1>6, <1>7, <1>8 DEF CodeOnce, Told, storeVars
  <1>10. ASSUME NEW q \in Req, q # r PROVE CodeOnce(q)' /\ (q \notin excused => Told(q)')
    BY <1>4, <1>6, <1>7, <1>10, SweptKeeps DEF Asking, Codes, storeVars
  <1> QED BY <1>4, <1>5, <1>6, <1>9, <1>10 DEF Asking, Codes

(* What a poll answers, by the status of the request.                      *)
LEMMA Answers ==
    ASSUME NEW e \in {Gone} \cup LinkRec
    PROVE  /\ Answer(e) \in {"expired", "denied", "linked", "wait"}
           /\ Answer(e) = "linked" <=> e # Gone /\ e.status = "approved"
           /\ Answer(e) = "denied" <=> e # Gone /\ e.status = "denied"
           /\ Answer(e) = "wait" => e # Gone /\ e.status = "pending"
           /\ Answer(e) = "expired" => e = Gone \/ e.status = "spent"
                                       \/ (e.status = "pending" /\ clock > e.expires)
  <1>1. CASE e = Gone
    BY <1>1 DEF Answer, Gone
  <1>2. CASE e # Gone
    <2>1. e.status \in {"pending", "denied", "approved", "spent"}
      BY <1>2 DEF LinkRec
    <2>2. CASE e.status = "pending"
      BY <1>2, <2>2 DEF Answer
    <2>3. CASE e.status # "pending"
      BY <1>2, <2>1, <2>3 DEF Answer
    <2> QED BY <2>2, <2>3
  <1> QED BY <1>1, <1>2

(* An agent polls (poll, link.js; the poll loop, servitals-agent).         *)
LEMMA PollStep ==
    ASSUME StoreType, LinkType, Steps, Asking, NEW r \in Req, NEW arrives \in BOOLEAN, Poll(r, arrives)
    PROVE  LinkType' /\ Steps' /\ Asking'
  <1> DEFINE now == Swept(links)
             answer == Answer(now[r])
  <1>1. /\ agent[r].state = "polling" /\ UNCHANGED <<storeVars, nodesOf>> /\ at["hub"] = "idle"
        /\ links' = (IF answer = "linked" THEN [now EXCEPT ![r].status = "spent"] ELSE now)
        /\ agent' = [agent EXCEPT ![r] = IF arrives /\ answer # "wait" THEN Done(answer)
                                         ELSE Polling(agent[r].deadline, TRUE)]
        /\ excused' = (IF ~arrives /\ answer = "linked" THEN excused \cup {r} ELSE excused)
    BY DEF Poll, HubFree
  <1>2. now \in [Req -> {Gone} \cup LinkRec] /\ now[r] \in {Gone} \cup LinkRec
    BY SweptType
  <1>3. now[r] # Gone => now[r] \in LinkRec /\ now[r].status \in {"pending", "denied", "approved", "spent"}
    BY <1>2 DEF LinkRec
  <1>4. /\ answer \in {"expired", "denied", "linked", "wait"}
        /\ answer = "linked" <=> now[r] # Gone /\ now[r].status = "approved"
        /\ answer = "denied" <=> now[r] # Gone /\ now[r].status = "denied"
        /\ answer = "wait" => now[r] # Gone /\ now[r].status = "pending"
        /\ answer = "expired" => now[r] = Gone \/ now[r].status = "spent"
                                 \/ (now[r].status = "pending" /\ clock > now[r].expires)
    BY <1>2, Answers
  <1>5. agent[r] \in PollRec
    BY <1>1, LinkFields
  <1>6. /\ Polling(agent[r].deadline, TRUE) \in PollRec
        /\ Polling(agent[r].deadline, TRUE).state = "polling"
        /\ Polling(agent[r].deadline, TRUE).deadline = agent[r].deadline
        /\ answer # "wait" => Done(answer) \in DoneRec /\ Done(answer).state = answer
    BY <1>4, <1>5 DEF PollRec, DoneRec, Polling, Done
  <1> HIDE DEF now, answer
  <1>7. /\ agent'[r] = IF arrives /\ answer # "wait" THEN Done(answer) ELSE Polling(agent[r].deadline, TRUE)
        /\ \A q \in Req \ {r} : agent'[q] = agent[q]
    BY <1>1 DEF LinkType
  <1>8. /\ \A q \in Req \ {r} : links'[q] = now[q]
        /\ answer # "linked" => links'[r] = now[r]
        /\ answer = "linked" => links'[r] \in LinkRec /\ links'[r].status = "spent"
                                /\ links'[r].findable = now[r].findable /\ links'[r].expires = now[r].expires
    BY <1>1, <1>2, <1>3, <1>4 DEF LinkRec
  <1>9. LinkType'
    <2>1. links' \in [Req -> {Gone} \cup LinkRec]
      <3>1. \A q \in Req : links'[q] \in {Gone} \cup LinkRec
        BY <1>2, <1>8
      <3>2. links' = [q \in Req |-> links'[q]]
        BY <1>1, <1>2
      <3> QED BY <3>1, <3>2
    <2>2. agent' \in [Req -> {New} \cup PollRec \cup DoneRec]
      BY <1>1, <1>6 DEF LinkType
    <2> QED BY <1>1, <2>1, <2>2 DEF LinkType
  <1>10. Links' /\ Steps' /\ There' = There /\ clock' = clock /\ \A q \in Req : ~Linking(q) /\ ~Linking(q)'
    BY <1>1, LinksIdle DEF Asking
  <1>11. ASSUME NEW q \in Req, q # r PROVE CodeOnce(q)' /\ (q \notin excused' => Told(q)')
    <2>1. links'[q] = Swept(links)[q] /\ agent'[q] = agent[q]
      BY <1>7, <1>8, <1>11 DEF now
    <2>2. q \notin excused' => q \notin excused
      BY <1>1
    <2>3. CodeOnce(q) /\ (q \notin excused => Told(q))
      BY DEF Asking, Codes
    <2> QED BY <1>1, <1>10, <2>1, <2>2, <2>3, SweptKeeps DEF storeVars
  <1>12. CodeOnce(r)'
    <2>1. CodeOnce(r) /\ agent[r] # New
      <3>1. agent[r] # New
        BY <1>1, LinkFields
      <3> QED BY <3>1 DEF Asking, Codes
    <2>2. agent'[r] # New
      <3>1. agent'[r].state # "new"
        BY <1>4, <1>6, <1>7
      <3> QED BY <3>1 DEF New
    <2>3. now[r] # Gone => links[r] # Gone /\ (now[r].findable => links[r].findable)
      BY Sweeps DEF now
    <2>4. links'[r] = Gone \/ (now[r] # Gone /\ links'[r].findable = now[r].findable)
      BY <1>3, <1>4, <1>8
    <2> QED BY <1>1, <2>1, <2>2, <2>3, <2>4 DEF CodeOnce
  <1>13. ASSUME r \notin excused' PROVE Told(r)'
    <2>1. Told(r) /\ r \notin excused
      BY <1>1, <1>13 DEF Asking
    <2>2. links[r] # Gone /\ links[r].status # "spent" /\ agent[r].deadline = links[r].expires + Slack
          /\ clock <= agent[r].deadline
      BY <1>1, <2>1 DEF Told
    <2>3. now[r] # Gone /\ now[r].status = links[r].status /\ now[r].expires = links[r].expires
      <3>1. links[r].expires \in Nat /\ clock \in Nat /\ Keep \in Nat /\ Slack \in Nat /\ Slack <= Keep
        BY <2>2, LinkFields, TimesAssumption DEF LinkRec, StoreType
      <3>2. clock <= links[r].expires + Keep
        BY <2>2, <3>1
      <3> QED BY <2>2, <3>2, Sweeps DEF now
    <2>4. clock' = clock /\ There' = There
      BY <1>10
    <2>5. links[r].status # "approved" => nodesOf[r] \cap There = {}
      BY <1>1, <1>10, <2>1 DEF Told
    <2>6. CASE answer = "linked"
      <3>1. agent'[r].state = "linked" /\ links'[r].status = "spent"
        BY <1>1, <1>4, <1>6, <1>7, <1>8, <1>13, <2>6
      <3> QED BY <1>10, <3>1 DEF Told
    <2>7. CASE answer # "linked"
      <3>1. links'[r] = now[r] /\ now[r].status # "approved"
        BY <1>4, <1>8, <2>3, <2>7
      <3>2. nodesOf'[r] \cap There' = {}
        BY <1>1, <2>3, <2>4, <2>5, <3>1
      <3>3. CASE arrives /\ answer # "wait"
        <4>1. agent'[r].state = answer /\ answer \in {"denied", "expired"}
          BY <1>4, <1>6, <1>7, <2>7, <3>3
        <4>2. links'[r].status # "pending" \/ clock > links'[r].expires
          BY <1>4, <2>2, <2>3, <3>1, <4>1
        <4> QED BY <1>10, <2>4, <3>2, <4>1, <4>2 DEF Told
      <3>4. CASE ~(arrives /\ answer # "wait")
        <4>1. agent'[r].state = "polling" /\ agent'[r].deadline = agent[r].deadline
          BY <1>6, <1>7, <3>4
        <4> QED BY <1>10, <2>2, <2>3, <2>4, <3>1, <3>2, <4>1 DEF Told
      <3> QED BY <3>3, <3>4
    <2> QED BY <2>6, <2>7
  <1> QED BY <1>9, <1>10, <1>11, <1>12, <1>13 DEF Asking, Codes

(* A poll without an answer, the agent's own deadline, and its end by any  *)
(* other answer: the agent alone steps.                                    *)
LEMMA AgentStep ==
    ASSUME StoreType, LinkType, Steps, Asking, NEW r \in Req, PollUnanswered(r) \/ GiveUp(r) \/ PollDies(r)
    PROVE  LinkType' /\ Steps' /\ Asking'
  <1>1. /\ agent[r].state = "polling" /\ UNCHANGED <<storeVars, links, nodesOf>>
        /\ \E a : agent' = [agent EXCEPT ![r] = a]
        /\ excused' \in {excused, excused \cup {r}}
    BY DEF PollUnanswered, GiveUp, PollDies
  <1>2. agent[r] \in PollRec /\ agent[r] # New
    BY <1>1, LinkFields
  <1>3. UNCHANGED <<clock, at, op, used, added, file, mem>>
    BY <1>1 DEF storeVars
  <1>4. /\ PollUnanswered(r) => /\ agent'[r] \in PollRec /\ agent'[r].deadline = agent[r].deadline
                                /\ agent'[r].state = "polling"
                                /\ clock >= agent[r].deadline => r \in excused'
        /\ GiveUp(r) => clock >= agent[r].deadline /\ agent[r].asked
                        /\ agent'[r] \in DoneRec /\ agent'[r].state = "expired"
        /\ PollDies(r) => agent'[r] \in DoneRec /\ r \in excused'
    <2>1. ASSUME PollUnanswered(r)
          PROVE  /\ agent'[r] \in PollRec /\ agent'[r].deadline = agent[r].deadline
                 /\ agent'[r].state = "polling"
                 /\ clock >= agent[r].deadline => r \in excused'
      <3>1. /\ agent'[r] = [agent[r] EXCEPT !.asked = TRUE]
            /\ clock >= agent[r].deadline => r \in excused'
        BY <2>1 DEF PollUnanswered, LinkType
      <3> QED BY <1>2, <3>1 DEF PollRec
    <2>2. ASSUME GiveUp(r)
          PROVE  clock >= agent[r].deadline /\ agent[r].asked
                 /\ agent'[r] \in DoneRec /\ agent'[r].state = "expired"
      BY <2>2 DEF GiveUp, LinkType, Done, DoneRec
    <2>3. ASSUME PollDies(r) PROVE agent'[r] \in DoneRec /\ r \in excused'
      BY <2>3 DEF PollDies, LinkType, Done, DoneRec
    <2> QED BY <2>1, <2>2, <2>3
  <1>5. \A q \in Req \ {r} : agent'[q] = agent[q]
    BY <1>1 DEF LinkType
  <1>6. LinkType'
    <2>1. agent' = [q \in Req |-> agent'[q]]
      BY <1>1 DEF LinkType
    <2>2. agent' \in [Req -> {New} \cup PollRec \cup DoneRec]
      BY <1>4, <1>5, <2>1 DEF LinkType
    <2> QED BY <1>1, <2>2 DEF LinkType
  <1>7. Steps' /\ There' = There
    BY <1>3 DEF Steps, Busy, There, Ids
  <1>8. Links' /\ \A q \in Req : Linking(q)' <=> Linking(q)
    BY <1>1, <1>3 DEF Asking, Links, Linking, Busy
  <1>9. Codes'
    <2>1. agent'[r] # New
      <3>1. agent'[r].state # "new"
        BY <1>4 DEF PollRec, DoneRec
      <3> QED BY <3>1 DEF New
    <2> QED BY <1>1, <1>2, <1>5, <2>1 DEF Asking, Codes, CodeOnce
  <1>10. ASSUME NEW q \in Req, q \notin excused' PROVE Told(q)'
    <2>1. Told(q)
      BY <1>1, <1>10 DEF Asking
    <2>2. CASE q # r
      BY <1>1, <1>3, <1>5, <1>7, <1>8, <2>1, <2>2 DEF Told
    <2>3. CASE q = r
      <3>1. links[r] # Gone /\ links[r].status # "spent" /\ agent[r].deadline = links[r].expires + Slack
            /\ clock <= agent[r].deadline
            /\ (links[r].status = "approved" /\ agent[r].asked => clock < agent[r].deadline)
        BY <1>1, <2>1, <2>3 DEF Told
      <3>2. links[r].expires \in Nat /\ clock \in Nat /\ Slack \in Nat /\ 0 < Slack
        BY <3>1, LinkFields, TimesAssumption DEF LinkRec, StoreType
      <3>3. CASE PollUnanswered(r)
        <4>1. agent'[r].state = "polling" /\ agent'[r].deadline = agent[r].deadline /\ ~(clock >= agent[r].deadline)
          BY <1>4, <1>10, <2>3, <3>3
        <4>2. clock < agent[r].deadline
          BY <3>1, <3>2, <4>1
        <4> QED BY <1>1, <1>3, <1>7, <1>8, <2>1, <2>3, <3>1, <4>1, <4>2 DEF Told
      <3>4. CASE GiveUp(r)
        <4>1. clock >= agent[r].deadline /\ agent[r].asked /\ agent'[r].state = "expired"
          BY <1>4, <3>4
        <4>2. clock > links[r].expires /\ ~(clock < agent[r].deadline)
          BY <3>1, <3>2, <4>1
        <4>3. ~Linking(r)
          <5>1. ~(clock <= links[r].expires)
            BY <3>2, <4>2
          <5> QED BY <5>1 DEF Asking, Links
        <4>4. links[r].status # "approved"
          BY <3>1, <4>1, <4>2
        <4>5. nodesOf[r] \cap There = {}
          BY <1>1, <2>1, <2>3, <4>3, <4>4 DEF Told
        <4> QED BY <1>1, <1>3, <1>7, <1>8, <2>3, <4>1, <4>2, <4>3, <4>5 DEF Told
      <3>5. ~PollDies(r)
        BY <1>4, <1>10, <2>3
      <3> QED BY <3>3, <3>4, <3>5
    <2> QED BY <2>2, <2>3
  <1> QED BY <1>6, <1>7, <1>8, <1>9, <1>10 DEF Asking

(* A person denies a request (decide, link.js).                            *)
LEMMA DenyStep ==
    ASSUME StoreType, LinkType, Steps, Asking, NEW r \in Req, Deny(r)
    PROVE  LinkType' /\ Steps' /\ Asking'
  <1> DEFINE e == Swept(links)[r]
             d == [e EXCEPT !.findable = FALSE, !.status = "denied"]
  <1>1. /\ UNCHANGED <<storeVars, agent, excused, nodesOf>> /\ at["hub"] = "idle"
        /\ links' = [Swept(links) EXCEPT ![r].findable = FALSE, ![r].status = "denied"]
        /\ e # Gone /\ e.status = "pending" /\ clock <= e.expires
    BY DEF Deny, HubFree, Found
  <1>2. e \in LinkRec /\ links[r] # Gone /\ links[r].status = e.status /\ links[r].expires = e.expires
    BY <1>1, Sweeps
  <1>3. d \in LinkRec /\ d # Gone /\ d.status = "denied" /\ d.expires = e.expires /\ d.findable = FALSE
    BY <1>2 DEF LinkRec, Gone
  <1>4. links'[r] = d /\ \A q \in Req \ {r} : links'[q] = Swept(links)[q]
    BY <1>1, SweptType
  <1>5. LinkType'
    <2>1. links' = [q \in Req |-> links'[q]]
      BY <1>1, SweptType
    <2>2. links' \in [Req -> {Gone} \cup LinkRec]
      <3> HIDE DEF d
      <3> QED BY <1>3, <1>4, <2>1, Sweeps
    <2> QED BY <1>1, <2>2 DEF LinkType
  <1> HIDE DEF d
  <1>6. Links' /\ Steps' /\ There' = There /\ clock' = clock /\ \A q \in Req : ~Linking(q) /\ ~Linking(q)'
    BY <1>1, LinksIdle DEF Asking
  <1>7. ASSUME NEW q \in Req, q # r PROVE CodeOnce(q)' /\ (q \notin excused => Told(q)')
    BY <1>1, <1>4, <1>6, <1>7, SweptKeeps DEF Asking, Codes, storeVars
  <1>8. CodeOnce(r)'
    BY <1>1, <1>2, <1>3, <1>4 DEF Asking, Codes, CodeOnce
  <1>9. ASSUME r \notin excused PROVE Told(r)'
    <2>1. Told(r)
      BY <1>9 DEF Asking
    <2>2. clock' = clock /\ There' = There
      BY <1>6
    <2>3. agent[r].state # "linked"
      BY <1>1, <1>2, <2>1 DEF Told
    <2>4. nodesOf[r] \cap There = {}
      BY <1>1, <1>2, <1>6, <2>1, <2>3 DEF Told
    <2> QED BY <1>1, <1>2, <1>3, <1>4, <1>6, <2>1, <2>2, <2>3, <2>4 DEF Told
  <1> QED BY <1>1, <1>5, <1>6, <1>7, <1>8, <1>9 DEF Asking, Codes

(* A person approves a request: its code is used up, its node is made      *)
(* (decide, link.js).                                                      *)
LEMMA ApproveStep ==
    ASSUME StoreType, LinkType, Steps, Asking, NEW r \in Req, NEW i \in Id, Approve(r, i)
    PROVE  StoreType' /\ LinkType' /\ Steps' /\ Asking'
  <1> DEFINE e == Swept(links)[r]
             d == [e EXCEPT !.findable = FALSE]
             o == [kind |-> "link", id |-> i, req |-> r]
  <1>1. /\ UNCHANGED <<agent, excused>> /\ at["hub"] = "idle" /\ Begin("hub", o)
        /\ links' = [Swept(links) EXCEPT ![r].findable = FALSE]
        /\ nodesOf' = [nodesOf EXCEPT ![r] = @ \cup {i}]
        /\ e # Gone /\ e.findable /\ e.status = "pending" /\ clock <= e.expires
    BY DEF Approve, HubFree, Found
  <1>2. o \in Change /\ o.kind = "link" /\ o.id = i /\ o.req = r /\ "hub" \in Proc
    BY DEF Change, Kind, Proc
  <1>3. e \in LinkRec /\ links[r] # Gone /\ links[r].status = e.status /\ links[r].expires = e.expires /\ links[r].findable
    BY <1>1, Sweeps
  <1>4. d \in LinkRec /\ d # Gone /\ d.status = e.status /\ d.expires = e.expires /\ d.findable = FALSE
    BY <1>3 DEF LinkRec, Gone
  <1>5. links'[r] = d /\ \A q \in Req \ {r} : links'[q] = Swept(links)[q]
    BY <1>1, SweptType
  <1> HIDE DEF o
  <1>6. StoreType' /\ Steps'
    <2>1. StoreType'
      BY <1>1, <1>2, BeginType
    <2>2. "hub" # "ctl" /\ o.kind # "rotate"
      BY <1>2
    <2> QED BY <1>1, <1>2, <2>1, <2>2, StepsBegin
  <1>7. /\ at'["hub"] = "write" /\ op'["hub"] = o /\ at'["ctl"] = at["ctl"] /\ op'["ctl"] = op["ctl"]
        /\ i \notin used /\ used' = used \cup {i} /\ UNCHANGED clock /\ There' \subseteq There \cup {i}
    <2>1. Adds(o)
      BY <1>2 DEF Adds
    <2>2. /\ \A q \in Proc \ {"hub"} : at'[q] = at[q] /\ op'[q] = op[q]
          /\ at'["hub"] = "write" /\ op'["hub"] = o
          /\ Adds(o) => o.id \notin used
          /\ used' = used \cup {o.id} /\ UNCHANGED clock
          /\ There' \subseteq There \cup {o.id}
      <3>1. Begin("hub", o) /\ o \in Change /\ "hub" \in Proc
        BY <1>1, <1>2
      <3> QED BY <2>1, <3>1, Begins, ThereBegin
    <2> QED BY <1>2, <2>1, <2>2 DEF Proc
  <1>8. nodesOf[r] = {} /\ nodesOf'[r] = {i} /\ \A q \in Req \ {r} : nodesOf'[q] = nodesOf[q]
    <2>1. nodesOf[r] = {}
      BY <1>3 DEF Asking, Codes, CodeOnce
    <2> QED BY <1>1, <2>1 DEF LinkType
  <1>9. LinkType'
    <2>1. links' = [q \in Req |-> links'[q]]
      BY <1>1, SweptType
    <2>2. links' \in [Req -> {Gone} \cup LinkRec]
      <3> HIDE DEF d
      <3> QED BY <1>4, <1>5, <2>1, Sweeps
    <2>3. nodesOf' \in [Req -> SUBSET Id]
      BY <1>1 DEF LinkType
    <2> QED BY <1>1, <2>2, <2>3 DEF LinkType
  <1> HIDE DEF d
  <1>10. \A q \in Req : ~Linking(q) /\ (Linking(q)' <=> q = r)
    <2>1. op["hub"].kind = "local"
      BY <1>1, Constants DEF Steps, Busy, Proc
    <2> QED BY <1>2, <1>7, <2>1 DEF Linking
  <1>11. Links'
    <2>1. ~NoLinks'
      BY <1>2, <1>7 DEF NoLinks, Busy
    <2>2. \A q \in Req : nodesOf'[q] \subseteq used'
      BY <1>7, <1>8 DEF Asking, Links
    <2>3. links'[r] # Gone /\ links'[r].status = "pending" /\ clock' <= links'[r].expires /\ nodesOf'[r] = {op'["hub"].id}
      BY <1>1, <1>2, <1>4, <1>5, <1>7, <1>8
    <2> QED BY <1>10, <2>1, <2>2, <2>3 DEF Links, NoLinks
  <1>12. ASSUME NEW q \in Req, q # r PROVE CodeOnce(q)' /\ (q \notin excused => Told(q)')
    <2>1. links'[q] = Swept(links)[q] /\ agent'[q] = agent[q] /\ nodesOf'[q] = nodesOf[q]
      BY <1>1, <1>5, <1>8, <1>12
    <2>2. CodeOnce(q) /\ (q \notin excused => Told(q)) /\ ~Linking(q) /\ ~Linking(q)'
      BY <1>10, <1>12 DEF Asking, Codes
    <2>3. nodesOf[q] \cap There' \subseteq There
      BY <1>7 DEF Asking, Links
    <2> QED BY <1>7, <2>1, <2>2, <2>3, SweptKeeps
  <1>13. CodeOnce(r)'
    <2>1. agent'[r] # New
      BY <1>1, <1>3 DEF Asking, Codes, CodeOnce
    <2> QED BY <1>4, <1>5, <1>8, <2>1 DEF CodeOnce
  <1>14. ASSUME r \notin excused PROVE Told(r)'
    <2>1. Told(r)
      BY <1>14 DEF Asking
    <2>2. agent[r].state \notin {"denied", "expired", "linked", "died"}
      <3>1. links[r].expires \in Nat /\ clock \in Nat
        BY <1>3, LinkFields DEF LinkRec, StoreType
      <3> QED BY <1>1, <1>3, <2>1, <3>1 DEF Told
    <2>3. agent[r].state = "polling"
      <3>1. agent[r] # New
        BY <1>3 DEF Asking, Codes, CodeOnce
      <3> QED BY <2>2, <3>1, LinkFields
    <2>4. Linking(r)'
      BY <1>10
    <2> QED BY <1>1, <1>3, <1>4, <1>5, <1>7, <2>1, <2>3, <2>4 DEF Told
  <1> QED BY <1>1, <1>6, <1>9, <1>11, <1>12, <1>13, <1>14 DEF Asking, Codes

(* The node is saved and the request approved (decide, link.js).           *)
LEMMA ApprovedStep ==
    ASSUME StoreType, LinkType, Steps, Asking, NEW r \in Req, Approved(r)
    PROVE  StoreType' /\ LinkType' /\ Steps' /\ Asking'
  <1> DEFINE d == [links[r] EXCEPT !.status = "approved"]
  <1>1. /\ Linking(r) /\ at["hub"] = "stat" /\ Stat("hub") /\ UNCHANGED <<agent, excused, nodesOf>>
        /\ links' = [links EXCEPT ![r].status = "approved"] /\ "hub" \in Proc
    BY DEF Approved, Linking, Proc
  <1>2. StoreType' /\ Steps'
    BY <1>1, ProcessType, EndsCase
  <1>3. /\ links[r] # Gone /\ links[r].status = "pending" /\ clock <= links[r].expires
        /\ nodesOf[r] = {op["hub"].id}
    BY <1>1 DEF Asking, Links
  <1>4. d \in LinkRec /\ d # Gone /\ d.status = "approved" /\ d.expires = links[r].expires /\ d.findable = links[r].findable
    <2>1. links[r] \in LinkRec
      BY <1>3, LinkFields
    <2> QED BY <2>1 DEF LinkRec, Gone
  <1>5. links'[r] = d /\ \A q \in Req \ {r} : links'[q] = links[q]
    BY <1>1 DEF LinkType
  <1>6. LinkType'
    <2>1. links' = [q \in Req |-> links'[q]]
      BY <1>1 DEF LinkType
    <2>2. \A q \in Req : links'[q] \in {Gone} \cup LinkRec
      <3> HIDE DEF d
      <3> QED BY <1>4, <1>5 DEF LinkType
    <2>3. links' \in [Req -> {Gone} \cup LinkRec]
      BY <2>1, <2>2
    <2> QED BY <1>1, <2>3 DEF LinkType
  <1> HIDE DEF d
  <1>7. /\ at'["hub"] = "idle" /\ op'["hub"] = NoOp /\ at'["ctl"] = at["ctl"] /\ op'["ctl"] = op["ctl"]
        /\ UNCHANGED <<clock, used>>
    BY <1>1 DEF Stat, StoreType, Proc
  <1>8. \A q \in Req : ~Linking(q)' /\ (Linking(q) => q = r)
    BY <1>1, <1>7, Constants DEF Linking
  <1>9. Links'
    <2>1. ~NoLinks'
      BY <1>7 DEF NoLinks, Busy
    <2>2. \A q \in Req : nodesOf'[q] \subseteq used'
      BY <1>1, <1>7 DEF Asking, Links
    <2> QED BY <1>8, <2>1, <2>2 DEF Links, NoLinks
  <1>10. Codes'
    BY <1>1, <1>3, <1>4, <1>5 DEF Asking, Codes, CodeOnce
  <1>11. ASSUME NEW q \in Req, q \notin excused PROVE Told(q)'
    <2>1. Told(q)
      BY <1>11 DEF Asking
    <2>2. nodesOf'[q] \cap There' # {} => nodesOf[q] \cap There # {}
      <3>1. There' \subseteq There
        BY <1>1, ThereStays
      <3> QED BY <1>1, <3>1
    <2>3. CASE q = r
      <3>1. agent[r].state = "polling" /\ agent[r].deadline = links[r].expires + Slack
        BY <1>1, <2>1, <2>3 DEF Told
      <3>2. links[r].expires \in Nat /\ clock \in Nat /\ Slack \in Nat /\ 0 < Slack
        BY <1>3, LinkFields, TimesAssumption DEF LinkRec, StoreType
      <3>3. clock < agent[r].deadline
        BY <1>3, <3>1, <3>2
      <3> QED BY <1>1, <1>3, <1>4, <1>5, <1>7, <1>8, <2>1, <2>3, <3>1, <3>3 DEF Told
    <2>4. CASE q # r
      BY <1>1, <1>5, <1>7, <1>8, <2>1, <2>2, <2>4 DEF Told
    <2> QED BY <2>3, <2>4
  <1> QED BY <1>1, <1>2, <1>6, <1>9, <1>10, <1>11 DEF Asking

(* The node cannot be saved; it stays in the hub's memory.                 *)
LEMMA ApproveFailsStep ==
    ASSUME StoreType, LinkType, Steps, Asking, NEW r \in Req, ApproveFails(r)
    PROVE  StoreType' /\ LinkType' /\ Steps' /\ Asking'
  <1>1. /\ Linking(r) /\ WriteFails("hub") /\ UNCHANGED <<agent, links, nodesOf>> /\ "hub" \in Proc
        /\ excused' = excused \cup {r}
    BY DEF ApproveFails, Linking, Proc
  <1>2. StoreType' /\ Steps' /\ There' \subseteq There
    BY <1>1, ProcessType, EndsCase, ThereStays
  <1>3. LinkType'
    BY <1>1 DEF LinkType
  <1>4. at'["hub"] = "idle" /\ op'["hub"] = NoOp /\ UNCHANGED <<clock, used>>
    BY <1>1 DEF WriteFails, StoreType, Proc, Linking
  <1>5. \A q \in Req : ~Linking(q)' /\ (Linking(q) => q = r)
    BY <1>1, <1>4, Constants DEF Linking
  <1>6. Links'
    <2>1. ~NoLinks'
      BY <1>4 DEF NoLinks, Busy
    <2>2. \A q \in Req : nodesOf'[q] \subseteq used'
      BY <1>1, <1>4 DEF Asking, Links
    <2> QED BY <1>5, <2>1, <2>2 DEF Links, NoLinks
  <1>7. Codes'
    BY <1>1 DEF Asking, Codes, CodeOnce
  <1>8. ASSUME NEW q \in Req, q \notin excused' PROVE Told(q)'
    <2>1. Told(q) /\ ~Linking(q)
      BY <1>1, <1>5, <1>8 DEF Asking
    <2>2. nodesOf'[q] \cap There' # {} => nodesOf[q] \cap There # {}
      BY <1>1, <1>2
    <2> QED BY <1>1, <1>4, <1>5, <2>1, <2>2 DEF Told
  <1> QED BY <1>2, <1>3, <1>6, <1>7, <1>8 DEF Asking

(* The hub stops, with all requests in its memory.                         *)
LEMMA HubStopsStep ==
    ASSUME StoreType, LinkType, Steps, Asking, HubStops
    PROVE  StoreType' /\ LinkType' /\ Steps' /\ Asking'
  <1>1. /\ Stop("hub") /\ UNCHANGED <<agent, nodesOf>> /\ "hub" \in Proc
        /\ links' = [r \in Req |-> Gone] /\ excused' = excused \cup {r \in Req : links[r] # Gone}
    BY DEF HubStops, Proc
  <1>2. StoreType' /\ Steps'
    BY <1>1, ProcessType, EndsCase
  <1>3. LinkType'
    BY <1>1 DEF LinkType
  <1>4. /\ at'["hub"] = "down" /\ op'["hub"] = NoOp /\ at'["ctl"] = at["ctl"] /\ op'["ctl"] = op["ctl"]
        /\ UNCHANGED <<clock, used>>
    BY <1>1 DEF Stop, StoreType, Proc
  <1>5. \A q \in Req : ~Linking(q)'
    BY <1>4, Constants DEF Linking
  <1>6. Links'
    <2>1. \A q \in Req : nodesOf'[q] \subseteq used'
      BY <1>1, <1>4 DEF Asking, Links
    <2> QED BY <1>1, <1>5, <2>1 DEF Links
  <1>7. Codes'
    BY <1>1 DEF Asking, Codes, CodeOnce
  <1>8. ASSUME NEW q \in Req, q \notin excused' PROVE Told(q)'
    <2>1. Told(q) /\ links[q] = Gone
      BY <1>1, <1>8 DEF Asking
    <2>2. ~Linking(q)
      BY <2>1 DEF Asking, Links
    <2>3. nodesOf'[q] \cap There' # {} => nodesOf[q] \cap There # {}
      <3>1. There' \subseteq There
        BY <1>1, ThereStays
      <3> QED BY <1>1, <3>1
    <2> QED BY <1>1, <1>4, <1>5, <2>1, <2>2, <2>3 DEF Told
  <1> QED BY <1>2, <1>3, <1>6, <1>7, <1>8 DEF Asking

(* Time passes, while nobody changes the file.                             *)
LEMMA TickStep ==
    ASSUME StoreType, LinkType, Steps, Asking, Tick
    PROVE  StoreType' /\ LinkType' /\ Steps' /\ Asking'
  <1>1. /\ StoreTick /\ UNCHANGED <<links, excused, nodesOf>>
        /\ \A r \in Req : agent[r].state = "polling" => agent[r].asked /\ clock < agent[r].deadline
        /\ agent' = [r \in Req |-> IF agent[r].state = "polling" THEN [agent[r] EXCEPT !.asked = FALSE]
                                   ELSE agent[r]]
    BY DEF Tick
  <1>2. StoreType' /\ Steps'
    BY <1>1, OtherType, EndsCase
  <1>3. ~Busy("hub") /\ clock' = clock + 1 /\ UNCHANGED <<at, op, used>> /\ There' \subseteq There
    BY <1>1, ThereStays DEF StoreTick, Proc
  <1>4. \A r \in Req : IF agent[r].state = "polling"
                        THEN /\ agent'[r] \in PollRec /\ agent'[r].state = "polling"
                             /\ agent'[r].deadline = agent[r].deadline /\ agent'[r].asked = FALSE
                        ELSE agent'[r] = agent[r]
    <2> SUFFICES ASSUME NEW r \in Req, agent[r].state = "polling"
                 PROVE  /\ agent'[r] \in PollRec /\ agent'[r].state = "polling"
                        /\ agent'[r].deadline = agent[r].deadline /\ agent'[r].asked = FALSE
      BY <1>1
    <2>1. agent[r] \in PollRec /\ agent'[r] = [agent[r] EXCEPT !.asked = FALSE]
      BY <1>1, LinkFields
    <2> QED BY <2>1 DEF PollRec
  <1>5. LinkType'
    <2>1. agent' = [r \in Req |-> agent'[r]]
      BY <1>1
    <2>2. agent' \in [Req -> {New} \cup PollRec \cup DoneRec]
      BY <1>4, <2>1 DEF LinkType
    <2> QED BY <1>1, <2>2 DEF LinkType
  <1>6. \A r \in Req : ~Linking(r) /\ ~Linking(r)'
    BY <1>3, Constants DEF Linking, Steps, Proc
  <1>7. Links'
    BY <1>1, <1>3, <1>6 DEF Asking, Links, Busy
  <1>8. Codes'
    <2>1. \A r \in Req : agent'[r] = New <=> agent[r] = New
      BY <1>4, LinkFields DEF PollRec, New
    <2> QED BY <1>1, <2>1 DEF Asking, Codes, CodeOnce
  <1>9. ASSUME NEW r \in Req, r \notin excused PROVE Told(r)'
    <2>1. Told(r) /\ (nodesOf'[r] \cap There' # {} => nodesOf[r] \cap There # {})
      BY <1>1, <1>3, <1>9 DEF Asking
    <2>2. CASE agent[r].state = "polling"
      <3>1. agent[r].deadline \in Nat /\ clock \in Nat
        BY <2>2, LinkFields DEF PollRec, StoreType
      <3>2. clock' <= agent'[r].deadline
        BY <1>1, <1>3, <1>4, <2>2, <3>1
      <3> QED BY <1>1, <1>3, <1>4, <1>6, <2>1, <2>2, <3>2 DEF Told
    <2>3. CASE agent[r].state # "polling"
      <3>1. links[r] # Gone => links[r].expires \in Nat /\ clock \in Nat
        BY LinkFields DEF LinkRec, StoreType
      <3>2. links[r] # Gone /\ clock > links[r].expires => clock' > links'[r].expires
        BY <1>1, <1>3, <3>1
      <3> QED BY <1>1, <1>3, <1>4, <1>6, <2>1, <2>3, <3>2 DEF Told
    <2> QED BY <2>2, <2>3
  <1> QED BY <1>1, <1>2, <1>5, <1>7, <1>8, <1>9 DEF Asking

(* Every step keeps what processes, ids, requests and agents say of each   *)
(* other.                                                                  *)
LEMMA LinkNext ==
    ASSUME StoreType, LinkType, LinkInv, [Next]_vars
    PROVE  StoreType' /\ LinkType' /\ LinkInv'
  <1>1. Steps /\ Asking
    BY DEF LinkInv, Asking
  <1>2. UNCHANGED linkVars => LinkType'
    BY DEF linkVars, LinkType
  <1>3. ASSUME NEW r \in Req, NEW arrives \in BOOLEAN, 
               Start(r) \/ Poll(r, arrives) \/ PollUnanswered(r) \/ PollDies(r) \/ GiveUp(r) \/ Deny(r)
        PROVE  StoreType' /\ LinkType' /\ Steps' /\ Asking'
    <2>1. UNCHANGED storeVars
      BY <1>3 DEF Start, Poll, PollUnanswered, PollDies, GiveUp, Deny
    <2>2. StoreType'
      BY <2>1, OtherType
    <2> QED BY <1>1, <1>3, <2>2, StartStep, PollStep, AgentStep, DenyStep
  <1>4. ASSUME NEW p \in Proc, NEW o \in Asked(p), Begin(p, o), UNCHANGED linkVars
        PROVE  StoreType' /\ LinkType' /\ Steps' /\ Asking'
    <2>1. o \in Change /\ o.kind # "link" /\ (p = "hub" => o.kind # "rotate")
      BY AskedChanges
    <2>2. Asking'
      BY <1>1, <1>4, BeginAsking
    <2> QED BY <1>1, <1>2, <1>4, <2>1, <2>2, BeginType, StepsBegin
  <1>5. ASSUME NEW p \in Proc, Write(p), UNCHANGED linkVars
        PROVE  StoreType' /\ LinkType' /\ Steps' /\ Asking'
    BY <1>1, <1>2, <1>5, ProcessType, StepsWrite, WriteAsking
  <1>6. ASSUME NEW p \in Proc, UNCHANGED linkVars,
               \/ WriteFails(p) /\ op[p].kind # "link"
               \/ Stat(p) /\ (p = "hub" => op[p].kind # "link")
               \/ Stop(p) /\ p = "ctl"
        PROVE  StoreType' /\ LinkType' /\ Steps' /\ Asking'
    <2>1. Asking'
      BY <1>1, <1>6, EndAsking
    <2>2. Steps'
      BY <1>1, <1>6, EndsCase
    <2> QED BY <1>2, <1>6, <2>1, <2>2, ProcessType
  <1>7. ASSUME UNCHANGED linkVars, Boot \/ Look \/ UNCHANGED storeVars \/ \E kind \in {"bad", "good"} : HandEdit(kind)
        PROVE  StoreType' /\ LinkType' /\ Steps' /\ Asking'
    <2>1. Asking'
      BY <1>1, <1>7, IdleAsking
    <2>2. Steps'
      BY <1>1, <1>7, EndsCase
    <2> QED BY <1>2, <1>7, <2>1, <2>2, OtherType
  <1>8. ASSUME HubStops \/ Tick PROVE StoreType' /\ LinkType' /\ Steps' /\ Asking'
    BY <1>1, <1>8, HubStopsStep, TickStep
  <1>9. ASSUME NEW r \in Req, Approved(r) \/ ApproveFails(r) \/ \E i \in Id : Approve(r, i)
        PROVE  StoreType' /\ LinkType' /\ Steps' /\ Asking'
    BY <1>1, <1>9, ApproveStep, ApprovedStep, ApproveFailsStep
  <1>10. StoreType' /\ LinkType' /\ Steps' /\ Asking'
    <2>1. CASE UNCHANGED vars
      BY <1>7, <2>1 DEF vars
    <2>2. CASE Next
      BY <1>3, <1>4, <1>5, <1>6, <1>7, <1>8, <1>9, <2>2 DEF Next, Proc
    <2> QED BY <2>1, <2>2
  <1> QED BY <1>10 DEF LinkInv, Asking

(* The first state.                                                        *)
LEMMA LinkInit ==
    ASSUME Init
    PROVE  StoreType /\ LinkType /\ LinkInv
  <1>1. at["hub"] = "down" /\ at["ctl"] = "idle" /\ \A p \in Proc : op[p] = NoOp
    BY DEF Init, StoreInit, Proc
  <1>2. StoreType
    <2>1. file \in [kind : {"none", "good", "bad"}, nodes : [Id -> Entry], stamp : Nat]
      <3>1. Fresh.nodes \in [Id -> Entry]
        BY DEF Fresh, Entry
      <3> QED BY <3>1 DEF Init, StoreInit
    <2> QED BY <2>1, Constants DEF Init, StoreInit, StoreType, Proc
  <1>3. LinkType
    BY DEF Init, LinkType
  <1>4. Steps /\ There = {}
    <2>1. There = {}
      BY Constants DEF Init, StoreInit, There, Ids
    <2> QED BY <1>1, <2>1, Constants DEF Init, StoreInit, Steps, Busy, Proc
  <1>5. \A r \in Req : ~Linking(r)
    BY <1>1, Constants DEF Linking, Proc
  <1>6. Codes /\ Links
    BY <1>1, <1>5 DEF Init, Codes, CodeOnce, Links, Busy, Proc
  <1>7. \A r \in Req : Told(r)
    BY <1>4, <1>5 DEF Init, Told, New
  <1> QED BY <1>2, <1>3, <1>4, <1>6, <1>7 DEF LinkInv

(* Linking's invariant.                                                    *)
LEMMA LinkAlways == Spec => [](StoreType /\ LinkType /\ LinkInv)
  <1>1. Init => StoreType /\ LinkType /\ LinkInv
    BY LinkInit
  <1>2. StoreType /\ LinkType /\ LinkInv /\ [Next]_vars => (StoreType /\ LinkType /\ LinkInv)'
    BY LinkNext
  <1> QED BY <1>1, <1>2, PTL DEF Spec

(* One code makes one node at most, for every number of requests and of    *)
(* failed writes: decide uses the code up before it adds the node, and a   *)
(* poll, a sweep or a stop never make it good again (link.js 151-154).     *)
THEOREM CodeMakesOneNode == Spec => []OneNodePerCode
  <1>1. StoreType /\ LinkType /\ LinkInv => OneNodePerCode
    <2> SUFFICES ASSUME LinkInv, NEW r \in Req PROVE Cardinality(nodesOf[r]) <= 1
      BY DEF OneNodePerCode
    <2>1. CASE nodesOf[r] = {}
      BY <2>1, FS_EmptySet
    <2>2. CASE nodesOf[r] # {}
      <3>1. PICK i \in Id : nodesOf[r] = {i}
        BY <2>2 DEF LinkInv, Codes, CodeOnce
      <3>2. Cardinality({i}) = 1
        BY FS_Singleton
      <3> QED BY <3>1, <3>2
    <2> QED BY <2>1, <2>2
  <1> QED BY <1>1, LinkAlways, PTL

(* An agent that was told no or gave up has no node, for every TTL and     *)
(* every Slack that Keep is not shorter than, and any number of polls      *)
(* without an answer: an approved request is remembered until the agent's  *)
(* last poll.  Excused are a last poll without an answer, the one reply    *)
(* lost, a stop of the hub and a failed save (link.js 17-18, 69, 110-116;  *)
(* servitals-agent 195-208).                                               *)
THEOREM ApprovedAgentIsTold == Spec => []ApprovedIsTold
  <1>1. StoreType /\ LinkType /\ LinkInv => ApprovedIsTold
    <2> SUFFICES ASSUME LinkInv, StoreType, NEW r \in Req, agent[r].state \in {"denied", "expired"}, r \notin excused
                 PROVE  nodesOf[r] \cap added = {}
      BY DEF ApprovedIsTold
    <2>1. Told(r) /\ (Linking(r) => agent[r].state = "polling")
      BY DEF LinkInv, Told
    <2>2. nodesOf[r] \cap There = {}
      BY <2>1 DEF Told
    <2> QED BY <2>2 DEF There
  <1> QED BY <1>1, LinkAlways, PTL
=============================================================================
