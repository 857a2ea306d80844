---------------------------- MODULE StoreProofs -----------------------------
(***************************************************************************)
(* Theorems about the node store, for any number of nodes and secrets, any *)
(* times and any sequence of failed writes, stops and hand edits.          *)
(***************************************************************************)
EXTENDS EnrolProofs

-----------------------------------------------------------------------------
(* The store, while no two writers overlapped.                             *)

(* A copy of the hub's against the file: a node of the file is in the copy *)
(* as it is, or was revoked there and the write failed; a node that is     *)
(* only in the copy was never rotated.                                     *)
Covers(m, f) ==
    \A i \in Id : IF f[i] # Nobody THEN m[i] \in {f[i], RevokedNode}
                  ELSE m[i] = Nobody \/ m[i].old = NoSecret

(* A node's replaced secret is older than its secret, and all were made.   *)
Secrets(f) == \A i \in Id : Known(f[i]) => f[i].old < f[i].secret /\ f[i].secret <= secrets

HubFits ==
    /\ ~(Busy("hub") /\ Busy("ctl"))
    /\ \A p \in Proc : mem[p].seen <= file.stamp
    /\ at["hub"] = "down" => mem["hub"] = Fresh
    /\ at["hub"] = "idle" => file.kind # "none"
    /\ at["hub"] = "write" /\ op["hub"].kind # "local" => file.kind # "none"
    /\ at["hub"] = "idle" /\ (mem["hub"].seen = file.stamp \/ file.kind = "bad")
          => Covers(mem["hub"].nodes, file.nodes)
    /\ at["hub"] = "write" => /\ Covers(mem["hub"].nodes, file.nodes)
                              /\ Adds(op["hub"]) => mem["hub"].nodes[op["hub"].id] # Nobody
                              /\ op["hub"].kind = "revoke" => mem["hub"].nodes[op["hub"].id] = RevokedNode
    /\ at["hub"] = "stat" => file.kind = "good" /\ file.nodes = mem["hub"].nodes
    /\ \A p \in Proc : Secrets(mem[p].nodes)

(* servitals-ctl has the file as it is, but for the node it changes.       *)
CtlFits ==
    at["ctl"] = "write" =>
        LET i == op["ctl"].id
            n == file.nodes[i]
            m == mem["ctl"].nodes[i]
        IN  /\ \A j \in Id \ {i} : mem["ctl"].nodes[j] = file.nodes[j]
            /\ IF Adds(op["ctl"]) THEN n = Nobody /\ m = NewNode(secrets) ELSE Known(n)
            /\ op["ctl"].kind = "rename" => m = n
            /\ op["ctl"].kind = "revoke" => m = RevokedNode
            /\ op["ctl"].kind = "rotate" =>
                 m = Rotated(n, secrets) /\ n.secret < secrets
                 /\ \A x \in retired : x.id = i => x.secret < secrets

(* A replaced secret works until its window ends at most, one with grace   *)
(* works until then, and a node's old secret is one with grace.            *)
Replaced(x) ==
    LET n == file.nodes[x.id] IN
    /\ n # Nobody /\ x.secret # NoSecret /\ x.secret <= secrets
    /\ Known(n) => /\ n.secret # x.secret
                   /\ n.old = x.secret => n.until <= x.since + Overlap
                   /\ x.grace /\ clock < x.since + Overlap => n.old = x.secret /\ n.until = x.since + Overlap

FileFits ==
    /\ file.kind = "none" => file.nodes = Fresh.nodes /\ retired = {}
    /\ Secrets(file.nodes)
    /\ \A i \in added : file.nodes[i] # Nobody
    /\ \A i \in cut : file.nodes[i] = RevokedNode
    /\ retired \in SUBSET [id : Id, secret : Nat, since : Nat, grace : BOOLEAN]
    /\ \A x \in retired : Replaced(x)
    /\ \A i \in Id : Known(file.nodes[i]) /\ file.nodes[i].old # NoSecret =>
          \E x \in retired : x.id = i /\ x.grace /\ x.secret = file.nodes[i].old
                             /\ x.since + Overlap = file.nodes[i].until

StoreInv == ~raced => HubFits /\ CtlFits /\ FileFits

-----------------------------------------------------------------------------
(* What is loaded.                                                         *)

(* Secrets that were all made are so when more are made.                   *)
LEMMA SecretsGrow ==
    ASSUME StoreType, NEW f \in [Id -> Entry], Secrets(f), secrets' \in Nat, secrets <= secrets'
    PROVE  \A i \in Id : Known(f[i]) => f[i].old < f[i].secret /\ f[i].secret <= secrets'
  <1> SUFFICES ASSUME NEW i \in Id, Known(f[i])
               PROVE  f[i].old < f[i].secret /\ f[i].secret <= secrets'
    OBVIOUS
  <1>1. f[i] \in Node /\ f[i].old < f[i].secret /\ f[i].secret <= secrets
    BY DEF Secrets, Known, Entry
  <1> QED BY <1>1 DEF Node, StoreType

(* A file covers itself.                                                   *)
LEMMA CoversSelf == ASSUME NEW f PROVE Covers(f, f)
  BY DEF Covers

(* What an idle hub loads covers the file (load, nodes.js 20-35).          *)
LEMMA HubLoads ==
    ASSUME StoreType, HubFits, FileFits, at["hub"] = "idle"
    PROVE  LET m == Load(mem["hub"])
           IN  Covers(m.nodes, file.nodes) /\ m.seen <= file.stamp /\ Secrets(m.nodes)
  <1>1. /\ mem["hub"] \in Copy /\ file.stamp \in Nat /\ file.kind \in {"none", "good", "bad"}
        /\ mem["hub"].seen <= file.stamp /\ Secrets(mem["hub"].nodes) /\ file.kind # "none"
    BY DEF StoreType, HubFits, Proc
  <1>2. CASE file.stamp = mem["hub"].seen
    <2>1. Load(mem["hub"]) = mem["hub"]
      BY <1>1, <1>2, LoadCases
    <2> QED BY <1>1, <1>2, <2>1 DEF HubFits
  <1>3. CASE file.kind = "good" /\ file.stamp # mem["hub"].seen
    <2>1. Load(mem["hub"]).nodes = file.nodes /\ Load(mem["hub"]).seen = file.stamp
      BY <1>1, <1>3, LoadCases
    <2> QED BY <1>1, <2>1, CoversSelf DEF FileFits
  <1>4. CASE file.kind = "bad" /\ file.stamp # mem["hub"].seen
    <2>1. Load(mem["hub"]).nodes = mem["hub"].nodes /\ Load(mem["hub"]).seen = mem["hub"].seen
      BY <1>1, <1>4, LoadCases
    <2> QED BY <1>1, <1>4, <2>1 DEF HubFits
  <1> QED BY <1>1, <1>2, <1>3, <1>4

(* What a process loads that has nothing in memory is the file, or it is   *)
(* nothing, and known to be unreadable.                                    *)
LEMMA FreshLoads ==
    ASSUME StoreType, FileFits
    PROVE  LET m == Load(Fresh)
           IN  /\ m.seen <= file.stamp
               /\ m.nodes = file.nodes \/ (m.unreadable /\ \A i \in Id : m.nodes[i] = Nobody)
               /\ file.kind = "none" => \A i \in Id : m.nodes[i] = Nobody
  <1>1. /\ Fresh \in Copy /\ Fresh.seen = NoFile /\ (\A i \in Id : Fresh.nodes[i] = Nobody)
        /\ file.stamp \in Nat /\ file.kind \in {"none", "good", "bad"}
    BY Constants DEF StoreType
  <1>2. file.stamp # Fresh.seen /\ Fresh.seen <= file.stamp
    BY <1>1 DEF NoFile
  <1>3. CASE file.kind = "none"
    BY <1>1, <1>2, <1>3, LoadCases DEF FileFits
  <1>4. CASE file.kind = "good"
    <2>1. Load(Fresh).nodes = file.nodes /\ Load(Fresh).seen = file.stamp
      BY <1>1, <1>2, <1>4, LoadCases
    <2> QED BY <1>1, <1>4, <2>1
  <1>5. CASE file.kind = "bad"
    <2>1. Load(Fresh).nodes = Fresh.nodes /\ Load(Fresh).seen = Fresh.seen /\ Load(Fresh).unreadable
      BY <1>1, <1>2, <1>5, LoadCases
    <2> QED BY <1>1, <1>2, <1>5, <2>1
  <1> QED BY <1>1, <1>3, <1>4, <1>5

(* What a hub that runs answers from covers the file.                      *)
LEMMA SeenCovers ==
    ASSUME StoreType, HubFits, FileFits, at["hub"] # "down"
    PROVE  Covers(Seen, file.nodes)
  <1>1. /\ mem["hub"] \in Copy /\ at["hub"] \in {"idle", "write", "stat"}
        /\ file.kind \in {"none", "good", "bad"}
    BY DEF StoreType, Proc
  <1>2. CASE at["hub"] = "idle"
    BY <1>2, HubLoads DEF Seen
  <1>3. CASE at["hub"] = "write"
    <2>1. Covers(mem["hub"].nodes, file.nodes)
      BY <1>3 DEF HubFits
    <2>2. Seen \in {file.nodes, mem["hub"].nodes}
      <3>1. CASE file.kind = "none"
        BY <1>1, <3>1, LoadCases DEF Seen, FileFits
      <3>2. CASE file.kind # "none"
        BY <1>1, <3>2, LoadCases DEF Seen
      <3> QED BY <3>1, <3>2
    <2> QED BY <2>1, <2>2, CoversSelf
  <1>4. CASE at["hub"] = "stat"
    <2>1. file.kind = "good" /\ file.nodes = mem["hub"].nodes
      BY <1>4 DEF HubFits
    <2>2. Seen = file.nodes
      BY <1>1, <2>1, LoadCases DEF Seen
    <2> QED BY <2>2, CoversSelf
  <1> QED BY <1>1, <1>2, <1>3, <1>4

-----------------------------------------------------------------------------
(* The steps that leave the nodes in the file alone.                       *)

(* Time passes and secrets are made; the nodes in the file stay.           *)
LEMMA FileKeeps ==
    ASSUME StoreType, FileFits, file'.nodes = file.nodes, file'.kind = "none" => file.kind = "none",
           UNCHANGED <<added, cut, retired>>, secrets' \in Nat, secrets <= secrets',
           clock' \in Nat, clock <= clock'
    PROVE  FileFits'
  <1>1. file.nodes \in [Id -> Entry] /\ clock \in Nat /\ secrets \in Nat
    BY DEF StoreType
  <1>2. Secrets(file.nodes)'
    BY <1>1, SecretsGrow DEF FileFits, Secrets
  <1>3. ASSUME NEW x \in retired PROVE Replaced(x)'
    <2>1. Replaced(x) /\ x.since \in Nat /\ x.secret \in Nat /\ Overlap \in Nat
      BY StoreBounds DEF FileFits
    <2>2. clock' < x.since + Overlap => clock < x.since + Overlap
      BY <1>1, <2>1
    <2>3. x.secret <= secrets => x.secret <= secrets'
      BY <1>1, <2>1
    <2> QED BY <2>1, <2>2, <2>3 DEF Replaced
  <1> QED BY <1>2, <1>3 DEF FileFits

(* A process that has let go of its copy.                                  *)
LEMMA FreshFits ==
    /\ StoreType => Fresh.seen <= file.stamp
    /\ Secrets(Fresh.nodes)
  BY Constants DEF StoreType, Secrets, NoFile

(* A process gives up its change, or stops, and its copy is gone.          *)
LEMMA ForgetStep ==
    ASSUME StoreType, Steps, HubFits, CtlFits, FileFits, NEW p \in Proc,
           at' = [at EXCEPT ![p] = IF p = "hub" THEN "down" ELSE "idle"],
           mem' = [mem EXCEPT ![p] = Fresh], op' = [op EXCEPT ![p] = NoOp],
           UNCHANGED <<clock, file, secrets, added, cut, retired>>
    PROVE  HubFits' /\ CtlFits' /\ FileFits'
  <1>1. /\ at'[p] = (IF p = "hub" THEN "down" ELSE "idle") /\ mem'[p] = Fresh /\ op'[p] = NoOp
        /\ \A q \in Proc \ {p} : at'[q] = at[q] /\ mem'[q] = mem[q] /\ op'[q] = op[q]
    BY DEF StoreType
  <1>2. FileFits'
    BY FileKeeps DEF StoreType
  <1>3. \A q \in Proc : mem'[q].seen <= file'.stamp /\ Secrets(mem'[q].nodes)
    BY <1>1, FreshFits DEF HubFits
  <1>4. \A q \in Proc : Secrets(mem[q].nodes)'
    BY <1>3 DEF Secrets
  <1>5. CASE p = "hub"
    <2>1. at'["hub"] = "down" /\ mem'["hub"] = Fresh /\ at'["ctl"] = at["ctl"] /\ mem'["ctl"] = mem["ctl"] /\ op'["ctl"] = op["ctl"]
      BY <1>1, <1>5 DEF Proc
    <2>2. HubFits'
      BY <1>3, <1>4, <2>1 DEF HubFits, Busy
    <2>3. CtlFits'
      BY <2>1 DEF CtlFits, Rotated
    <2> QED BY <1>2, <2>2, <2>3
  <1>6. CASE p = "ctl"
    <2>1. at'["ctl"] = "idle" /\ at'["hub"] = at["hub"] /\ mem'["hub"] = mem["hub"] /\ op'["hub"] = op["hub"]
      BY <1>1, <1>6 DEF Proc
    <2>2. HubFits'
      BY <1>3, <1>4, <2>1 DEF HubFits, Busy
    <2>3. CtlFits'
      BY <2>1 DEF CtlFits
    <2> QED BY <1>2, <2>2, <2>3
  <1> QED BY <1>5, <1>6 DEF Proc

(* A write fails: the hub keeps the change in memory (save, nodes.js).     *)
LEMMA WriteFailsStep ==
    ASSUME StoreType, Steps, HubFits, CtlFits, FileFits, NEW p \in Proc, WriteFails(p)
    PROVE  HubFits' /\ CtlFits' /\ FileFits'
  <1>1. CASE p = "hub" /\ op[p].kind # "local"
    <2>1. /\ at' = [at EXCEPT !["hub"] = "idle"] /\ at["hub"] = "write" /\ op["hub"].kind # "local"
          /\ op' = [op EXCEPT !["hub"] = NoOp]
          /\ UNCHANGED <<mem, clock, file, secrets, added, cut, retired>>
      BY <1>1 DEF WriteFails
    <2>2. at'["hub"] = "idle" /\ at'["ctl"] = at["ctl"] /\ op'["ctl"] = op["ctl"]
      BY <2>1 DEF StoreType, Proc
    <2>3. FileFits'
      BY <2>1, FileKeeps DEF StoreType
    <2>4. CtlFits'
      BY <2>1, <2>2 DEF CtlFits, Rotated
    <2>5. HubFits'
      <3>1. file.kind # "none" /\ Covers(mem["hub"].nodes, file.nodes)
        BY <2>1 DEF HubFits
      <3> QED BY <2>1, <2>2, <3>1 DEF HubFits, Busy, Secrets
    <2> QED BY <2>3, <2>4, <2>5
  <1>2. CASE ~(p = "hub" /\ op[p].kind # "local")
    BY <1>2, ForgetStep DEF WriteFails
  <1> QED BY <1>1, <1>2

(* A process stops.                                                        *)
LEMMA StopStep ==
    ASSUME StoreType, Steps, HubFits, CtlFits, FileFits, NEW p \in Proc, Stop(p)
    PROVE  HubFits' /\ CtlFits' /\ FileFits'
  BY ForgetStep DEF Stop

(* The time stamp is noted (save, nodes.js).                               *)
LEMMA StatStep ==
    ASSUME StoreType, Steps, HubFits, CtlFits, FileFits, NEW p \in Proc, Stat(p)
    PROVE  HubFits' /\ CtlFits' /\ FileFits'
  <1>1. CASE p = "ctl"
    BY <1>1, ForgetStep DEF Stat
  <1>2. CASE p = "hub"
    <2> DEFINE m == [mem["hub"] EXCEPT !.seen = file.stamp]
    <2>1. /\ at' = [at EXCEPT !["hub"] = "idle"] /\ at["hub"] = "stat"
          /\ mem' = [mem EXCEPT !["hub"] = m] /\ op' = [op EXCEPT !["hub"] = NoOp]
          /\ UNCHANGED <<clock, file, secrets, added, cut, retired>>
      BY <1>2 DEF Stat, StoreType
    <2>2. m.nodes = mem["hub"].nodes /\ m.seen = file.stamp /\ file.stamp \in Nat
      BY DEF StoreType, Copy, Proc
    <2> HIDE DEF m
    <2>3. at'["hub"] = "idle" /\ at'["ctl"] = at["ctl"] /\ op'["ctl"] = op["ctl"]
          /\ mem'["hub"] = m /\ mem'["ctl"] = mem["ctl"]
      BY <2>1 DEF StoreType, Proc
    <2>4. FileFits'
      BY <2>1, FileKeeps DEF StoreType
    <2>5. CtlFits'
      BY <2>1, <2>3 DEF CtlFits, Rotated
    <2>6. HubFits'
      <3>1. file.kind = "good" /\ Covers(m.nodes, file.nodes)
        BY <2>1, <2>2, CoversSelf DEF HubFits
      <3>2. \A q \in Proc : mem'[q].seen <= file'.stamp
        BY <2>1, <2>2, <2>3 DEF HubFits, Proc
      <3>3. \A q \in Proc : Secrets(mem[q].nodes)'
        BY <2>1, <2>2, <2>3 DEF HubFits, Secrets, Proc
      <3> QED BY <2>1, <2>2, <2>3, <3>1, <3>2, <3>3 DEF HubFits, Busy
    <2> QED BY <2>4, <2>5, <2>6
  <1> QED BY <1>1, <1>2 DEF Proc

(* The hub starts, or looks at the file.                                   *)
LEMMA ReadStep ==
    ASSUME StoreType, Steps, HubFits, CtlFits, FileFits, Boot \/ Look
    PROVE  HubFits' /\ CtlFits' /\ FileFits'
  <1> DEFINE m == Load(mem["hub"])
  <1>1. /\ mem' = [mem EXCEPT !["hub"] = m] /\ at'["hub"] = "idle" /\ at'["ctl"] = at["ctl"] /\ ~Busy("hub")
        /\ UNCHANGED <<clock, op, file, secrets, added, cut, retired>>
    <2>1. ASSUME Boot PROVE mem["hub"] = Fresh
      BY <2>1 DEF Boot, HubFits
    <2> QED BY <2>1 DEF Boot, Look, StoreType, Busy, Proc
  <1>2. Covers(m.nodes, file.nodes) /\ m.seen <= file.stamp /\ Secrets(m.nodes) /\ file.kind # "none"
    <2>1. CASE Look
      BY <2>1, HubLoads DEF Look, HubFits
    <2>2. CASE Boot
      <3>1. m = Load(Fresh) /\ Known(m.nodes[Local]) /\ Local \in Id
        BY <2>2, IdsAssumption DEF Boot, HubFits
      <3>2. m.nodes[Local] # Nobody
        BY <3>1 DEF Known
      <3>3. m.nodes = file.nodes /\ m.seen <= file.stamp /\ file.kind # "none"
        BY <3>1, <3>2, FreshLoads
      <3> QED BY <3>3, CoversSelf DEF FileFits
    <2> QED BY <2>1, <2>2
  <1> HIDE DEF m
  <1>3. mem'["hub"] = m /\ mem'["ctl"] = mem["ctl"]
    BY <1>1 DEF StoreType, Proc
  <1>4. FileFits'
    BY <1>1, FileKeeps DEF StoreType
  <1>5. CtlFits'
    BY <1>1, <1>3 DEF CtlFits, Rotated
  <1>6. \A q \in Proc : mem'[q].seen <= file'.stamp /\ Secrets(mem[q].nodes)'
    BY <1>1, <1>2, <1>3 DEF HubFits, Secrets, Proc
  <1>7. HubFits'
    BY <1>1, <1>2, <1>3, <1>6 DEF HubFits, Busy
  <1> QED BY <1>4, <1>5, <1>7

(* A hand edit that is no race.                                            *)
LEMMA HandEditStep ==
    ASSUME StoreType, Steps, HubFits, CtlFits, FileFits, NEW kind \in {"bad", "good"}, HandEdit(kind), ~raced'
    PROVE  HubFits' /\ CtlFits' /\ FileFits'
  <1>1. /\ UNCHANGED <<clock, at, mem, op, secrets, added, cut, retired>>
        /\ file' = [file EXCEPT !.kind = kind, !.stamp = @ + 1]
        /\ ~Busy("hub") /\ ~Busy("ctl")
        /\ at["hub"] = "idle" /\ kind = "bad" => mem["hub"].seen = file.stamp
    BY DEF HandEdit, Proc
  <1>2. file'.kind = kind /\ file'.stamp = file.stamp + 1 /\ file'.nodes = file.nodes /\ file.stamp \in Nat
    BY <1>1 DEF StoreType
  <1>3. FileFits'
    BY <1>1, <1>2, FileKeeps DEF StoreType
  <1>4. CtlFits'
    BY <1>1 DEF CtlFits, Busy
  <1>5. \A q \in Proc : mem[q].seen < file'.stamp /\ mem[q].seen <= file'.stamp /\ mem[q].seen # file'.stamp
    <2>1. \A q \in Proc : mem[q].seen \in Int /\ mem[q].seen <= file.stamp
      BY DEF StoreType, Copy, HubFits, NoFile
    <2> QED BY <1>2, <2>1
  <1>6. HubFits'
    BY <1>1, <1>2, <1>5 DEF HubFits, Busy, Secrets, Proc
  <1> QED BY <1>3, <1>4, <1>6

(* Time, and steps that leave the store alone.                             *)
LEMMA TimeStep ==
    ASSUME StoreType, Steps, HubFits, CtlFits, FileFits, StoreTick \/ UNCHANGED storeVars
    PROVE  HubFits' /\ CtlFits' /\ FileFits'
  <1>1. UNCHANGED <<at, mem, op, file, secrets, added, cut, retired>>
    BY DEF StoreTick, storeVars
  <1>2. clock' = clock \/ (clock' = clock + 1 /\ ~Busy("ctl"))
    BY DEF StoreTick, storeVars, Proc
  <1>3. clock' \in Nat /\ clock <= clock'
    BY <1>2 DEF StoreType
  <1>4. FileFits'
    BY <1>1, <1>3, FileKeeps DEF StoreType
  <1>5. CtlFits'
    BY <1>1, <1>2 DEF CtlFits, Busy, Rotated
  <1>6. HubFits'
    BY <1>1 DEF HubFits, Busy, Secrets
  <1> QED BY <1>4, <1>5, <1>6

-----------------------------------------------------------------------------
(* A change begins.                                                        *)

(* The copy it works on: the file for servitals-ctl and for a hub that     *)
(* starts, one that covers the file for a hub that runs.                   *)
LEMMA LoadedFits ==
    ASSUME StoreType, HubFits, FileFits, NEW p \in Proc, NEW o \in Change,
           Allowed(o, Loading(p)), at[p] = (IF o.kind = "local" THEN "down" ELSE "idle")
    PROVE  /\ Covers(Loading(p).nodes, file.nodes) /\ Secrets(Loading(p).nodes)
           /\ Loading(p).seen <= file.stamp
           /\ p = "ctl" => Loading(p).nodes = file.nodes
           /\ p = "hub" /\ o.kind # "local" => file.kind # "none"
  <1>1. CASE p = "hub" /\ o.kind # "local"
    <2>1. Loading(p) = Load(mem["hub"]) /\ at["hub"] = "idle"
      BY <1>1 DEF Loading
    <2>2. file.kind # "none"
      BY <2>1 DEF HubFits
    <2> QED BY <1>1, <2>1, <2>2, HubLoads
  <1>2. CASE ~(p = "hub" /\ o.kind # "local")
    <2>1. Loading(p) = Load(Fresh)
      <3>1. p = "hub" => mem["hub"] = Fresh
        BY <1>2 DEF HubFits
      <3> QED BY <3>1 DEF Loading, Proc
    <2>2. ~(Loading(p).unreadable /\ \A i \in Id : Loading(p).nodes[i] = Nobody)
      <3>1. o.id \in Id
        BY DEF Change
      <3> QED BY <3>1 DEF Allowed, Known
    <2>3. Loading(p).nodes = file.nodes /\ Loading(p).seen <= file.stamp
      BY <2>1, <2>2, FreshLoads
    <2> QED BY <1>2, <2>3, CoversSelf DEF FileFits
  <1> QED BY <1>1, <1>2

(* Changing a node keeps its secrets in order.                             *)
LEMMA ChangedSecrets ==
    ASSUME StoreType, NEW o \in Change, NEW f \in [Id -> Entry], Secrets(f), Adds(o) \/ Known(f[o.id]),
           secrets' = (IF Makes(o) THEN secrets + 1 ELSE secrets)
    PROVE  \A i \in Id : LET n == [f EXCEPT ![o.id] = Changed(o, @)][i]
                         IN  Known(n) => n.old < n.secret /\ n.secret <= secrets'
  <1> DEFINE c == Changed(o, f[o.id])
  <1>1. /\ o.id \in Id /\ f[o.id] \in Entry /\ o.kind \in Kind /\ secrets \in Nat
        /\ secrets' \in Nat /\ secrets <= secrets'
    BY DEF Change, StoreType
  <1>2. \A i \in Id : Known(f[i]) => f[i].old < f[i].secret /\ f[i].secret <= secrets'
    BY <1>1, SecretsGrow
  <1>3. /\ Adds(o) => c = NewNode(secrets + 1)
        /\ o.kind = "rename" => c = f[o.id]
        /\ o.kind = "revoke" => c = RevokedNode
        /\ o.kind = "rotate" => c = Rotated(f[o.id], secrets + 1)
    BY <1>1, ChangedNode
  <1>4. Known(c) => c.old < c.secret /\ c.secret <= secrets'
    <2>1. CASE Adds(o)
      <3>1. secrets' = secrets + 1
        BY <2>1 DEF Adds, Makes
      <3>2. c.old = 0 /\ c.secret = secrets + 1
        BY <1>3, <2>1 DEF NewNode, NoSecret
      <3> QED BY <1>1, <3>1, <3>2
    <2>2. CASE o.kind = "rename"
      BY <1>1, <1>2, <1>3, <2>2
    <2>3. CASE o.kind = "revoke"
      BY <1>3, <2>3, Constants
    <2>4. CASE o.kind = "rotate"
      <3>1. secrets' = secrets + 1 /\ secrets + 1 \in Nat
        BY <1>1, <2>4 DEF Makes
      <3>2. Known(f[o.id]) /\ f[o.id] \in Node
        BY <1>1, <2>4 DEF Adds, Known, Entry
      <3>3. f[o.id].old < f[o.id].secret /\ f[o.id].secret <= secrets /\ f[o.id].old \in Nat /\ f[o.id].secret \in Nat
        BY <1>1, <3>2 DEF Secrets, Node
      <3>4. c.secret = secrets + 1 /\ c.old \in {f[o.id].old, f[o.id].secret}
        BY <1>3, <2>4, <3>1, <3>2, RotatedNode
      <3> QED BY <1>1, <3>1, <3>3, <3>4
    <2> QED BY <1>1, <2>1, <2>2, <2>3, <2>4 DEF Kind, Adds
  <1> HIDE DEF c
  <1> SUFFICES ASSUME NEW i \in Id, Known([f EXCEPT ![o.id] = c][i])
               PROVE  LET n == [f EXCEPT ![o.id] = c][i] IN n.old < n.secret /\ n.secret <= secrets'
    BY DEF c
  <1> QED BY <1>1, <1>2, <1>4

(* The copy after the change still covers the file, unless it rotates.     *)
LEMMA ChangedCovers ==
    ASSUME StoreType, NEW o \in Change, NEW f \in [Id -> Entry], Covers(f, file.nodes), o.kind # "rotate",
           IF Adds(o) THEN f[o.id] = Nobody ELSE Known(f[o.id])
    PROVE  /\ Covers([f EXCEPT ![o.id] = Changed(o, @)], file.nodes)
           /\ Adds(o) => [f EXCEPT ![o.id] = Changed(o, @)][o.id] # Nobody
           /\ o.kind = "revoke" => [f EXCEPT ![o.id] = Changed(o, @)][o.id] = RevokedNode
  <1> DEFINE c == Changed(o, f[o.id])
  <1>1. o.id \in Id /\ f[o.id] \in Entry /\ o.kind \in Kind
    BY DEF Change
  <1>2. /\ Adds(o) => c = NewNode(secrets + 1)
        /\ o.kind = "rename" => c = f[o.id]
        /\ o.kind = "revoke" => c = RevokedNode
        /\ c \in Node
    BY <1>1, ChangedNode
  <1>3. c # Nobody
    BY <1>2, Constants
  <1>4. IF file.nodes[o.id] # Nobody THEN c \in {file.nodes[o.id], RevokedNode}
        ELSE c = Nobody \/ c.old = NoSecret
    <2>1. IF file.nodes[o.id] # Nobody THEN f[o.id] \in {file.nodes[o.id], RevokedNode}
          ELSE f[o.id] = Nobody \/ f[o.id].old = NoSecret
      BY <1>1 DEF Covers
    <2>2. CASE Adds(o)
      <3>1. file.nodes[o.id] = Nobody
        BY <2>1, <2>2, Constants
      <3> QED BY <1>2, <2>2, <3>1 DEF NewNode
    <2>3. CASE o.kind = "rename"
      BY <1>2, <2>1, <2>3
    <2>4. CASE o.kind = "revoke"
      BY <1>2, <2>4, Constants
    <2> QED BY <1>1, <2>2, <2>3, <2>4 DEF Kind, Adds
  <1> HIDE DEF c
  <1>5. Covers([f EXCEPT ![o.id] = c], file.nodes)
    BY <1>1, <1>4 DEF Covers
  <1> QED BY <1>1, <1>2, <1>3, <1>5 DEF c

(* A change begins while nobody else makes one.                            *)
LEMMA BeginStep ==
    ASSUME StoreType, Steps, HubFits, CtlFits, FileFits, NEW p \in Proc, NEW o \in Change, Begin(p, o), ~raced',
           p = "hub" => o.kind # "rotate", p = "ctl" => o.kind # "local"
    PROVE  HubFits' /\ CtlFits' /\ FileFits'
  <1> DEFINE f == Loading(p).nodes
  <1>1. /\ Loading(p) \in Copy /\ Allowed(o, Loading(p)) /\ (Adds(o) \/ Known(f[o.id]))
        /\ mem'[p].nodes = [f EXCEPT ![o.id] = Changed(o, @)] /\ mem'[p].seen = Loading(p).seen
        /\ \A q \in Proc \ {p} : mem'[q] = mem[q] /\ at'[q] = at[q] /\ op'[q] = op[q]
        /\ at'[p] = "write" /\ op'[p] = o
        /\ at[p] = (IF o.kind = "local" THEN "down" ELSE "idle")
        /\ secrets' = (IF Makes(o) THEN secrets + 1 ELSE secrets)
        /\ raced' = (raced \/ \E q \in Proc \ {p} : Busy(q))
        /\ UNCHANGED <<clock, file, added, cut, retired>>
    BY Begins
  <1>2. \A q \in Proc \ {p} : ~Busy(q)
    BY <1>1
  <1>3. /\ Covers(f, file.nodes) /\ Secrets(f) /\ Loading(p).seen <= file.stamp
        /\ p = "ctl" => f = file.nodes
        /\ p = "hub" /\ o.kind # "local" => file.kind # "none"
    BY <1>1, LoadedFits
  <1>4. f \in [Id -> Entry] /\ o.id \in Id /\ o.kind \in Kind /\ secrets \in Nat /\ clock \in Nat
    BY <1>1 DEF Copy, Change, StoreType
  <1>5. secrets' \in Nat /\ secrets <= secrets'
    BY <1>1, <1>4
  <1>6. IF Adds(o) THEN f[o.id] = Nobody ELSE Known(f[o.id])
    BY <1>1 DEF Allowed, Adds
  <1> HIDE DEF f
  <1>7. FileFits'
    <2>1. UNCHANGED <<clock, file, added, cut, retired>>
      BY <1>1
    <2> QED BY <1>4, <1>5, <2>1, FileKeeps
  <1>8. \A q \in Proc : Secrets(mem[q].nodes)'
    <2>1. \A i \in Id : LET n == [f EXCEPT ![o.id] = Changed(o, @)][i]
                       IN  Known(n) => n.old < n.secret /\ n.secret <= secrets'
      BY <1>1, <1>3, <1>4, <1>6, ChangedSecrets
    <2>2. Secrets(mem[p].nodes)'
      BY <1>1, <2>1 DEF Secrets
    <2>3. ASSUME NEW q \in Proc, q # p PROVE Secrets(mem[q].nodes)'
      <3>1. mem[q].nodes \in [Id -> Entry] /\ Secrets(mem[q].nodes) /\ mem'[q] = mem[q]
        BY <1>1, <2>3 DEF StoreType, Copy, HubFits
      <3> QED BY <1>5, <3>1, SecretsGrow DEF Secrets
    <2> QED BY <2>2, <2>3
  <1>9. \A q \in Proc : mem'[q].seen <= file'.stamp
    BY <1>1, <1>3 DEF HubFits
  <1>10. CASE p = "hub"
    <2>1. /\ at'["hub"] = "write" /\ op'["hub"] = o /\ at'["ctl"] = at["ctl"] /\ ~Busy("ctl")
          /\ mem'["hub"].nodes = [f EXCEPT ![o.id] = Changed(o, @)] /\ file' = file
      BY <1>1, <1>2, <1>10 DEF Proc
    <2>2. /\ Covers([f EXCEPT ![o.id] = Changed(o, @)], file.nodes)
          /\ Adds(o) => [f EXCEPT ![o.id] = Changed(o, @)][o.id] # Nobody
          /\ o.kind = "revoke" => [f EXCEPT ![o.id] = Changed(o, @)][o.id] = RevokedNode
      BY <1>3, <1>4, <1>6, <1>10, ChangedCovers
    <2>3. HubFits'
      BY <1>3, <1>8, <1>9, <1>10, <2>1, <2>2 DEF HubFits, Busy
    <2>4. CtlFits'
      BY <2>1 DEF CtlFits, Busy
    <2> QED BY <1>7, <2>3, <2>4
  <1>11. CASE p = "ctl"
    <2>1. /\ at'["ctl"] = "write" /\ op'["ctl"] = o /\ at'["hub"] = at["hub"] /\ op'["hub"] = op["hub"]
          /\ mem'["hub"] = mem["hub"] /\ ~Busy("hub")
          /\ mem'["ctl"].nodes = [file.nodes EXCEPT ![o.id] = Changed(o, @)]
          /\ UNCHANGED <<clock, file, retired>>
      BY <1>1, <1>2, <1>3, <1>11 DEF Proc
    <2>2. HubFits'
      BY <1>8, <1>9, <2>1 DEF HubFits, Busy
    <2>3. CtlFits'
      <3> DEFINE n == file.nodes[o.id]
      <3>1. file.nodes \in [Id -> Entry] /\ n \in Entry /\ mem'["ctl"].nodes[o.id] = Changed(o, n)
            /\ \A j \in Id \ {o.id} : mem'["ctl"].nodes[j] = file.nodes[j]
        BY <1>4, <2>1 DEF StoreType
      <3>2. IF Adds(o) THEN n = Nobody ELSE Known(n)
        BY <1>3, <1>6, <1>11
      <3>3. /\ Adds(o) => Changed(o, n) = NewNode(secrets + 1)
            /\ o.kind = "rename" => Changed(o, n) = n
            /\ o.kind = "revoke" => Changed(o, n) = RevokedNode
            /\ o.kind = "rotate" => Changed(o, n) = Rotated(n, secrets + 1)
        BY <3>1, <3>2, ChangedNode
      <3>4. Adds(o) \/ o.kind = "rotate" => secrets' = secrets + 1
        BY <1>1 DEF Adds, Makes
      <3>5. ASSUME o.kind = "rotate"
            PROVE  n.secret < secrets' /\ \A x \in retired : x.id = o.id => x.secret < secrets'
        <4>1. Known(n) /\ n \in Node
          BY <3>1, <3>2, <3>5 DEF Adds, Known, Entry
        <4>2. n.secret <= secrets /\ n.secret \in Nat
          BY <1>4, <4>1 DEF FileFits, Secrets, Node
        <4>3. \A x \in retired : x.secret <= secrets /\ x.secret \in Nat
          BY DEF FileFits, Replaced
        <4> QED BY <1>4, <3>4, <3>5, <4>2, <4>3
      <3> HIDE DEF n
      <3>6. o.kind = "rotate" => Rotated(n, secrets + 1) = Rotated(n, secrets)'
        BY <2>1, <3>4 DEF Rotated, n
      <3> QED BY <2>1, <3>1, <3>2, <3>3, <3>4, <3>5, <3>6 DEF CtlFits, n
    <2> QED BY <1>7, <2>2, <2>3
  <1> QED BY <1>10, <1>11 DEF Proc

-----------------------------------------------------------------------------
(* The file is replaced (save, nodes.js).                                  *)

(* ... by the hub, whose copy covers it.                                   *)
LEMMA HubWrites ==
    ASSUME StoreType, Steps, HubFits, CtlFits, FileFits, ~raced, Write("hub")
    PROVE  HubFits' /\ CtlFits' /\ FileFits'
  <1> DEFINE o == op["hub"]
             m == mem["hub"].nodes
  <1>1. /\ at["hub"] = "write" /\ at' = [at EXCEPT !["hub"] = "stat"]
        /\ file' = [kind |-> "good", nodes |-> m, stamp |-> file.stamp + 1]
        /\ added' = added \cup Ids(m)
        /\ cut' = (IF o.kind = "revoke" THEN cut \cup {o.id} ELSE cut)
        /\ UNCHANGED <<clock, mem, op, secrets>>
    BY DEF Write
  <1>2. retired' = retired
    <2>1. Retire(o) = {}
      BY DEF Retire, Steps
    <2> QED BY <2>1 DEF Write
  <1>3. /\ file'.kind = "good" /\ file'.nodes = m /\ file'.stamp = file.stamp + 1 /\ file.stamp \in Nat
        /\ at'["hub"] = "stat" /\ at'["ctl"] = at["ctl"]
    BY <1>1 DEF StoreType, Proc
  <1>4. /\ Covers(m, file.nodes) /\ ~Busy("ctl") /\ Secrets(m)
        /\ Adds(o) => m[o.id] # Nobody
        /\ o.kind = "revoke" => m[o.id] = RevokedNode
    BY <1>1 DEF HubFits, Busy, Proc
  <1>5. added \subseteq Id /\ cut \subseteq Id /\ \A i \in Id : file.nodes[i] # Nobody => m[i] \in {file.nodes[i], RevokedNode}
    BY <1>4 DEF StoreType, Covers
  <1> HIDE DEF o, m
  <1>6. CtlFits'
    BY <1>3, <1>4 DEF CtlFits, Busy
  <1>7. HubFits'
    <2>1. \A q \in Proc : mem[q].seen <= file.stamp + 1
      <3>1. \A q \in Proc : mem[q].seen \in Int /\ mem[q].seen <= file.stamp
        BY DEF StoreType, Copy, HubFits, NoFile
      <3> QED BY <1>3, <3>1
    <2>2. \A q \in Proc : Secrets(mem[q].nodes)'
      BY <1>1 DEF HubFits, Secrets
    <2> QED BY <1>1, <1>3, <1>4, <2>1, <2>2 DEF HubFits, Busy, m
  <1>8. FileFits'
    <2>1. Secrets(file.nodes)'
      BY <1>1, <1>3, <1>4 DEF Secrets
    <2>2. \A i \in added' : m[i] # Nobody
      BY <1>1, <1>5, Constants DEF FileFits, Ids
    <2>3. \A i \in cut' : m[i] = RevokedNode
      BY <1>1, <1>4, <1>5, Constants DEF FileFits
    <2>4. ASSUME NEW x \in retired PROVE Replaced(x)'
      <3>1. Replaced(x) /\ x.id \in Id
        BY DEF FileFits
      <3>2. m[x.id] \in {file.nodes[x.id], RevokedNode}
        BY <1>5, <3>1 DEF Replaced
      <3> QED BY <1>1, <1>3, <3>1, <3>2, Constants DEF Replaced
    <2>5. ASSUME NEW i \in Id, Known(m[i]), m[i].old # NoSecret
          PROVE  Known(file.nodes[i]) /\ m[i] = file.nodes[i]
      <3>1. file.nodes[i] # Nobody
        BY <1>4, <2>5 DEF Covers, Known
      <3>2. m[i] # RevokedNode
        BY <2>5, Constants
      <3> QED BY <1>5, <2>5, <3>1, <3>2
    <2> QED BY <1>1, <1>2, <1>3, <2>1, <2>2, <2>3, <2>4, <2>5 DEF FileFits
  <1> QED BY <1>6, <1>7, <1>8

(* ... by servitals-ctl: what it leaves of the file.                       *)
LEMMA CtlWrites ==
    ASSUME StoreType, Steps, HubFits, CtlFits, FileFits, ~raced, Write("ctl")
    PROVE  LET o == op["ctl"]
               n == file.nodes[o.id]
               m == mem["ctl"].nodes[o.id]
           IN  /\ o \in Change /\ n \in Entry /\ m \in Entry
               /\ file' = [kind |-> "good", nodes |-> mem["ctl"].nodes, stamp |-> file.stamp + 1]
               /\ \A j \in Id \ {o.id} : file'.nodes[j] = file.nodes[j]
               /\ file'.nodes[o.id] = m
               /\ IF Adds(o) THEN n = Nobody /\ m = NewNode(secrets) ELSE Known(n)
               /\ o.kind = "rename" => m = n
               /\ o.kind = "revoke" => m = RevokedNode
               /\ o.kind = "rotate" => /\ m = Rotated(n, secrets) /\ n.secret < secrets
                                       /\ \A x \in retired : x.id = o.id => x.secret < secrets
               /\ m # Nobody
               /\ added' = added \cup Ids(mem["ctl"].nodes)
               /\ cut' = (IF o.kind = "revoke" THEN cut \cup {o.id} ELSE cut)
               /\ retired' = retired \cup Retire(o)
               /\ at["ctl"] = "write" /\ at' = [at EXCEPT !["ctl"] = "stat"]
               /\ UNCHANGED <<clock, mem, op, secrets>>
  <1> DEFINE o == op["ctl"]
             n == file.nodes[o.id]
             m == mem["ctl"].nodes[o.id]
  <1>1. /\ file' = [kind |-> "good", nodes |-> mem["ctl"].nodes, stamp |-> file.stamp + 1]
        /\ added' = added \cup Ids(mem["ctl"].nodes)
        /\ cut' = (IF o.kind = "revoke" THEN cut \cup {o.id} ELSE cut)
        /\ retired' = retired \cup Retire(o)
        /\ at["ctl"] = "write" /\ at' = [at EXCEPT !["ctl"] = "stat"]
        /\ UNCHANGED <<clock, mem, op, secrets>>
    BY DEF Write, Adds
  <1>2. o \in Change /\ o.id \in Id /\ o.kind \in Kind /\ secrets \in Nat
    BY DEF StoreType, Change, Proc
  <1>3. n \in Entry /\ m \in Entry
    BY <1>2 DEF StoreType, Copy, Proc
  <1>4. /\ \A j \in Id \ {o.id} : mem["ctl"].nodes[j] = file.nodes[j]
        /\ IF Adds(o) THEN n = Nobody /\ m = NewNode(secrets) ELSE Known(n)
        /\ o.kind = "rename" => m = n
        /\ o.kind = "revoke" => m = RevokedNode
        /\ o.kind = "rotate" => /\ m = Rotated(n, secrets) /\ n.secret < secrets
                                /\ \A x \in retired : x.id = o.id => x.secret < secrets
    BY <1>1 DEF CtlFits
  <1> HIDE DEF o, n, m
  <1>5. m # Nobody
    <2>1. CASE Adds(o)
      <3>1. NewNode(secrets) \in Node
        BY <1>2 DEF NewNode, Node, NoSecret
      <3> QED BY <1>4, <2>1, <3>1, Constants
    <2>2. CASE o.kind = "rotate"
      <3>1. n \in Node
        BY <1>3, <1>4, <2>2 DEF Adds, Known, Entry
      <3>2. Rotated(n, secrets) \in Node
        BY <1>2, <3>1, RotatedNode
      <3> QED BY <1>4, <2>2, <3>2, Constants
    <2>3. CASE o.kind \in {"rename", "revoke"}
      BY <1>4, <2>3, Constants DEF Adds, Known
    <2> QED BY <1>2, <2>1, <2>2, <2>3 DEF Kind, Adds
  <1>6. file'.nodes = mem["ctl"].nodes
    BY <1>1
  <1> QED BY <1>1, <1>2, <1>3, <1>4, <1>5, <1>6 DEF o, n, m

(* ... an addition, a rename or a revocation of servitals-ctl.             *)
LEMMA CtlEdits ==
    ASSUME StoreType, Steps, HubFits, CtlFits, FileFits, ~raced, Write("ctl"), op["ctl"].kind # "rotate"
    PROVE  retired' = retired /\ (\A x \in retired : Replaced(x)')
           /\ \A i \in Id : Known(file'.nodes[i]) /\ file'.nodes[i].old # NoSecret =>
                  file'.nodes[i] = file.nodes[i]
  <1> DEFINE o == op["ctl"]
             n == file.nodes[o.id]
             m == mem["ctl"].nodes[o.id]
  <1>1. /\ o \in Change
        /\ \A j \in Id \ {o.id} : file'.nodes[j] = file.nodes[j]
        /\ file'.nodes[o.id] = m
        /\ IF Adds(o) THEN n = Nobody /\ m = NewNode(secrets) ELSE Known(n)
        /\ o.kind = "rename" => m = n
        /\ o.kind = "revoke" => m = RevokedNode
        /\ retired' = retired \cup Retire(o)
        /\ UNCHANGED <<clock, secrets>>
    BY CtlWrites
  <1>2. retired' = retired
    BY <1>1 DEF Retire
  <1>3. o.kind \in Kind /\ o.id \in Id
    BY <1>1 DEF Change
  <1>4. ~Adds(o) => o.kind \in {"rename", "revoke"}
    BY <1>3 DEF Kind, Adds
  <1> HIDE DEF o, m
  <1>5. ASSUME NEW x \in retired PROVE Replaced(x)'
    <2>1. Replaced(x) /\ x.id \in Id
      BY DEF FileFits
    <2>2. file.nodes[x.id] # Nobody
      BY <2>1 DEF Replaced
    <2>3. file'.nodes[x.id] \in {file.nodes[x.id], RevokedNode}
      BY <1>1, <1>4, <2>1, <2>2
    <2> QED BY <1>1, <2>1, <2>3, Constants DEF Replaced
  <1>6. ASSUME NEW i \in Id, Known(file'.nodes[i]), file'.nodes[i].old # NoSecret
        PROVE  file'.nodes[i] = file.nodes[i]
    <2>1. NewNode(secrets).old = NoSecret
      BY DEF NewNode
    <2> QED BY <1>1, <1>4, <1>6, <2>1, Constants
  <1> QED BY <1>2, <1>5, <1>6

(* ... a rotation of servitals-ctl (rotate, nodes.js 110-124).  Within the *)
(* window of an older secret that one stays, and the secret in between is  *)
(* retired without grace; else it is the one with grace.                   *)
LEMMA CtlRotates ==
    ASSUME StoreType, Steps, HubFits, CtlFits, FileFits, ~raced, Write("ctl"), op["ctl"].kind = "rotate"
    PROVE  /\ retired' \in SUBSET [id : Id, secret : Nat, since : Nat, grace : BOOLEAN]
           /\ \A x \in retired' : Replaced(x)'
           /\ \A i \in Id : Known(file'.nodes[i]) /\ file'.nodes[i].old # NoSecret =>
                 \E x \in retired' : x.id = i /\ x.grace /\ x.secret = file'.nodes[i].old
                                     /\ x.since + Overlap = file'.nodes[i].until
  <1> DEFINE o == op["ctl"]
             i == o.id
             n == file.nodes[i]
             m == mem["ctl"].nodes[i]
             g == \A x \in retired : x.id = i /\ x.grace => x.since + Overlap <= clock
             y == [id |-> i, secret |-> n.secret, since |-> clock, grace |-> g]
             window == n.old # NoSecret /\ n.until > clock
  <1>1. /\ o \in Change /\ n \in Entry
        /\ \A j \in Id \ {i} : file'.nodes[j] = file.nodes[j]
        /\ file'.nodes[i] = m
        /\ IF Adds(o) THEN n = Nobody /\ m = NewNode(secrets) ELSE Known(n)
        /\ o.kind = "rotate" => /\ m = Rotated(n, secrets) /\ n.secret < secrets
                                /\ \A x \in retired : x.id = i => x.secret < secrets
        /\ retired' = retired \cup Retire(o)
        /\ UNCHANGED <<clock, secrets>>
    BY CtlWrites
  <1>2. retired' = retired \cup {y}
    BY <1>1 DEF Retire
  <1>3. i \in Id /\ secrets \in Nat /\ clock \in Nat /\ Overlap \in Nat
    BY <1>1, StoreBounds DEF Change, StoreType
  <1>4. Known(n) /\ n \in Node
    BY <1>1 DEF Adds, Known, Entry
  <1>5. /\ n.secret \in Nat /\ n.old \in Nat /\ n.until \in Nat /\ n.old < n.secret
        /\ n.secret < secrets /\ n.secret # NoSecret /\ n.secret <= secrets
    <2>1. n.secret \in Nat /\ n.old \in Nat /\ n.until \in Nat
      BY <1>4 DEF Node
    <2>2. n.old < n.secret /\ n.secret < secrets
      BY <1>1, <1>3, <1>4 DEF FileFits, Secrets
    <2> QED BY <1>3, <2>1, <2>2 DEF NoSecret
  <1>6. /\ m \in Node /\ m # Nobody /\ Known(m) /\ m.secret = secrets
        /\ window => m.old = n.old /\ m.until = n.until
        /\ ~window => m.old = n.secret /\ m.until = clock + Overlap
    <2>1. /\ Rotated(n, secrets) \in Node
          /\ Rotated(n, secrets).secret = secrets /\ Rotated(n, secrets).revoked = n.revoked
          /\ window => Rotated(n, secrets).old = n.old /\ Rotated(n, secrets).until = n.until
          /\ ~window => Rotated(n, secrets).old = n.secret /\ Rotated(n, secrets).until = clock + Overlap
      BY <1>3, <1>4, RotatedNode
    <2> HIDE DEF m, n
    <2> QED BY <1>1, <1>4, <2>1, Constants DEF Known
  <1>7. \A x \in retired : /\ Replaced(x) /\ x.id \in Id /\ x.secret \in Nat /\ x.since \in Nat
                           /\ x.id = i => x.secret < secrets /\ x.secret # secrets
    <2>1. \A x \in retired : Replaced(x) /\ x.id \in Id /\ x.secret \in Nat /\ x.since \in Nat
      BY DEF FileFits
    <2>2. \A x \in retired : x.id = i => x.secret < secrets
      BY <1>1
    <2> QED BY <1>3, <2>1, <2>2
  <1>8. g <=> ~window
    <2>1. ASSUME window PROVE ~g
      <3>1. PICK x \in retired : x.id = i /\ x.grace /\ x.secret = n.old /\ x.since + Overlap = n.until
        BY <1>3, <1>4, <2>1 DEF FileFits
      <3>2. ~(x.since + Overlap <= clock)
        BY <1>3, <1>5, <2>1, <3>1
      <3> QED BY <3>1, <3>2
    <2>2. ASSUME ~window PROVE g
      <3> SUFFICES ASSUME NEW x \in retired, x.id = i, x.grace, ~(x.since + Overlap <= clock)
                   PROVE  FALSE
        OBVIOUS
      <3>1. clock < x.since + Overlap /\ x.secret # NoSecret
        BY <1>3, <1>7 DEF Replaced
      <3>2. n.old = x.secret /\ n.until = x.since + Overlap
        BY <1>4, <1>7, <3>1 DEF Replaced
      <3> QED BY <1>3, <1>5, <2>2, <3>1, <3>2
    <2> QED BY <2>1, <2>2
  <1>9. y.id = i /\ y.secret = n.secret /\ y.since = clock /\ (y.grace <=> g)
        /\ y \in [id : Id, secret : Nat, since : Nat, grace : BOOLEAN]
    <2>1. g \in BOOLEAN
      OBVIOUS
    <2> HIDE DEF g, i, n
    <2> QED BY <1>3, <1>5, <2>1
  <1> HIDE DEF y, m, g, n
  <1>10. ASSUME NEW z, z = y PROVE Replaced(z)'
    <2>1. m.secret # y.secret
      BY <1>3, <1>5, <1>6, <1>9
    <2>2. m.old = y.secret => m.until <= y.since + Overlap
      <3>1. window => m.old # y.secret
        BY <1>5, <1>6, <1>9
      <3> QED BY <1>3, <1>6, <1>9, <3>1
    <2>3. y.grace => m.old = y.secret /\ m.until = y.since + Overlap
      BY <1>6, <1>8, <1>9
    <2> QED BY <1>1, <1>5, <1>6, <1>9, <1>10, <2>1, <2>2, <2>3 DEF Replaced
  <1>11. ASSUME NEW x \in retired PROVE Replaced(x)'
    <2>1. CASE x.id # i
      <3>1. file'.nodes[x.id] = file.nodes[x.id]
        BY <1>1, <1>7, <2>1
      <3> QED BY <1>1, <1>7, <3>1 DEF Replaced
    <2>2. CASE x.id = i
      <3>1. /\ n # Nobody /\ x.secret # NoSecret /\ x.secret <= secrets
            /\ n.secret # x.secret
            /\ n.old = x.secret => n.until <= x.since + Overlap
            /\ x.grace /\ clock < x.since + Overlap => n.old = x.secret /\ n.until = x.since + Overlap
        BY <1>4, <1>7, <2>2 DEF Replaced, n
      <3>2. m.secret # x.secret
        BY <1>6, <1>7, <2>2
      <3>3. m.old = x.secret => m.until <= x.since + Overlap
        BY <1>6, <3>1
      <3>4. x.grace /\ clock < x.since + Overlap => m.old = x.secret /\ m.until = x.since + Overlap
        <4>1. x.grace /\ clock < x.since + Overlap => window
          BY <1>3, <1>7, <3>1
        <4> QED BY <1>6, <3>1, <4>1
      <3> QED BY <1>1, <1>6, <2>2, <3>1, <3>2, <3>3, <3>4 DEF Replaced
    <2> QED BY <2>1, <2>2
  <1>12. ASSUME NEW j \in Id, Known(file'.nodes[j]), file'.nodes[j].old # NoSecret
         PROVE  \E x \in retired' : x.id = j /\ x.grace /\ x.secret = file'.nodes[j].old
                                   /\ x.since + Overlap = file'.nodes[j].until
    <2>1. CASE j # i
      <3>1. file'.nodes[j] = file.nodes[j]
        BY <1>1, <2>1
      <3> QED BY <1>2, <1>12, <3>1 DEF FileFits
    <2>2. CASE j = i /\ window
      <3>1. PICK x \in retired : x.id = i /\ x.grace /\ x.secret = n.old /\ x.since + Overlap = n.until
        BY <1>3, <1>4, <2>2 DEF FileFits, n
      <3> QED BY <1>1, <1>2, <1>6, <2>2, <3>1
    <2>3. CASE j = i /\ ~window
      BY <1>1, <1>2, <1>6, <1>8, <1>9, <2>3
    <2> QED BY <2>1, <2>2, <2>3
  <1>13. retired' \in SUBSET [id : Id, secret : Nat, since : Nat, grace : BOOLEAN]
    BY <1>2, <1>9 DEF FileFits
  <1> QED BY <1>2, <1>10, <1>11, <1>12, <1>13

(* ... by servitals-ctl, alone.                                            *)
LEMMA CtlWriteStep ==
    ASSUME StoreType, Steps, HubFits, CtlFits, FileFits, ~raced, Write("ctl")
    PROVE  HubFits' /\ CtlFits' /\ FileFits'
  <1> DEFINE o == op["ctl"]
             n == file.nodes[o.id]
             m == mem["ctl"].nodes[o.id]
  <1>1. /\ o \in Change
        /\ file' = [kind |-> "good", nodes |-> mem["ctl"].nodes, stamp |-> file.stamp + 1]
        /\ \A j \in Id \ {o.id} : file'.nodes[j] = file.nodes[j]
        /\ file'.nodes[o.id] = m /\ m # Nobody
        /\ IF Adds(o) THEN n = Nobody /\ m = NewNode(secrets) ELSE Known(n)
        /\ o.kind = "revoke" => m = RevokedNode
        /\ added' = added \cup Ids(mem["ctl"].nodes)
        /\ cut' = (IF o.kind = "revoke" THEN cut \cup {o.id} ELSE cut)
        /\ at["ctl"] = "write" /\ at' = [at EXCEPT !["ctl"] = "stat"]
        /\ UNCHANGED <<clock, mem, op, secrets>>
    BY CtlWrites
  <1>2. /\ file'.kind = "good" /\ file'.stamp = file.stamp + 1 /\ file.stamp \in Nat
        /\ file'.nodes = mem["ctl"].nodes
        /\ at'["ctl"] = "stat" /\ at'["hub"] = at["hub"] /\ ~Busy("hub")
    <2>1. ~Busy("hub")
      BY <1>1 DEF HubFits, Busy
    <2> QED BY <1>1, <2>1 DEF StoreType, Proc
  <1>3. CtlFits'
    BY <1>2 DEF CtlFits
  <1>4. HubFits'
    <2>1. \A q \in Proc : mem[q].seen <= file'.stamp /\ mem[q].seen # file'.stamp
      <3>1. \A q \in Proc : mem[q].seen \in Int /\ mem[q].seen <= file.stamp
        BY DEF StoreType, Copy, HubFits, NoFile
      <3> QED BY <1>2, <3>1
    <2>2. \A q \in Proc : Secrets(mem[q].nodes)'
      BY <1>1 DEF HubFits, Secrets
    <2> QED BY <1>1, <1>2, <2>1, <2>2 DEF HubFits, Busy, Proc
  <1>5. FileFits'
    <2>1. Secrets(file.nodes)'
      BY <1>1, <1>2 DEF HubFits, Secrets, Proc
    <2>2. added \subseteq Id /\ cut \subseteq Id /\ o.id \in Id
      BY <1>1 DEF StoreType, Change
    <2> HIDE DEF o, m
    <2>3. \A j \in added' : file'.nodes[j] # Nobody
      BY <1>1, <1>2, <2>2 DEF FileFits, Ids
    <2>4. \A j \in cut' : file'.nodes[j] = RevokedNode
      <3>1. o.id \notin cut
        BY <1>1, Constants DEF FileFits
      <3> QED BY <1>1, <2>2, <3>1 DEF FileFits
    <2>5. /\ retired' \in SUBSET [id : Id, secret : Nat, since : Nat, grace : BOOLEAN]
          /\ \A x \in retired' : Replaced(x)'
          /\ \A i \in Id : Known(file'.nodes[i]) /\ file'.nodes[i].old # NoSecret =>
                \E x \in retired' : x.id = i /\ x.grace /\ x.secret = file'.nodes[i].old
                                    /\ x.since + Overlap = file'.nodes[i].until
      <3>1. CASE op["ctl"].kind = "rotate"
        BY <3>1, CtlRotates
      <3>2. CASE op["ctl"].kind # "rotate"
        <4>1. retired' = retired /\ (\A x \in retired : Replaced(x)')
              /\ \A i \in Id : Known(file'.nodes[i]) /\ file'.nodes[i].old # NoSecret =>
                     file'.nodes[i] = file.nodes[i]
          BY <3>2, CtlEdits
        <4> QED BY <4>1 DEF FileFits
      <3> QED BY <3>1, <3>2
    <2> QED BY <1>2, <2>1, <2>3, <2>4, <2>5 DEF FileFits
  <1> QED BY <1>3, <1>4, <1>5

-----------------------------------------------------------------------------
(* Every step keeps the store's invariant.                                 *)
LEMMA StoreNext ==
    ASSUME StoreType, Steps, StoreInv, [Next]_vars
    PROVE  StoreInv'
  <1> SUFFICES ASSUME ~raced' PROVE HubFits' /\ CtlFits' /\ FileFits'
    BY DEF StoreInv
  <1>1. ASSUME NEW p \in Proc, NEW o \in Change, Begin(p, o), p = "hub" => o.kind # "rotate", p = "ctl" => o.kind # "local"
        PROVE  HubFits' /\ CtlFits' /\ FileFits'
    <2>1. ~raced
      BY <1>1 DEF Begin
    <2> QED BY <1>1, <2>1, BeginStep DEF StoreInv
  <1>2. ASSUME NEW p \in Proc, NEW o \in Asked(p), Begin(p, o) PROVE HubFits' /\ CtlFits' /\ FileFits'
    BY <1>1, <1>2, AskedChanges
  <1>3. ASSUME NEW r \in Req, NEW i \in Id, Approve(r, i) PROVE HubFits' /\ CtlFits' /\ FileFits'
    <2> DEFINE o == [kind |-> "link", id |-> i, req |-> r]
    <2>1. Begin("hub", o) /\ "hub" \in Proc /\ "hub" # "ctl"
      BY <1>3 DEF Approve, Proc
    <2>2. o \in Change /\ o.kind # "rotate"
      BY DEF Change, Kind
    <2> HIDE DEF o
    <2> QED BY <1>1, <2>1, <2>2
  <1>4. ASSUME NEW p \in Proc, Write(p) PROVE HubFits' /\ CtlFits' /\ FileFits'
    <2>1. ~raced
      BY <1>4 DEF Write
    <2> QED BY <1>4, <2>1, HubWrites, CtlWriteStep DEF StoreInv, Proc
  <1>5. ASSUME NEW p \in Proc, WriteFails(p) \/ Stat(p) \/ Stop(p) PROVE HubFits' /\ CtlFits' /\ FileFits'
    <2>1. ~raced
      BY <1>5 DEF WriteFails, Stat, Stop
    <2> QED BY <1>5, <2>1, WriteFailsStep, StatStep, StopStep DEF StoreInv
  <1>6. ASSUME Boot \/ Look PROVE HubFits' /\ CtlFits' /\ FileFits'
    <2>1. ~raced
      BY <1>6 DEF Boot, Look
    <2> QED BY <1>6, <2>1, ReadStep DEF StoreInv
  <1>7. ASSUME NEW kind \in {"bad", "good"}, HandEdit(kind) PROVE HubFits' /\ CtlFits' /\ FileFits'
    <2>1. ~raced
      BY <1>7 DEF HandEdit
    <2> QED BY <1>7, <2>1, HandEditStep DEF StoreInv
  <1>8. ASSUME StoreTick \/ UNCHANGED storeVars PROVE HubFits' /\ CtlFits' /\ FileFits'
    <2>1. ~raced
      BY <1>8 DEF StoreTick, storeVars
    <2> QED BY <1>8, <2>1, TimeStep DEF StoreInv
  <1>9. ASSUME NEW r \in Req, NEW arrives \in BOOLEAN,
               Start(r) \/ Poll(r, arrives) \/ PollUnanswered(r) \/ PollDies(r) \/ GiveUp(r) \/ Deny(r)
        PROVE  HubFits' /\ CtlFits' /\ FileFits'
    BY <1>8, <1>9 DEF Start, Poll, PollUnanswered, PollDies, GiveUp, Deny
  <1>10. ASSUME NEW r \in Req, Approved(r) \/ ApproveFails(r) PROVE HubFits' /\ CtlFits' /\ FileFits'
    BY <1>5, <1>10 DEF Approved, ApproveFails, Proc
  <1>11. ASSUME HubStops \/ Tick PROVE HubFits' /\ CtlFits' /\ FileFits'
    BY <1>5, <1>8, <1>11 DEF HubStops, Tick, Proc
  <1>12. CASE UNCHANGED vars
    BY <1>8, <1>12 DEF vars
  <1>13. CASE Next
    BY <1>2, <1>3, <1>4, <1>5, <1>6, <1>7, <1>9, <1>10, <1>11, <1>13 DEF Next, Proc
  <1> QED BY <1>12, <1>13

(* The first state.                                                        *)
LEMMA StoreFirst ==
    ASSUME Init
    PROVE  StoreInv
  <1>1. /\ at["hub"] = "down" /\ at["ctl"] = "idle" /\ \A p \in Proc : mem[p] = Fresh
        /\ file.kind = "none" /\ file.nodes = Fresh.nodes /\ file.stamp = 0
        /\ added = {} /\ cut = {} /\ retired = {}
    BY DEF Init, StoreInit, Proc
  <1>2. Secrets(Fresh.nodes) /\ \A i \in Id : Fresh.nodes[i] = Nobody
    BY Constants DEF Secrets
  <1>3. HubFits
    BY <1>1, <1>2, Constants DEF HubFits, Busy, Proc, NoFile
  <1>4. CtlFits
    BY <1>1 DEF CtlFits
  <1>5. FileFits
    BY <1>1, <1>2, Constants DEF FileFits
  <1> QED BY <1>3, <1>4, <1>5 DEF StoreInv

(* The store's invariant.                                                  *)
LEMMA StoreAlways == Spec => [](StoreType /\ StoreInv)
  <1>1. Init => StoreInv
    BY StoreFirst
  <1>2. StoreType /\ LinkType /\ LinkInv /\ StoreInv /\ [Next]_vars => StoreInv'
    BY StoreNext DEF LinkInv
  <1> QED BY <1>1, <1>2, LinkAlways, PTL DEF Spec

(* A node that was added stays in nodes.json, for any number of nodes,     *)
(* failed writes, stops and hand edits: what is written covers the file    *)
(* (nodes.js 18, 31-32, 55, 83; server.js 166).                            *)
THEOREM AddedNodesStay == Spec => []AddedStays
  <1>1. StoreType /\ StoreInv => AddedStays
    BY DEF StoreInv, FileFits, AddedStays
  <1> QED BY <1>1, StoreAlways, PTL

(* A revoked node is refused from then on, by this hub and by one that     *)
(* starts later: the file says so, and what the hub answers from covers    *)
(* the file (nodes.js 20-35, 103-109; servitals-ctl 310).                  *)
THEOREM RevokedStaysRevoked == Spec => []CutStaysCut
  <1>1. StoreType /\ StoreInv => CutStaysCut
    <2> SUFFICES ASSUME StoreType, StoreInv, ~raced, NEW i \in cut, at["hub"] # "down" PROVE ~Known(Seen[i])
      BY DEF CutStaysCut
    <2>1. file.nodes[i] = RevokedNode /\ i \in Id
      BY DEF StoreInv, FileFits, StoreType
    <2>2. Covers(Seen, file.nodes)
      BY SeenCovers DEF StoreInv
    <2> QED BY <2>1, <2>2, Constants DEF Covers
  <1> QED BY <1>1, StoreAlways, PTL

(* What the hub knows of a node that is in the file is what the file says. *)
LEMMA SeenIsFile ==
    ASSUME StoreType, StoreInv, ~raced, at["hub"] # "down", NEW x \in retired, Known(Seen[x.id])
    PROVE  Replaced(x) /\ Seen[x.id] = file.nodes[x.id]
           /\ x.since \in Nat /\ x.secret \in Nat /\ Seen[x.id] \in Node
  <1>1. Replaced(x) /\ x.id \in Id /\ x.since \in Nat /\ x.secret \in Nat
    BY DEF StoreInv, FileFits
  <1>2. Covers(Seen, file.nodes) /\ file.nodes[x.id] # Nobody
    BY <1>1, SeenCovers DEF StoreInv, Replaced
  <1>3. Seen[x.id] = file.nodes[x.id]
    BY <1>1, <1>2, Constants DEF Covers
  <1>4. file.nodes[x.id] \in Node
    BY <1>1, <1>2 DEF StoreType, Entry
  <1> QED BY <1>1, <1>3, <1>4

(* A secret works no longer than Overlap after a rotation replaced it, for *)
(* any number of rotations at any times: the node's secret is never one    *)
(* that was retired, and its old secret has the window of the first        *)
(* rotation (nodes.js 110-124; agentapi.js 154-156).                       *)
THEOREM RetiredSecretsEnd == Spec => []RetiredIsRefused
  <1>1. StoreType /\ StoreInv => RetiredIsRefused
    <2> SUFFICES ASSUME StoreType, StoreInv, ~raced, NEW x \in retired, Accepts(x.id, x.secret)
                 PROVE  clock < x.since + Overlap
      BY DEF RetiredIsRefused
    <2> DEFINE n == Seen[x.id]
    <2>1. at["hub"] # "down" /\ Known(n) /\ (x.secret = n.secret \/ (x.secret = n.old /\ n.until > clock))
      BY DEF Accepts
    <2>2. Replaced(x) /\ n = file.nodes[x.id] /\ x.since \in Nat /\ n \in Node
      BY <2>1, SeenIsFile
    <2> HIDE DEF n
    <2>3. x.secret = n.old /\ n.until > clock /\ n.until <= x.since + Overlap
      BY <2>1, <2>2 DEF Replaced
    <2>4. n.until \in Nat /\ clock \in Nat /\ Overlap \in Nat
      BY <2>2, StoreBounds DEF Node, StoreType
    <2> QED BY <2>2, <2>3, <2>4
  <1> QED BY <1>1, StoreAlways, PTL

(* The secret a server may still hold when its node is rotated works until *)
(* its window ends, for any number of rotations within it (nodes.js        *)
(* 115-119).                                                               *)
THEOREM GraceIsAlwaysKept == Spec => []GraceIsKept
  <1>1. StoreType /\ StoreInv => GraceIsKept
    <2> SUFFICES ASSUME StoreType, StoreInv, ~raced, NEW x \in retired, x.grace, clock < x.since + Overlap,
                        at["hub"] # "down", Known(Seen[x.id])
                 PROVE  Accepts(x.id, x.secret)
      BY DEF GraceIsKept
    <2> DEFINE n == Seen[x.id]
    <2>1. Replaced(x) /\ n = file.nodes[x.id] /\ x.since \in Nat
      BY SeenIsFile
    <2> HIDE DEF n
    <2>2. n.old = x.secret /\ n.until = x.since + Overlap
      BY <2>1 DEF Replaced, n
    <2>3. n.until > clock
      BY <2>1, <2>2, StoreBounds DEF StoreType
    <2> QED BY <2>2, <2>3 DEF Accepts, n
  <1> QED BY <1>1, StoreAlways, PTL
=============================================================================
