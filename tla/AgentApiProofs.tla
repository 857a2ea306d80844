--------------------------- MODULE AgentApiProofs ---------------------------
(***************************************************************************)
(* Theorems about the agent API, for any number of nodes and connections.  *)
(***************************************************************************)
EXTENDS AgentApi, FiniteSetTheorems, TLAPS

-----------------------------------------------------------------------------
(* The four kinds of connection.                                           *)

(* Reading, holding, answered and free connections have the type Conn.     *)
LEMMA ConnKinds ==
    /\ Free \in Conn
    /\ \A m \in Request, t \in Nat : Reading(m, t) \in Conn
    /\ \A n \in Node, due \in Nat : Waiting(n, due) \in Conn
    /\ \A n \in Node : Ended(n) \in Conn
  BY DEF Conn, Free, Reading, Waiting, Ended

(* What a connection carries follows from its phase.                       *)
LEMMA ConnFields ==
    ASSUME NEW c \in Conn
    PROVE  /\ c.phase = "reading" => c.req \in Request /\ c.hubMs \in Nat /\ c.secret \in BOOLEAN
           /\ c.phase \in {"waiting", "ended"} => c.node \in Node
           /\ c.phase = "waiting" => c.due \in Nat
  BY DEF Conn, Free

-----------------------------------------------------------------------------
(* Type correctness, part by part.                                         *)

FailType == failures \in [Client -> [n : 0 .. FailLimit, until : Nat]] /\ failLog \in [Client -> Seq(Nat)]

(* A failure leaves counters and log well formed (failed, agentapi.js      *)
(* 78-84).                                                                 *)
LEMMA FailedType ==
    ASSUME TypeOK, NEW c \in Client, NEW real \in Client, Failed(c, real)
    PROVE  FailType'
  <1>1. Count(failures[c]) \in [n : 0 .. FailLimit, until : Nat]
    <2>1. failures[c] \in [n : 0 .. FailLimit, until : Nat] /\ clock \in Nat
      BY DEF TypeOK
    <2>2. FailLimit \in Nat \ {0} /\ clock + FailWindow \in Nat
      BY <2>1, NumbersAssumption
    <2> QED BY <2>1, <2>2 DEF Count
  <1>2. NoFailures \in [n : 0 .. FailLimit, until : Nat]
    BY NumbersAssumption DEF NoFailures
  <1>3. failures' \in [Client -> [n : 0 .. FailLimit, until : Nat]]
    <2> DEFINE counted == [failures EXCEPT ![c] = Count(@)]
    <2>1. counted \in [Client -> [n : 0 .. FailLimit, until : Nat]]
      BY <1>1 DEF TypeOK
    <2>2. failures' = Bounded(counted, c)
      BY DEF Failed
    <2> HIDE DEF counted
    <2> QED BY <2>1, <2>2, <1>2 DEF Bounded
  <1>4. failLog' \in [Client -> Seq(Nat)]
    <2>1. failLog[real] \in Seq(Nat) /\ clock \in Nat
      BY DEF TypeOK
    <2> DEFINE l == Append(failLog[real], clock)
    <2>2. l \in Seq(Nat) /\ l # << >>
      BY <2>1
    <2>3. Tail(l) \in Seq(Nat)
      <3> HIDE DEF l
      <3> QED BY <2>2
    <2>4. failLog' = [failLog EXCEPT ![real] = IF Len(l) > FailLimit THEN Tail(l) ELSE l]
      BY DEF Failed
    <2> HIDE DEF l
    <2> QED BY <2>2, <2>3, <2>4 DEF TypeOK
  <1> QED BY <1>3, <1>4 DEF FailType

(* Accepting a TS keeps the stamps natural numbers (acceptTs, agentapi.js  *)
(* 71-76).                                                                 *)
LEMMA AcceptTsType ==
    ASSUME TypeOK, NEW m \in Request, AcceptTs(m)
    PROVE  lastTs' \in [Stamp -> Nat] /\ diskTs' \in [Stamp -> Nat] /\ newest' \in [Stamp -> Nat]
  <1>1. m.ts \in Nat /\ StampOf(m) \in Stamp
    BY DEF Request, StampOf, Stamp
  <1>2. lastTs' \in [Stamp -> Nat] /\ newest' \in [Stamp -> Nat]
    BY <1>1 DEF AcceptTs, TypeOK
  <1>3. diskTs' \in [Stamp -> Nat]
    BY <1>2 DEF AcceptTs, TypeOK
  <1> QED BY <1>2, <1>3

OutcomeType == outcome \in {Nothing, Refused} \cup {Slowed(c) : c \in Client}
                          \cup [kind : {"accepted"}, node : Node, endpoint : {"push", "wait"}, ts : Nat]

(* Answering a wait and putting a new one in its place give connections    *)
(* (finishWait and the end of handle, agentapi.js 105-109, 187-191).       *)
LEMMA ReplaceType ==
    ASSUME TypeOK, HeldIsFound, NEW s \in Slot, NEW n \in Node, NEW due \in Nat
    PROVE  Replace(s, n, due) \in [Slot -> Conn]
  <1>1. waiters[n] # NoSlot => waiters[n] \in Slot /\ conn[waiters[n]].node \in Node
    BY ConnFields DEF TypeOK, HeldIsFound
  <1>2. (IF waiters[n] = NoSlot THEN conn ELSE Answer(conn, waiters[n])) \in [Slot -> Conn]
    BY <1>1, ConnKinds DEF Answer, TypeOK
  <1> QED BY <1>2, ConnKinds DEF Replace

-----------------------------------------------------------------------------
(* The inductive invariant.  Types alone are not inductive: a wait that    *)
(* takes the place of another answers it, and only HeldIsFound says that   *)
(* there is a held wait to answer.                                         *)
IInv == TypeOK /\ HeldIsFound

(* A step that touches no connection but s, and gives s a new phase, keeps *)
(* HeldIsFound if the waiters follow: this is the whole argument for the   *)
(* steps that end a wait (finishWait and the close handler).               *)
LEMMA LetGo ==
    ASSUME IInv, NEW s \in Slot, conn[s].phase \in {"waiting", "ended"},
           NEW c, c.phase # "waiting",
           conn' = [conn EXCEPT ![s] = c],
           waiters' = [waiters EXCEPT ![conn[s].node] = IF @ = s THEN NoSlot ELSE @]
    PROVE  HeldIsFound'
  <1> SUFFICES ASSUME NEW n \in Node, NEW x \in Slot
               PROVE  waiters'[n] = x <=> conn'[x].phase = "waiting" /\ conn'[x].node = n
    BY DEF HeldIsFound
  <1>1. waiters[n] = x <=> conn[x].phase = "waiting" /\ conn[x].node = n
    BY DEF IInv, HeldIsFound
  <1>2. waiters[n] = s <=> conn[s].phase = "waiting" /\ conn[s].node = n
    BY DEF IInv, HeldIsFound
  <1>3. conn[s].node \in Node
    BY ConnFields DEF IInv, TypeOK
  <1>4. conn'[x] = IF x = s THEN c ELSE conn[x]
    BY DEF IInv, TypeOK
  <1>5. waiters'[n] = IF n = conn[s].node /\ waiters[n] = s THEN NoSlot ELSE waiters[n]
    BY <1>3 DEF IInv, TypeOK
  <1>6. x # NoSlot
    BY SetsAssumption
  <1> QED BY <1>1, <1>2, <1>4, <1>5, <1>6

(* A step of a connection that holds no wait before or after leaves        *)
(* HeldIsFound alone.                                                      *)
LEMMA NotWaiting ==
    ASSUME IInv, NEW s \in Slot, conn[s].phase # "waiting",
           NEW c, c.phase # "waiting",
           conn' = [conn EXCEPT ![s] = c], UNCHANGED waiters
    PROVE  HeldIsFound'
  <1> SUFFICES ASSUME NEW n \in Node, NEW x \in Slot
               PROVE  waiters'[n] = x <=> conn'[x].phase = "waiting" /\ conn'[x].node = n
    BY DEF HeldIsFound
  <1>1. waiters[n] = x <=> conn[x].phase = "waiting" /\ conn[x].node = n
    BY DEF IInv, HeldIsFound
  <1>2. conn'[x] = IF x = s THEN c ELSE conn[x]
    BY DEF IInv, TypeOK
  <1> QED BY <1>1, <1>2

(* Waits: held, answered, closed.                                          *)
LEMMA WaitSteps ==
    ASSUME IInv
    PROVE  /\ \A s \in Slot, hold \in Holds : WaitHeld(s, hold) => HeldIsFound'
           /\ \A s \in Slot : Timeout(s) \/ Close(s) => HeldIsFound'
           /\ \A n \in Node : Wake(n) => HeldIsFound'
           /\ Shutdown => HeldIsFound'
  <1>1. ASSUME NEW s \in Slot, NEW hold \in Holds, WaitHeld(s, hold) PROVE HeldIsFound'
    <2> DEFINE m == conn[s].req
               due == clock + hold
    <2>1. conn[s].phase = "reading" /\ m.node \in Node
      BY <1>1, ConnFields DEF WaitHeld, Signed, IInv, TypeOK, Request
    <2>2. /\ conn' = Replace(s, m.node, due)
          /\ waiters' = [waiters EXCEPT ![m.node] = s]
      BY <1>1 DEF WaitHeld
    <2> SUFFICES ASSUME NEW n \in Node, NEW x \in Slot
                 PROVE  waiters'[n] = x <=> conn'[x].phase = "waiting" /\ conn'[x].node = n
      BY DEF HeldIsFound
    <2>3. /\ waiters[n] = x <=> conn[x].phase = "waiting" /\ conn[x].node = n
          /\ waiters[n] = s <=> conn[s].phase = "waiting" /\ conn[s].node = n
          /\ waiters[m.node] = x <=> conn[x].phase = "waiting" /\ conn[x].node = m.node
          /\ waiters[m.node] = s <=> conn[s].phase = "waiting" /\ conn[s].node = m.node
      BY <2>1 DEF IInv, HeldIsFound
    <2>4. waiters'[n] = IF n = m.node THEN s ELSE waiters[n]
      BY <2>1, <2>2 DEF IInv, TypeOK
    <2>5. conn'[x] = IF x = s THEN Waiting(m.node, due)
                     ELSE IF x = waiters[m.node] THEN Ended(conn[x].node) ELSE conn[x]
      <3> HIDE DEF m, due
      <3> QED BY <2>1, <2>2, SetsAssumption DEF Replace, Answer, IInv, TypeOK
    <2>6. /\ Waiting(m.node, due).phase = "waiting" /\ Waiting(m.node, due).node = m.node
          /\ Ended(conn[x].node).phase = "ended"
      BY DEF Waiting, Ended
    <2> HIDE DEF m, due
    <2> QED BY <2>1, <2>3, <2>4, <2>5, <2>6
  <1>2. ASSUME NEW s \in Slot, Timeout(s) PROVE HeldIsFound'
    <2>1. Ended(conn[s].node).phase # "waiting"
      BY DEF Ended
    <2> QED BY <1>2, <2>1, LetGo DEF Timeout, Answer
  <1>3. ASSUME NEW s \in Slot, Close(s) PROVE HeldIsFound'
    <2>1. Free.phase # "waiting"
      BY DEF Free
    <2> QED BY <1>3, <2>1, LetGo DEF Close
  <1>4. ASSUME NEW n \in Node, Wake(n) PROVE HeldIsFound'
    <2> DEFINE s == waiters[n]
    <2>1. s \in Slot /\ conn[s].phase = "waiting" /\ conn[s].node = n
      BY <1>4 DEF Wake, IInv, TypeOK, HeldIsFound
    <2>2. Ended(conn[s].node).phase # "waiting"
      BY DEF Ended
    <2>3. waiters' = [waiters EXCEPT ![conn[s].node] = IF @ = s THEN NoSlot ELSE @]
      BY <1>4, <2>1 DEF Wake, IInv, TypeOK
    <2> QED BY <1>4, <2>1, <2>2, <2>3, LetGo DEF Wake, Answer
  <1>5. ASSUME Shutdown PROVE HeldIsFound'
    <2> SUFFICES ASSUME NEW n \in Node, NEW x \in Slot
                 PROVE  waiters'[n] = x <=> conn'[x].phase = "waiting" /\ conn'[x].node = n
      BY DEF HeldIsFound
    <2>1. waiters'[n] = NoSlot /\ x # NoSlot
      BY <1>5, SetsAssumption DEF Shutdown
    <2>2. conn'[x] = IF \E k \in Node : waiters[k] = x THEN Ended(conn[x].node) ELSE conn[x]
      BY <1>5 DEF Shutdown
    <2>3. ASSUME conn[x].phase = "waiting" PROVE \E k \in Node : waiters[k] = x
      <3>1. conn[x].node \in Node
        BY <2>3, ConnFields DEF IInv, TypeOK
      <3>2. waiters[conn[x].node] = x
        BY <2>3, <3>1 DEF IInv, HeldIsFound
      <3> QED BY <3>1, <3>2
    <2>4. Ended(conn[x].node).phase = "ended"
      BY DEF Ended
    <2> QED BY <2>1, <2>2, <2>3, <2>4
  <1> QED BY <1>1, <1>2, <1>3, <1>4, <1>5

(* Every step keeps HeldIsFound.                                           *)
LEMMA HeldStep ==
    ASSUME IInv, [Next]_vars
    PROVE  HeldIsFound'
  <1>0. Free.phase # "waiting"
    BY DEF Free
  <1>1. ASSUME UNCHANGED <<conn, waiters>> PROVE HeldIsFound'
    BY <1>1 DEF IInv, HeldIsFound
  <1>2. ASSUME NEW s \in Slot, NEW m \in sent, Arrive(s, m) PROVE HeldIsFound'
    <2>1. Reading(m, clock).phase # "waiting" /\ conn[s].phase # "waiting"
      BY <1>2 DEF Reading, Arrive, Free
    <2> QED BY <1>2, <2>1, NotWaiting DEF Arrive, nodeVars
  <1>3. ASSUME NEW s \in Slot, Broken(s) \/ BadSignature(s) \/ PushRefused(s) \/ PushStored(s)
        PROVE  HeldIsFound'
    <2>1. /\ conn[s].phase = "reading"
          /\ conn' = [conn EXCEPT ![s] = Free]
          /\ UNCHANGED waiters
      BY <1>3 DEF Broken, BadSignature, PushRefused, PushStored, Signed, nodeVars
    <2> QED BY <1>0, <2>1, NotWaiting
  <1>4. ASSUME Restart PROVE HeldIsFound'
    BY <1>4, <1>0, SetsAssumption DEF Restart, HeldIsFound
  <1>5. ASSUME NEW n \in Node, RevokeFromPage(n) PROVE HeldIsFound'
    <2> SUFFICES ASSUME NEW k \in Node, NEW x \in Slot
                 PROVE  waiters'[k] = x <=> conn'[x].phase = "waiting" /\ conn'[x].node = k
      BY DEF HeldIsFound
    <2>1. waiters[k] = x <=> conn[x].phase = "waiting" /\ conn[x].node = k
      BY DEF IInv, HeldIsFound
    <2>2. waiters' = waiters
      BY <1>5 DEF RevokeFromPage, nodeVars
    <2>3. CASE conn[x].phase = "reading" /\ conn[x].req.node = n
      <3>1. conn'[x] = [conn[x] EXCEPT !.secret = FALSE]
        BY <1>5, <2>3 DEF RevokeFromPage
      <3>2. conn[x] \in [phase : {"reading"}, req : Request, hubMs : Nat, secret : BOOLEAN]
        BY <2>3 DEF IInv, TypeOK, Conn, Free
      <3>3. conn'[x].phase = "reading"
        BY <3>1, <3>2
      <3> QED BY <2>1, <2>2, <2>3, <3>3
    <2>4. CASE ~(conn[x].phase = "reading" /\ conn[x].req.node = n)
      <3>1. conn'[x] = conn[x]
        BY <1>5, <2>4 DEF RevokeFromPage
      <3> QED BY <2>1, <2>2, <3>1
    <2> QED BY <2>3, <2>4
  <1>6. ASSUME \/ \E n \in Node, e \in Endpoints, d \in Drifts, g \in Grades : Send(n, e, d, g)
               \/ \E s \in Slot, m \in sent : Refuse(s, m)
               \/ \E n \in Node : RevokeFromCtl(n)
               \/ Tick
               \/ UNCHANGED vars
        PROVE  UNCHANGED <<conn, waiters>>
    BY <1>6 DEF Send, Refuse, RevokeFromCtl, Tick, vars, nodeVars
  <1> QED BY <1>1, <1>2, <1>3, <1>4, <1>5, <1>6, WaitSteps DEF Next

(* Every step keeps the types.                                             *)
LEMMA TypeStep ==
    ASSUME IInv, [Next]_vars
    PROVE  TypeOK'
  <1>0. TypeOK /\ HeldIsFound
    BY DEF IInv
  <1>1. Nothing \in {Nothing, Refused} /\ Refused \in {Nothing, Refused}
    OBVIOUS
  <1>2. ASSUME NEW n \in Node, NEW e \in Endpoints, NEW d \in Drifts, NEW g \in Grades, Send(n, e, d, g)
        PROVE  TypeOK'
    <2>1. [node |-> n, endpoint |-> e, ts |-> clock + d, grade |-> g] \in Request
      BY <1>0, SetsAssumption, NumbersAssumption DEF Request, TypeOK
    <2>2. sent' \subseteq Request
      BY <1>0, <1>2, <2>1 DEF Send, TypeOK
    <2> QED BY <1>0, <1>2, <2>2 DEF Send, TypeOK, replayVars, nodeVars, failVars
  <1>3. ASSUME NEW s \in Slot, NEW m \in sent, Refuse(s, m) PROVE TypeOK'
    <2>1. m.node \in Node /\ Who(m.node) \in Client /\ m.node \in Client /\ Anyone \in Client
      BY <1>0 DEF TypeOK, Request, Who, Client
    <2>2. FailType'
      <3>1. CASE UNCHANGED failVars
        BY <1>0, <3>1 DEF TypeOK, FailType, failVars
      <3>2. CASE \E real \in Client : Failed(Who(m.node), real)
        BY <1>0, <2>1, <3>2, FailedType
      <3> QED BY <1>3, <2>1, <3>1, <3>2 DEF Refuse, Unknown, SlowedDown, ClockSkew, ReplayOrLarge
    <2>3. OutcomeType'
      <3>1. outcome' \in {Refused, Slowed(Anyone), Slowed(m.node)}
        BY <1>3 DEF Refuse, Unknown, SlowedDown, ClockSkew, ReplayOrLarge
      <3> QED BY <2>1, <3>1 DEF OutcomeType
    <2> QED BY <1>0, <1>3, <2>2, <2>3 DEF Refuse, TypeOK, FailType, OutcomeType, replayVars, nodeVars
  <1>4. ASSUME NEW s \in Slot, NEW m \in sent, Arrive(s, m) PROVE TypeOK'
    <2>1. conn' \in [Slot -> Conn]
      BY <1>0, <1>4, ConnKinds DEF Arrive, TypeOK
    <2> QED BY <1>0, <1>4, <2>1 DEF Arrive, TypeOK, replayVars, nodeVars, failVars
  <1>5. ASSUME NEW s \in Slot, conn' = [conn EXCEPT ![s] = Free] PROVE conn' \in [Slot -> Conn]
    BY <1>0, <1>5, ConnKinds DEF TypeOK
  <1>6. ASSUME NEW s \in Slot, Broken(s) \/ PushRefused(s) PROVE TypeOK'
    <2>1. conn' \in [Slot -> Conn]
      BY <1>5, <1>6 DEF Broken, PushRefused
    <2> QED BY <1>0, <1>6, <2>1 DEF Broken, PushRefused, TypeOK, replayVars, nodeVars, failVars
  <1>7. ASSUME NEW s \in Slot, BadSignature(s) PROVE TypeOK'
    <2>1. conn' \in [Slot -> Conn]
      BY <1>5, <1>7 DEF BadSignature
    <2>2. conn[s].req.node \in Client
      BY <1>0, <1>7, ConnFields DEF BadSignature, TypeOK, Request, Client
    <2>3. FailType'
      BY <1>0, <1>7, <2>2, FailedType DEF BadSignature
    <2> QED BY <1>0, <1>7, <2>1, <2>3 DEF BadSignature, TypeOK, FailType, replayVars, nodeVars
  <1>8. ASSUME NEW m \in Request PROVE Accepted(m) \in [kind : {"accepted"}, node : Node,
                                                    endpoint : {"push", "wait"}, ts : Nat]
    BY DEF Accepted, Request
  <1>9. ASSUME NEW s \in Slot, PushStored(s) PROVE TypeOK'
    <2>1. conn[s].req \in Request /\ conn[s].hubMs \in Nat /\ conn[s].req.node \in Node
      BY <1>0, <1>9, ConnFields DEF PushStored, Signed, TypeOK, Request
    <2>2. lastTs' \in [Stamp -> Nat] /\ diskTs' \in [Stamp -> Nat] /\ newest' \in [Stamp -> Nat]
      BY <1>0, <1>9, <2>1, AcceptTsType DEF PushStored
    <2>3. conn' \in [Slot -> Conn] /\ lastPush' \in [Node -> Nat]
      BY <1>0, <1>5, <1>9, <2>1 DEF PushStored, TypeOK
    <2>4. OutcomeType'
      BY <1>8, <1>9, <2>1 DEF PushStored, OutcomeType
    <2> QED BY <1>0, <1>9, <2>2, <2>3, <2>4 DEF PushStored, TypeOK, OutcomeType, failVars
  <1>10. ASSUME NEW s \in Slot, NEW hold \in Holds, WaitHeld(s, hold) PROVE TypeOK'
    <2>1. conn[s].req \in Request /\ conn[s].req.node \in Node /\ clock + hold \in Nat
      BY <1>0, <1>10, ConnFields, NumbersAssumption DEF WaitHeld, Signed, TypeOK, Request
    <2>2. lastTs' \in [Stamp -> Nat] /\ diskTs' \in [Stamp -> Nat] /\ newest' \in [Stamp -> Nat]
      BY <1>0, <1>10, <2>1, AcceptTsType DEF WaitHeld
    <2>3. conn' \in [Slot -> Conn]
      BY <1>0, <1>10, <2>1, ReplaceType DEF WaitHeld
    <2>4. waiters' \in [Node -> Slot \cup {NoSlot}]
      BY <1>0, <1>10, <2>1 DEF WaitHeld, TypeOK
    <2>5. OutcomeType'
      BY <1>8, <1>10, <2>1 DEF WaitHeld, OutcomeType
    <2> QED BY <1>0, <1>10, <2>2, <2>3, <2>4, <2>5 DEF WaitHeld, TypeOK, OutcomeType, failVars
  <1>11. ASSUME NEW s \in Slot, Timeout(s) \/ Close(s) PROVE TypeOK'
    <2>1. conn[s].node \in Node
      BY <1>0, <1>11, ConnFields DEF Timeout, Close, TypeOK
    <2>2. conn' \in [Slot -> Conn]
      BY <1>0, <1>11, <2>1, ConnKinds DEF Timeout, Close, Answer, TypeOK
    <2>3. waiters' \in [Node -> Slot \cup {NoSlot}]
      BY <1>0, <1>11 DEF Timeout, Close, TypeOK
    <2> QED BY <1>0, <1>11, <2>2, <2>3 DEF Timeout, Close, TypeOK, replayVars, failVars
  <1>12. ASSUME NEW n \in Node, Wake(n) PROVE TypeOK'
    <2>1. waiters[n] \in Slot /\ conn[waiters[n]].node \in Node
      BY <1>0, <1>12 DEF Wake, TypeOK, HeldIsFound
    <2>2. conn' \in [Slot -> Conn]
      BY <1>0, <1>12, <2>1, ConnKinds DEF Wake, Answer, TypeOK
    <2>3. waiters' \in [Node -> Slot \cup {NoSlot}] /\ lastWake' \in [Node -> Nat]
      BY <1>0, <1>12 DEF Wake, TypeOK
    <2> QED BY <1>0, <1>12, <2>2, <2>3 DEF Wake, TypeOK, replayVars, failVars
  <1>13. ASSUME Shutdown PROVE TypeOK'
    <2>1. ASSUME NEW s \in Slot, NEW n \in Node, waiters[n] = s PROVE conn[s].node \in Node
      BY <1>0, <2>1 DEF HeldIsFound
    <2>2. conn' \in [Slot -> Conn]
      BY <1>0, <1>13, <2>1, ConnKinds DEF Shutdown, TypeOK
    <2> QED BY <1>0, <1>13, <2>2 DEF Shutdown, TypeOK, replayVars, failVars
  <1>14. ASSUME Restart PROVE TypeOK'
    <2>1. NoFailures \in [n : 0 .. FailLimit, until : Nat]
      BY NumbersAssumption DEF NoFailures
    <2> QED BY <1>0, <1>14, <2>1, ConnKinds DEF Restart, TypeOK
  <1>15. ASSUME NEW n \in Node, RevokeFromPage(n) PROVE TypeOK'
    <2>1. ASSUME NEW s \in Slot PROVE conn'[s] \in Conn
      <3>1. CASE conn[s].phase = "reading" /\ conn[s].req.node = n
        <4>1. conn'[s] = [conn[s] EXCEPT !.secret = FALSE]
          BY <1>15, <3>1 DEF RevokeFromPage
        <4>2. conn[s] \in [phase : {"reading"}, req : Request, hubMs : Nat, secret : BOOLEAN]
          BY <1>0, <3>1 DEF TypeOK, Conn, Free
        <4> QED BY <4>1, <4>2 DEF Conn
      <3>2. CASE ~(conn[s].phase = "reading" /\ conn[s].req.node = n)
        BY <1>0, <1>15, <3>2 DEF RevokeFromPage, TypeOK
      <3> QED BY <3>1, <3>2
    <2>2. conn' \in [Slot -> Conn]
      BY <1>15, <2>1 DEF RevokeFromPage
    <2> QED BY <1>0, <1>15, <2>2 DEF RevokeFromPage, TypeOK, replayVars, nodeVars, failVars
  <1>16. ASSUME NEW n \in Node, RevokeFromCtl(n) PROVE TypeOK'
    BY <1>0, <1>16 DEF RevokeFromCtl, TypeOK, replayVars, nodeVars, failVars
  <1>17. ASSUME Tick PROVE TypeOK'
    BY <1>0, <1>17 DEF Tick, TypeOK, replayVars, nodeVars, failVars
  <1>18. ASSUME UNCHANGED vars PROVE TypeOK'
    BY <1>0, <1>18 DEF TypeOK, vars, replayVars, nodeVars, failVars
  <1> QED BY <1>2, <1>3, <1>4, <1>6, <1>7, <1>9, <1>10, <1>11, <1>12, <1>13, <1>14, <1>15, <1>16,
             <1>17, <1>18 DEF Next

(* For any number of nodes and connections, under lost, duplicated and     *)
(* reordered requests, clients that go away, wakes, shutdowns and          *)
(* restarts: the wait a wake would find is exactly the one the hub holds   *)
(* for the node, so a node has at most one and none is held out of reach.  *)
THEOREM HeldCorrect == Spec => [](TypeOK /\ HeldIsFound)
  <1>1. Init => IInv
    <2> SUFFICES ASSUME Init PROVE IInv
      OBVIOUS
    <2>1. TypeOK
      <3>1. NoFailures \in [n : 0 .. FailLimit, until : Nat]
        BY NumbersAssumption DEF NoFailures
      <3> QED BY <3>1, ConnKinds, NumbersAssumption DEF Init, TypeOK
    <2>2. HeldIsFound
      BY SetsAssumption DEF Init, HeldIsFound, Free
    <2> QED BY <2>1, <2>2 DEF IInv
  <1>2. IInv /\ [Next]_vars => IInv'
    BY HeldStep, TypeStep DEF IInv
  <1> QED BY <1>1, <1>2, PTL DEF Spec, IInv

(* The state of the hub has its type, for any number of nodes, connections *)
(* and requests, in any order (agentapi.js).                               *)
THEOREM TypesCorrect == Spec => []TypeOK
  BY HeldCorrect, PTL

-----------------------------------------------------------------------------
(* Revocation and replay, as seen when a request is accepted.              *)

(* A request is accepted by the step that ends the reading of its body.    *)
LEMMA AcceptingSteps ==
    ASSUME Next, outcome'.kind = "accepted"
    PROVE  \E s \in Slot : /\ Signed(s)
                          /\ outcome' = Accepted(conn[s].req)
                          /\ AcceptTs(conn[s].req)
  <1>1. ASSUME NEW s \in Slot, PushStored(s) \/ \E hold \in Holds : WaitHeld(s, hold)
        PROVE  Signed(s) /\ outcome' = Accepted(conn[s].req) /\ AcceptTs(conn[s].req)
    BY <1>1 DEF PushStored, WaitHeld
  <1>2. ASSUME NEW s \in Slot, NEW m \in sent, Refuse(s, m) PROVE outcome'.kind # "accepted"
    BY <1>2 DEF Refuse, Unknown, SlowedDown, ClockSkew, ReplayOrLarge, Refused, Slowed
  <1>3. outcome' \in {Nothing, Refused} => outcome'.kind # "accepted"
    BY DEF Nothing, Refused
  <1> QED BY <1>1, <1>2, <1>3 DEF Next, Send, Arrive, Broken, BadSignature, PushRefused, Timeout,
             Wake, Close, Shutdown, Restart, RevokeFromPage, RevokeFromCtl, Tick

Kept(s) == /\ conn[s].phase = "reading" /\ conn'[s].req = conn[s].req
           /\ conn'[s].secret => conn[s].secret

(* A body being read after a step was being read before, for the same      *)
(* request, or its request has just arrived.                               *)
LEMMA ReadingSteps ==
    ASSUME IInv, [Next]_vars, NEW s \in Slot, conn'[s].phase = "reading"
    PROVE  Kept(s) \/ \E m \in sent : Arrive(s, m) /\ conn'[s].req = m
  <1>0. conn \in [Slot -> Conn]
    BY DEF IInv, TypeOK
  <1>1. ASSUME UNCHANGED conn PROVE Kept(s)
    BY <1>1 DEF Kept
  <1>2. ASSUME NEW x \in Slot, NEW c, c.phase # "reading", conn' = [conn EXCEPT ![x] = c]
        PROVE  Kept(s)
    BY <1>0, <1>2 DEF Kept
  <1>3. Free.phase # "reading" /\ \A n : Ended(n).phase # "reading"
    BY DEF Free, Ended
  <1>4. ASSUME NEW x \in Slot, NEW m \in sent, Arrive(x, m)
        PROVE  Kept(s) \/ (Arrive(s, m) /\ conn'[s].req = m)
    <2>1. CASE x = s
      BY <1>0, <1>4, <2>1 DEF Arrive, Reading
    <2>2. CASE x # s
      BY <1>0, <1>4, <2>2 DEF Arrive, Kept
    <2> QED BY <2>1, <2>2
  <1>5. ASSUME NEW x \in Slot, \/ Broken(x) \/ BadSignature(x) \/ PushRefused(x) \/ PushStored(x)
                                \/ Close(x)
        PROVE  Kept(s)
    BY <1>2, <1>3, <1>5 DEF Broken, BadSignature, PushRefused, PushStored, Close
  <1>6. ASSUME NEW x \in Slot, Timeout(x) PROVE Kept(s)
    BY <1>2, <1>3, <1>6 DEF Timeout, Answer
  <1>7. ASSUME NEW n \in Node, Wake(n) PROVE Kept(s)
    <2>1. waiters[n] \in Slot
      BY <1>7 DEF Wake, IInv, TypeOK
    <2> QED BY <1>2, <1>3, <1>7, <2>1 DEF Wake, Answer
  <1>8. ASSUME NEW x \in Slot, NEW hold \in Holds, WaitHeld(x, hold) PROVE Kept(s)
    <2> DEFINE n == conn[x].req.node
               due == clock + hold
    <2>1. n \in Node
      BY <1>0, <1>8, ConnFields DEF WaitHeld, Signed, Request
    <2>2. conn' = Replace(x, n, due)
      BY <1>8 DEF WaitHeld
    <2>3. Waiting(n, due).phase # "reading"
      BY DEF Waiting
    <2>4. waiters[n] \in Slot \cup {NoSlot}
      BY <2>1 DEF IInv, TypeOK
    <2> HIDE DEF n, due
    <2>5. s # x /\ s # waiters[n]
      BY <1>0, <1>3, <2>2, <2>3, <2>4, SetsAssumption DEF Replace, Answer
    <2>6. conn'[s] = conn[s]
      BY <1>0, <2>2, <2>5 DEF Replace, Answer
    <2> QED BY <2>6 DEF Kept
  <1>9. ASSUME Shutdown PROVE Kept(s)
    BY <1>0, <1>3, <1>9 DEF Shutdown, Kept
  <1>10. ASSUME Restart PROVE FALSE
    BY <1>3, <1>10 DEF Restart
  <1>11. ASSUME NEW n \in Node, RevokeFromPage(n) PROVE Kept(s)
    <2>1. CASE conn[s].phase = "reading" /\ conn[s].req.node = n
      <3>1. conn'[s] = [conn[s] EXCEPT !.secret = FALSE]
        BY <1>11, <2>1 DEF RevokeFromPage
      <3>2. conn[s] \in [phase : {"reading"}, req : Request, hubMs : Nat, secret : BOOLEAN]
        BY <1>0, <2>1 DEF Conn, Free
      <3> QED BY <2>1, <3>1, <3>2 DEF Kept
    <2>2. CASE ~(conn[s].phase = "reading" /\ conn[s].req.node = n)
      <3>1. conn'[s] = conn[s]
        BY <1>11, <2>2 DEF RevokeFromPage
      <3> QED BY <3>1 DEF Kept
    <2> QED BY <2>1, <2>2
  <1>12. ASSUME \/ \E n \in Node, e \in Endpoints, d \in Drifts, g \in Grades : Send(n, e, d, g)
                \/ \E x \in Slot, m \in sent : Refuse(x, m)
                \/ \E n \in Node : RevokeFromCtl(n)
                \/ Tick
                \/ UNCHANGED vars
         PROVE  UNCHANGED conn
    BY <1>12 DEF Send, Refuse, RevokeFromCtl, Tick, vars
  <1> QED BY <1>1, <1>4, <1>5, <1>6, <1>7, <1>8, <1>9, <1>10, <1>11, <1>12 DEF Next

(* The nodes the page revoked are not known, and a request being read for  *)
(* one of them has lost its secret.                                        *)
CutHasNoSecret ==
    /\ cut \cap known = {}
    /\ \A s \in Slot : conn[s].phase = "reading" /\ conn[s].secret => conn[s].req.node \notin cut

(* Nothing of a node revoked from the page is accepted, however long its   *)
(* body was on the way (agentapi.js 127, 154-157; nodes.js 103-109).       *)
THEOREM RevokedCorrect == Spec => RevokedIsRefused
  <1>1. Init => CutHasNoSecret
    BY DEF Init, CutHasNoSecret, Free
  <1>2. IInv /\ CutHasNoSecret /\ [Next]_vars => CutHasNoSecret'
    <2> SUFFICES ASSUME IInv, CutHasNoSecret, [Next]_vars
                 PROVE  CutHasNoSecret'
      OBVIOUS
    <2>1. \/ UNCHANGED <<known, cut>>
          \/ UNCHANGED <<cut, conn>> /\ known' \subseteq known
          \/ \E n \in Node : RevokeFromPage(n)
      BY DEF Next, vars, Send, Refuse, Arrive, Broken, BadSignature, PushRefused, PushStored, WaitHeld,
             Timeout, Wake, Close, Shutdown, Restart, RevokeFromCtl, Tick
    <2>2. CASE UNCHANGED <<known, cut>>
      <3> SUFFICES ASSUME NEW s \in Slot, conn'[s].phase = "reading", conn'[s].secret
                   PROVE  conn'[s].req.node \notin cut'
        BY <2>2 DEF CutHasNoSecret
      <3>1. CASE Kept(s)
        BY <2>2, <3>1 DEF Kept, CutHasNoSecret
      <3>2. ASSUME NEW m \in sent, Arrive(s, m), conn'[s].req = m PROVE conn'[s].req.node \notin cut'
        BY <2>2, <3>2 DEF Arrive, CutHasNoSecret
      <3> QED BY <3>1, <3>2, ReadingSteps
    <2>3. CASE UNCHANGED <<cut, conn>> /\ known' \subseteq known
      BY <2>3 DEF CutHasNoSecret
    <2>4. ASSUME NEW n \in Node, RevokeFromPage(n) PROVE CutHasNoSecret'
      <3>1. known' = known \ {n} /\ cut' = cut \cup {n}
        BY <2>4 DEF RevokeFromPage
      <3> SUFFICES ASSUME NEW s \in Slot, conn'[s].phase = "reading", conn'[s].secret
                   PROVE  conn'[s].req.node \notin cut'
        BY <3>1 DEF CutHasNoSecret
      <3>2. CASE conn[s].phase = "reading" /\ conn[s].req.node = n
        <4>1. conn'[s] = [conn[s] EXCEPT !.secret = FALSE]
          BY <2>4, <3>2 DEF RevokeFromPage
        <4>2. conn[s] \in [phase : {"reading"}, req : Request, hubMs : Nat, secret : BOOLEAN]
          BY <3>2 DEF IInv, TypeOK, Conn, Free
        <4> QED BY <4>1, <4>2
      <3>3. CASE ~(conn[s].phase = "reading" /\ conn[s].req.node = n)
        <4>1. conn'[s] = conn[s]
          BY <2>4, <3>3 DEF RevokeFromPage
        <4> QED BY <3>1, <3>3, <4>1 DEF CutHasNoSecret
      <3> QED BY <3>2, <3>3
    <2> QED BY <2>1, <2>2, <2>3, <2>4
  <1>3. CutHasNoSecret /\ [Next]_vars => [outcome'.kind = "accepted" => outcome'.node \notin cut]_vars
    <2> SUFFICES ASSUME CutHasNoSecret, Next, outcome'.kind = "accepted"
                 PROVE  outcome'.node \notin cut
      OBVIOUS
    <2>1. PICK s \in Slot : Signed(s) /\ outcome' = Accepted(conn[s].req)
      BY AcceptingSteps
    <2>2. outcome'.node = conn[s].req.node
      BY <2>1 DEF Accepted
    <2> QED BY <2>1, <2>2 DEF Signed, CutHasNoSecret
  <1>4. Spec => []IInv
    BY HeldCorrect, PTL DEF IInv
  <1> QED BY <1>1, <1>2, <1>3, <1>4, PTL DEF Spec, RevokedIsRefused

(* While bodies are read one at a time and replay.json is written, the     *)
(* newest TS is the one in memory and on disk, and the request being read  *)
(* is newer still.                                                         *)
InOrder ==
    /\ lastTs = newest /\ diskTs = newest
    /\ \A s \in Slot : conn[s].phase = "reading" => conn[s].req.ts > newest[StampOf(conn[s].req)]
    /\ \A s, x \in Slot : conn[s].phase = "reading" /\ conn[x].phase = "reading" => s = x

(* A request arrives only when no other body is being read.                *)
LEMMA ReadsAlone ==
    ASSUME MaxReading = 1, NEW s \in Slot, NEW m, Arrive(s, m)
    PROVE  \A x \in Slot : conn[x].phase # "reading"
  <1> DEFINE R == {x \in Slot : conn[x].phase = "reading"}
  <1>1. IsFiniteSet(R)
    BY SetsAssumption, FS_Subset
  <1>2. Cardinality(R) < 1
    BY DEF Arrive
  <1>3. R = {}
    BY <1>1, <1>2, FS_EmptySet, FS_CardinalityType
  <1> QED BY <1>3

(* If bodies are read one at a time and replay.json can be written, a      *)
(* request is accepted only with a TS newer than all before, restarts      *)
(* included (protocol.md 4.1 item 4; agentapi.js 5-8, 148, 172, 186).      *)
THEOREM OrderCorrect ==
    ASSUME MaxReading = 1, WriteOutcomes = {TRUE}
    PROVE  Spec => AcceptedIsNewer
  <1>1. Init => InOrder
    BY DEF Init, InOrder, Free
  <1>2. IInv /\ InOrder /\ [Next]_vars => InOrder'
    <2> SUFFICES ASSUME IInv, InOrder, [Next]_vars
                 PROVE  InOrder'
      OBVIOUS
    <2>1. ASSUME NEW s \in Slot, NEW x \in Slot, conn'[s].phase = "reading", conn'[x].phase = "reading"
          PROVE  s = x
      <3>1. CASE Kept(s) /\ Kept(x)
        BY <3>1 DEF Kept, InOrder
      <3>2. ASSUME NEW m \in sent, Arrive(s, m) PROVE s = x
        BY <2>1, <3>2, ReadsAlone DEF Arrive, IInv, TypeOK
      <3>3. ASSUME NEW m \in sent, Arrive(x, m) PROVE s = x
        BY <2>1, <3>3, ReadsAlone DEF Arrive, IInv, TypeOK
      <3> QED BY <2>1, <3>1, <3>2, <3>3, ReadingSteps
    <2>2. CASE UNCHANGED newest /\ lastTs' = newest /\ diskTs' = newest
      <3>1. ASSUME NEW s \in Slot, conn'[s].phase = "reading"
            PROVE  conn'[s].req.ts > newest'[StampOf(conn'[s].req)]
        <4>1. CASE Kept(s)
          BY <2>2, <4>1 DEF Kept, InOrder
        <4>2. ASSUME NEW m \in sent, Arrive(s, m), conn'[s].req = m
              PROVE  conn'[s].req.ts > newest'[StampOf(conn'[s].req)]
          <5>1. m.ts \in Nat /\ StampOf(m) \in Stamp
            BY DEF IInv, TypeOK, Request, StampOf, Stamp
          <5>2. lastTs[StampOf(m)] \in Nat
            BY <5>1 DEF IInv, TypeOK
          <5>3. ~(m.ts <= lastTs[StampOf(m)])
            BY <4>2 DEF Arrive, Stale
          <5> QED BY <2>2, <4>2, <5>1, <5>2, <5>3 DEF InOrder
        <4> QED BY <3>1, <4>1, <4>2, ReadingSteps
      <3> QED BY <2>1, <2>2, <3>1 DEF InOrder
    <2>3. ASSUME NEW s \in Slot, Signed(s), AcceptTs(conn[s].req),
                 \A x \in Slot : x # s => Kept(x) \/ conn'[x].phase # "reading",
                 conn'[s].phase # "reading"
          PROVE  InOrder'
      <3>1. \A x \in Slot : conn'[x].phase # "reading"
        BY <2>3 DEF Signed, Kept, InOrder
      <3>2. /\ conn[s].req \in Request
            /\ conn[s].req.ts > newest[StampOf(conn[s].req)]
        BY <2>3, ConnFields DEF Signed, InOrder, IInv, TypeOK
      <3>3. lastTs' = newest'
        BY <2>3, <3>2 DEF AcceptTs, InOrder, IInv, TypeOK, Request
      <3>4. diskTs' = lastTs'
        BY <2>3 DEF AcceptTs
      <3> QED BY <3>1, <3>3, <3>4 DEF InOrder
    <2>4. ASSUME NEW s \in Slot, PushStored(s) PROVE InOrder'
      <3>1. conn' = [conn EXCEPT ![s] = Free] /\ Signed(s) /\ AcceptTs(conn[s].req)
        BY <2>4 DEF PushStored
      <3>2. conn'[s].phase # "reading"
        BY <3>1 DEF Free, IInv, TypeOK
      <3>3. \A x \in Slot : x # s => Kept(x) \/ conn'[x].phase # "reading"
        BY <3>1 DEF Kept, IInv, TypeOK
      <3> QED BY <2>3, <3>1, <3>2, <3>3
    <2>5. ASSUME NEW s \in Slot, NEW hold \in Holds, WaitHeld(s, hold) PROVE InOrder'
      <3>1. conn' = Replace(s, conn[s].req.node, clock + hold) /\ Signed(s) /\ AcceptTs(conn[s].req)
        BY <2>5 DEF WaitHeld
      <3>2. conn[s].req.node \in Node /\ waiters[conn[s].req.node] \in Slot \cup {NoSlot}
        BY <3>1, ConnFields DEF Signed, IInv, TypeOK, Request
      <3>3. conn'[s] = Waiting(conn[s].req.node, clock + hold)
        BY <3>1, <3>2 DEF Replace, Answer, IInv, TypeOK
      <3>4. conn'[s].phase # "reading"
        BY <3>3 DEF Waiting
      <3>5. ASSUME NEW x \in Slot, x # s, conn'[x].phase = "reading" PROVE Kept(x)
        <4>1. ~\E m \in sent : Arrive(x, m)
          <5>1. conn[s].phase = "reading"
            BY <3>1 DEF Signed
          <5> QED BY <5>1, ReadsAlone
        <4> QED BY <3>5, <4>1, ReadingSteps
      <3> QED BY <2>3, <3>1, <3>4, <3>5
    <2>6. ASSUME Restart PROVE UNCHANGED newest /\ lastTs' = newest /\ diskTs' = newest
      BY <2>6 DEF Restart, InOrder
    <2>7. ASSUME UNCHANGED replayVars PROVE UNCHANGED newest /\ lastTs' = newest /\ diskTs' = newest
      BY <2>7 DEF replayVars, InOrder
    <2> QED BY <2>2, <2>4, <2>5, <2>6, <2>7 DEF Next, vars, Send, Refuse, Arrive, Broken, BadSignature,
               PushRefused, Timeout, Wake, Close, Shutdown, RevokeFromPage, RevokeFromCtl, Tick
  <1>3. InOrder /\ [Next]_vars
           => [outcome'.kind = "accepted" => outcome'.ts > newest[StampOf(outcome')]]_vars
    <2> SUFFICES ASSUME InOrder, Next, outcome'.kind = "accepted"
                 PROVE  outcome'.ts > newest[StampOf(outcome')]
      OBVIOUS
    <2>1. PICK s \in Slot : Signed(s) /\ outcome' = Accepted(conn[s].req)
      BY AcceptingSteps
    <2>2. outcome'.ts = conn[s].req.ts /\ StampOf(outcome') = StampOf(conn[s].req)
      BY <2>1 DEF Accepted, StampOf
    <2> QED BY <2>1, <2>2 DEF Signed, InOrder
  <1>4. Spec => []IInv
    BY HeldCorrect, PTL DEF IInv
  <1> QED BY <1>1, <1>2, <1>3, <1>4, PTL DEF Spec, AcceptedIsNewer

-----------------------------------------------------------------------------
(* Failed authentications.                                                 *)

(* The counter of a client counts failures that are in its log, all within *)
(* one window of the first of them.                                        *)
Counted(f, l) ==
    /\ Len(l) <= FailLimit /\ f.n <= Len(l)
    /\ \A i \in 1 .. Len(l) : l[i] <= clock
    /\ \A i, j \in 1 .. Len(l) : i <= j => l[i] <= l[j]
    /\ f.n > 0 => f.until <= l[Len(l) - f.n + 1] + FailWindow

FailInv == \A c \in Client : Counted(failures[c], failLog[c])

(* A time is added to a log, which keeps its last FailLimit times.         *)
LEMMA LogStep ==
    ASSUME NEW l \in Seq(Nat), NEW t \in Nat, Len(l) <= FailLimit
    PROVE  LET a == Append(l, t)
               k == IF Len(a) > FailLimit THEN Tail(a) ELSE a
           IN  /\ k \in Seq(Nat) /\ Len(k) \in Nat
               /\ IF Len(l) < FailLimit
                  THEN /\ Len(k) = Len(l) + 1 /\ k[Len(l) + 1] = t
                       /\ \A i \in 1 .. Len(l) : k[i] = l[i]
                  ELSE /\ Len(k) = Len(l) /\ k[Len(l)] = t
                       /\ \A i \in 1 .. Len(l) - 1 : k[i] = l[i + 1]
  <1> DEFINE a == Append(l, t)
  <1>1. FailLimit \in Nat /\ FailLimit > 0 /\ Len(l) \in Nat
    BY NumbersAssumption
  <1>2. a \in Seq(Nat) /\ Len(a) = Len(l) + 1 /\ a[Len(l) + 1] = t /\ \A i \in 1 .. Len(l) : a[i] = l[i]
    BY <1>1
  <1> HIDE DEF a
  <1>3. a # << >>
    <2>1. Len(a) # 0
      BY <1>1, <1>2
    <2> QED BY <2>1
  <1>4. /\ Tail(a) \in Seq(Nat) /\ Len(Tail(a)) = Len(a) - 1
        /\ \A i \in 1 .. Len(a) - 1 : Tail(a)[i] = a[i + 1]
    BY <1>2, <1>3
  <1>5. CASE Len(l) < FailLimit
    BY <1>1, <1>2, <1>5 DEF a
  <1>6. CASE ~(Len(l) < FailLimit)
    <2>1. Len(l) = FailLimit /\ Len(a) > FailLimit
      BY <1>1, <1>2, <1>6
    <2>2. Len(Tail(a)) = Len(l) /\ Tail(a)[Len(l)] = t /\ \A i \in 1 .. Len(l) - 1 : Tail(a)[i] = l[i + 1]
      BY <1>1, <1>2, <1>4, <2>1
    <2> QED BY <1>1, <1>4, <1>6, <2>1, <2>2 DEF a
  <1> QED BY <1>5, <1>6

(* One more failure of a client (failed, agentapi.js 78-85).               *)
LEMMA CountStep ==
    ASSUME TypeOK, NEW f \in [n : 0 .. FailLimit, until : Nat], NEW l \in Seq(Nat), Counted(f, l)
    PROVE  LET a == Append(l, clock)
           IN  Counted(Count(f), IF Len(a) > FailLimit THEN Tail(a) ELSE a)
  <1> DEFINE a == Append(l, clock)
             k == IF Len(a) > FailLimit THEN Tail(a) ELSE a
             L == Len(l)
             g == Count(f)
  <1>1. /\ FailLimit \in Nat /\ FailLimit > 0 /\ L \in Nat /\ clock \in Nat /\ FailWindow \in Nat
        /\ f.n \in Nat /\ f.n <= FailLimit /\ f.until \in Nat
    BY NumbersAssumption DEF TypeOK
  <1>2. /\ L <= FailLimit /\ f.n <= L
        /\ \A i \in 1 .. L : l[i] \in Nat /\ l[i] <= clock
        /\ \A i, j \in 1 .. L : i <= j => l[i] <= l[j]
        /\ f.n > 0 => f.until <= l[L - f.n + 1] + FailWindow
    BY DEF Counted
  <1>3. /\ k \in Seq(Nat) /\ Len(k) \in Nat
        /\ IF L < FailLimit
           THEN Len(k) = L + 1 /\ k[L + 1] = clock /\ \A i \in 1 .. L : k[i] = l[i]
           ELSE Len(k) = L /\ k[L] = clock /\ \A i \in 1 .. L - 1 : k[i] = l[i + 1]
    BY <1>1, <1>2, LogStep
  <1> DEFINE K == Len(k)
  <1> HIDE DEF k, L, K, g
  <1>4. K \in Nat /\ K >= 1 /\ K = (IF L < FailLimit THEN L + 1 ELSE FailLimit) /\ k[K] = clock
        /\ L <= FailLimit /\ f.n <= L
    BY <1>1, <1>2, <1>3 DEF K
  <1>5. \A i \in 1 .. K - 1 : IF L < FailLimit THEN i \in 1 .. L /\ k[i] = l[i]
                             ELSE i + 1 \in 1 .. L /\ k[i] = l[i + 1]
    <2> SUFFICES ASSUME NEW i \in 1 .. K - 1
                 PROVE  IF L < FailLimit THEN i \in 1 .. L /\ k[i] = l[i] ELSE i + 1 \in 1 .. L /\ k[i] = l[i + 1]
      OBVIOUS
    <2>1. CASE L < FailLimit
      <3>1. i \in 1 .. L
        BY <1>1, <1>4, <2>1
      <3> QED BY <1>3, <2>1, <3>1
    <2>2. CASE ~(L < FailLimit)
      <3>1. i + 1 \in 1 .. L /\ i \in 1 .. L - 1
        BY <1>1, <1>4, <2>2
      <3> QED BY <1>3, <2>2, <3>1
    <2> QED BY <2>1, <2>2
  <1>6. \A i \in 1 .. K : k[i] \in Nat /\ k[i] <= clock
    <2> SUFFICES ASSUME NEW i \in 1 .. K PROVE k[i] \in Nat /\ k[i] <= clock
      OBVIOUS
    <2>1. CASE i = K
      BY <1>1, <1>4, <2>1
    <2>2. CASE i # K
      <3>1. i \in 1 .. K - 1
        BY <1>4, <2>2
      <3> QED BY <1>2, <1>5, <3>1
    <2> QED BY <2>1, <2>2
  <1>7. \A i, j \in 1 .. K : i <= j => k[i] <= k[j]
    <2> SUFFICES ASSUME NEW i \in 1 .. K, NEW j \in 1 .. K, i <= j PROVE k[i] <= k[j]
      OBVIOUS
    <2>1. CASE j = K
      BY <1>4, <1>6, <2>1
    <2>2. CASE j # K
      <3>1. i \in 1 .. K - 1 /\ j \in 1 .. K - 1 /\ i + 1 <= j + 1
        BY <1>4, <2>2
      <3> QED BY <1>2, <1>5, <3>1
    <2> QED BY <2>1, <2>2
  <1>8. g.n \in Nat /\ g.n <= K /\ (g.n > 0 => g.until <= k[K - g.n + 1] + FailWindow)
    <2>1. CASE f.n = 0 \/ f.until < clock
      <3>1. g.n = 1 /\ g.until = clock + FailWindow
        BY <2>1 DEF Count, g
      <3>2. K - g.n + 1 = K
        BY <1>4, <3>1
      <3> QED BY <1>1, <1>4, <3>1, <3>2
    <2>2. CASE ~(f.n = 0 \/ f.until < clock)
      <3>1. g.n = (IF f.n < FailLimit THEN f.n + 1 ELSE f.n) /\ g.until = f.until /\ f.n > 0
        BY <1>1, <2>2 DEF Count, g
      <3> DEFINE w == L - f.n + 1
                 v == K - g.n + 1
      <3>2. w \in 1 .. L /\ g.n \in Nat /\ g.n <= K
        BY <1>1, <1>4, <3>1
      <3>3. f.until <= l[w] + FailWindow /\ l[w] \in Nat
        BY <1>2, <3>1, <3>2
      <3>4. CASE L < FailLimit
        <4>1. v = w /\ v \in 1 .. K - 1
          BY <1>1, <1>4, <3>1, <3>4
        <4>2. k[v] = l[w]
          BY <1>5, <3>4, <4>1
        <4> HIDE DEF v, w
        <4> QED BY <3>1, <3>2, <3>3, <4>2 DEF v
      <3>5. CASE ~(L < FailLimit) /\ f.n < FailLimit
        <4>1. v + 1 = w /\ v \in 1 .. K - 1
          BY <1>1, <1>4, <3>1, <3>5
        <4>2. k[v] = l[w]
          BY <1>5, <3>5, <4>1
        <4> HIDE DEF v, w
        <4> QED BY <3>1, <3>2, <3>3, <4>2 DEF v
      <3>6. CASE ~(L < FailLimit) /\ ~(f.n < FailLimit)
        <4>1. v = 1 /\ w = 1 /\ 1 \in 1 .. L /\ 1 \in 1 .. K
          BY <1>1, <1>4, <3>1, <3>6
        <4>2. l[1] <= k[1]
          <5>1. CASE K = 1
            BY <1>2, <1>4, <4>1, <5>1
          <5>2. CASE K # 1
            <6>1. 1 \in 1 .. K - 1
              BY <1>4, <5>2
            <6>2. 1 + 1 \in 1 .. L /\ k[1] = l[1 + 1]
              BY <1>5, <3>6, <6>1
            <6> QED BY <1>2, <4>1, <6>2
          <5> QED BY <5>1, <5>2
        <4>3. k[1] \in Nat /\ l[1] \in Nat
          BY <1>2, <1>6, <4>1
        <4>4. f.until <= k[1] + FailWindow
          BY <1>1, <3>3, <4>1, <4>2, <4>3
        <4> QED BY <3>1, <3>2, <4>1, <4>4
      <3> QED BY <3>4, <3>5, <3>6
    <2> QED BY <2>1, <2>2
  <1>9. Counted(g, k)
    BY <1>4, <1>6, <1>7, <1>8, <1>1 DEF Counted, K
  <1> QED BY <1>9 DEF g, k

(* A failure of a client counts for that client.                           *)
LEMMA FailedCounts ==
    ASSUME TypeOK, FailInv, NEW c \in Client, Failed(c, c), clock' = clock
    PROVE  FailInv'
  <1> DEFINE l == Append(failLog[c], clock)
             k == IF Len(l) > FailLimit THEN Tail(l) ELSE l
             counted == [failures EXCEPT ![c] = Count(@)]
  <1>1. failures' = Bounded(counted, c) /\ failLog' = [failLog EXCEPT ![c] = k]
    BY DEF Failed
  <1>2. /\ failures[c] \in [n : 0 .. FailLimit, until : Nat] /\ failLog[c] \in Seq(Nat)
        /\ Counted(failures[c], failLog[c])
    BY DEF TypeOK, FailInv
  <1>3. Counted(Count(failures[c]), k)
    BY <1>2, CountStep
  <1> HIDE DEF k
  <1>4. \A x \in Client : Counted(counted[x], failLog'[x])
    BY <1>1, <1>3 DEF TypeOK, FailInv
  <1> HIDE DEF counted
  <1>5. \A x \in Client : failures'[x] \in {counted[x], NoFailures}
    BY <1>1 DEF Bounded, counted, TypeOK
  <1>6. ASSUME NEW x \in Client PROVE Counted(failures'[x], failLog'[x])
    <2>1. CASE failures'[x] = counted[x]
      BY <1>4, <2>1
    <2>2. CASE failures'[x] = NoFailures
      <3>1. Counted(counted[x], failLog'[x])
        BY <1>4
      <3>2. NoFailures.n = 0 /\ Len(failLog'[x]) \in Nat
        <4>1. FailType'
          BY FailedType
        <4> QED BY <4>1 DEF FailType, NoFailures
      <3> QED BY <2>2, <3>1, <3>2 DEF Counted
    <2> QED BY <1>5, <2>1, <2>2
  <1> QED BY <1>6 DEF FailInv, Counted

(* Which steps count a failure, and for whom (agentapi.js 128-138, 157).   *)
LEMMA FailSteps ==
    ASSUME IInv, [Next]_vars
    PROVE  \/ UNCHANGED <<failVars, clock>>
           \/ clock' = clock /\ \E c \in Client : Failed(c, c)
           \/ Tick
           \/ Restart
  <1>1. ASSUME NEW s \in Slot, NEW m \in sent, Refuse(s, m)
        PROVE  clock' = clock /\ (UNCHANGED failVars \/ \E c \in Client : Failed(c, c))
    <2>1. m.node \in Client /\ Anyone \in Client
      BY DEF IInv, TypeOK, Request, Client
    <2>2. m.node \in known => Who(m.node) = m.node
      BY DEF Who
    <2>3. m.node \notin known => Who(m.node) = Anyone
      BY DEF Who
    <2> QED BY <1>1, <2>1, <2>2, <2>3 DEF Refuse, Unknown, SlowedDown, ClockSkew, ReplayOrLarge
  <1>2. ASSUME NEW s \in Slot, BadSignature(s) PROVE clock' = clock /\ \E c \in Client : Failed(c, c)
    <2>1. conn[s].req.node \in Client
      BY <1>2, ConnFields DEF BadSignature, IInv, TypeOK, Request, Client
    <2> QED BY <1>2, <2>1 DEF BadSignature
  <1>3. CASE UNCHANGED vars
    BY <1>3 DEF vars
  <1>4. CASE Next
    BY <1>1, <1>2, <1>4 DEF Next, Send, Arrive, Broken, PushRefused, PushStored, WaitHeld, Timeout, Wake,
       Close, Shutdown, RevokeFromPage, RevokeFromCtl, failVars
  <1> QED BY <1>3, <1>4

(* Every step keeps the counters and the log together.                     *)
LEMMA FailStep ==
    ASSUME IInv, FailInv, [Next]_vars
    PROVE  FailInv'
  <1>1. TypeOK
    BY DEF IInv
  <1>2. CASE UNCHANGED <<failVars, clock>>
    BY <1>2 DEF FailInv, Counted, failVars
  <1>3. CASE clock' = clock /\ \E c \in Client : Failed(c, c)
    BY <1>1, <1>3, FailedCounts
  <1>4. CASE Tick
    <2>1. UNCHANGED failVars /\ clock' = clock + 1 /\ clock \in Nat
      BY <1>1, <1>4 DEF Tick, TypeOK
    <2> SUFFICES ASSUME NEW c \in Client PROVE Counted(failures[c], failLog[c])'
      BY DEF FailInv
    <2>2. Counted(failures[c], failLog[c]) /\ failLog[c] \in Seq(Nat)
      BY <1>1 DEF FailInv, TypeOK
    <2>3. \A i \in 1 .. Len(failLog[c]) : failLog[c][i] <= clock'
      BY <2>1, <2>2 DEF Counted
    <2> QED BY <2>1, <2>2, <2>3 DEF Counted, failVars
  <1>5. CASE Restart
    <2>1. failures' = [c \in Client |-> NoFailures] /\ UNCHANGED <<failLog, clock>>
      BY <1>5 DEF Restart
    <2> SUFFICES ASSUME NEW c \in Client PROVE Counted(failures[c], failLog[c])'
      BY DEF FailInv
    <2>2. Counted(failures[c], failLog[c]) /\ Len(failLog[c]) \in Nat
      BY <1>1 DEF FailInv, TypeOK
    <2>3. failures'[c].n = 0
      BY <2>1 DEF NoFailures
    <2> QED BY <2>1, <2>2, <2>3 DEF Counted
  <1> QED BY <1>2, <1>3, <1>4, <1>5, FailSteps

(* A client is slowed down only for its own failures, FailLimit of them    *)
(* within the last FailWindow, for any number of clients and whatever      *)
(* empties the counters (agentapi.js 78-85, 128-138).                      *)
THEOREM SlowedCorrect == Spec => []SlowedForOwnFailures
  <1>1. Init => FailInv /\ SlowedForOwnFailures
    <2> SUFFICES ASSUME Init PROVE FailInv /\ SlowedForOwnFailures
      OBVIOUS
    <2>1. \A c \in Client : failures[c].n = 0 /\ failLog[c] = << >>
      BY DEF Init, NoFailures
    <2>2. FailInv
      BY <2>1, NumbersAssumption DEF FailInv, Counted
    <2>3. SlowedForOwnFailures
      BY DEF Init, SlowedForOwnFailures, Nothing
    <2> QED BY <2>2, <2>3
  <1>2. IInv /\ FailInv /\ [Next]_vars => FailInv'
    BY FailStep
  <1>3. IInv /\ FailInv /\ SlowedForOwnFailures /\ [Next]_vars => SlowedForOwnFailures'
    <2> SUFFICES ASSUME IInv, FailInv, SlowedForOwnFailures, [Next]_vars PROVE SlowedForOwnFailures'
      OBVIOUS
    <2>1. CASE UNCHANGED vars
      BY <2>1 DEF vars, failVars, SlowedForOwnFailures
    <2>2. ASSUME NEW s \in Slot, NEW m \in sent, Refuse(s, m) PROVE SlowedForOwnFailures'
      <3>1. outcome' = Refused => SlowedForOwnFailures'
        BY DEF Refused, SlowedForOwnFailures
      <3>2. ASSUME NEW c \in Client, Blocked(c), outcome' = Slowed(c), UNCHANGED failVars, UNCHANGED clock
            PROVE  SlowedForOwnFailures'
        <4>1. outcome'.client = c /\ failLog' = failLog
          BY <3>2 DEF Slowed, failVars
        <4>2. /\ failures[c].n \in Nat /\ failures[c].until \in Nat /\ failures[c].until >= clock
              /\ failures[c].n >= FailLimit /\ FailLimit \in Nat /\ FailLimit > 0 /\ FailWindow \in Nat /\ clock \in Nat
          BY <3>2, NumbersAssumption DEF Blocked, IInv, TypeOK
        <4>3. failLog[c] \in Seq(Nat) /\ Counted(failures[c], failLog[c])
          BY DEF IInv, TypeOK, FailInv
        <4>4. Len(failLog[c]) = FailLimit /\ failures[c].n = FailLimit
          BY <4>2, <4>3 DEF Counted
        <4>5. failures[c].until <= failLog[c][1] + FailWindow /\ failLog[c][1] \in Nat
          <5>1. Len(failLog[c]) - failures[c].n + 1 = 1
            BY <4>2, <4>4
          <5>2. failures[c].until <= failLog[c][1] + FailWindow
            BY <4>2, <4>3, <4>4, <5>1 DEF Counted
          <5> QED BY <4>2, <4>3, <4>4, <5>2
        <4>6. clock - failLog[c][1] <= FailWindow
          BY <4>2, <4>5
        <4> QED BY <3>2, <4>1, <4>4, <4>6 DEF SlowedForOwnFailures
      <3>3. m.node \in Client /\ Anyone \in Client
        BY DEF IInv, TypeOK, Request, Client
      <3>4. (m.node \in known => Who(m.node) = m.node) /\ (m.node \notin known => Who(m.node) = Anyone)
        BY DEF Who
      <3> QED BY <2>2, <3>1, <3>2, <3>3, <3>4 DEF Refuse, Unknown, SlowedDown, ClockSkew, ReplayOrLarge
    <2>3. outcome'.kind # "slowed" => SlowedForOwnFailures'
      BY DEF SlowedForOwnFailures
    <2>4. CASE Next /\ ~\E s \in Slot, m \in sent : Refuse(s, m)
      <3>1. outcome' \in {Nothing, Refused} \/ \E m : outcome' = Accepted(m)
        BY <2>4 DEF Next, Send, Arrive, Broken, BadSignature, PushRefused, PushStored, WaitHeld, Timeout, Wake,
           Close, Shutdown, Restart, RevokeFromPage, RevokeFromCtl, Tick
      <3>2. outcome'.kind # "slowed"
        BY <3>1 DEF Nothing, Refused, Accepted
      <3> QED BY <2>3, <3>2
    <2> QED BY <2>1, <2>2, <2>4
  <1>4. Spec => []IInv
    BY HeldCorrect, PTL DEF IInv
  <1> QED BY <1>1, <1>2, <1>3, <1>4, PTL DEF Spec
=============================================================================
