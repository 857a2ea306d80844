---------------------------- MODULE NotifyProofs ----------------------------
(***************************************************************************)
(* Theorems about the notifier, for every set of channels and alerts,      *)
(* every channel settings a person can save, every length of the queues    *)
(* and every pattern of failed tries.                                      *)
(***************************************************************************)
EXTENDS Notify, SequenceTheorems, TLAPS

-----------------------------------------------------------------------------
(* Queues.                                                                 *)

(* Cutting a sequence down keeps its newest elements, in order, and as     *)
(* many as the bound allows (notify.js 379, 422, 428).                     *)
LEMMA NewestCuts ==
    ASSUME NEW S, NEW s \in Seq(S), NEW n \in Nat
    PROVE  /\ Newest(s, n) \in Seq(S)
           /\ Len(Newest(s, n)) = IF Len(s) > n THEN n ELSE Len(s)
           /\ \A i \in 1 .. Len(Newest(s, n)) : Newest(s, n)[i] = s[i + (Len(s) - Len(Newest(s, n)))]
  <1>1. CASE Len(s) > n
    <2>1. Newest(s, n) = SubSeq(s, Len(s) - n + 1, Len(s))
      BY <1>1 DEF Newest
    <2>2. Len(s) \in Nat /\ \A i \in (Len(s) - n + 1) .. Len(s) : s[i] \in S
      BY <1>1
    <2>3. /\ SubSeq(s, Len(s) - n + 1, Len(s)) \in Seq(S)
          /\ Len(SubSeq(s, Len(s) - n + 1, Len(s)))
               = IF Len(s) - n + 1 <= Len(s) THEN Len(s) - (Len(s) - n + 1) + 1 ELSE 0
          /\ \A i \in 1 .. Len(s) - (Len(s) - n + 1) + 1 :
                 SubSeq(s, Len(s) - n + 1, Len(s))[i] = s[(Len(s) - n + 1) + i - 1]
      BY <2>2, SubSeqProperties
    <2>4. Len(Newest(s, n)) = n
      BY <2>1, <2>2, <2>3
    <2>5. ASSUME NEW i \in 1 .. n PROVE Newest(s, n)[i] = s[i + (Len(s) - n)]
      <3>1. i \in 1 .. Len(s) - (Len(s) - n + 1) + 1
        BY <2>2
      <3>2. Newest(s, n)[i] = s[(Len(s) - n + 1) + i - 1]
        BY <2>1, <2>3, <3>1
      <3>3. (Len(s) - n + 1) + i - 1 = i + (Len(s) - n)
        BY <2>2
      <3> QED BY <3>2, <3>3
    <2> QED BY <1>1, <2>1, <2>3, <2>4, <2>5
  <1>2. CASE ~(Len(s) > n)
    <2>1. Newest(s, n) = s
      BY <1>2 DEF Newest
    <2>2. \A i \in 1 .. Len(s) : i + (Len(s) - Len(s)) = i
      OBVIOUS
    <2> QED BY <1>2, <2>1, <2>2
  <1> QED BY <1>1, <1>2

(* An element put at the end of a bounded sequence stays in the bound, and *)
(* is the last one; with room for it nothing is lost.                      *)
LEMMA AppendCuts ==
    ASSUME NEW S, NEW s \in Seq(S), NEW x \in S, NEW n \in Nat \ {0}
    PROVE  /\ Newest(Append(s, x), n) \in Seq(S)
           /\ Len(s) <= n => Len(Newest(Append(s, x), n)) <= n
           /\ Len(s) < n => Newest(Append(s, x), n) = Append(s, x)
  <1>1. /\ Append(s, x) \in Seq(S)
        /\ Len(Append(s, x)) = Len(s) + 1
    BY AppendProperties
  <1>2. /\ Newest(Append(s, x), n) \in Seq(S)
        /\ Len(Newest(Append(s, x), n)) = IF Len(Append(s, x)) > n THEN n ELSE Len(Append(s, x))
    BY <1>1, NewestCuts
  <1>3. Len(s) < n => Newest(Append(s, x), n) = Append(s, x)
    BY <1>1 DEF Newest
  <1> QED BY <1>1, <1>2, <1>3

QueueType(q) == q \in [Channel -> Seq(Message)] /\ \A c \in Channel : Len(q[c]) <= MaxQueue

(* Putting a message into queues keeps their type and their bound          *)
(* (deliver, notify.js 375-379).                                           *)
LEMMA PutType ==
    ASSUME NEW q, QueueType(q), NEW m \in Message, NEW to
    PROVE  QueueType(Put(q, m, to))
  <1> SUFFICES ASSUME NEW c \in Channel
               PROVE  /\ Put(q, m, to)[c] \in Seq(Message)
                      /\ Len(Put(q, m, to)[c]) <= MaxQueue
    BY DEF QueueType, Put
  <1>1. q[c] \in Seq(Message) /\ Len(q[c]) <= MaxQueue
    BY DEF QueueType
  <1>2. MaxQueue \in Nat \ {0}
    BY NotifyAssumption
  <1>3. /\ Newest(Append(q[c], m), MaxQueue) \in Seq(Message)
        /\ Len(Newest(Append(q[c], m), MaxQueue)) <= MaxQueue
    BY <1>1, <1>2, AppendCuts
  <1>4. Put(q, m, to)[c] = IF c \in to THEN Newest(Append(q[c], m), MaxQueue) ELSE q[c]
    BY DEF Put
  <1> QED BY <1>1, <1>3, <1>4

(* A channel that takes a message and loses none has it at the end of its  *)
(* queue; the others keep their queues.                                    *)
LEMMA PutAppends ==
    ASSUME NEW q, QueueType(q), NEW m \in Message, NEW to, NEW c \in Channel, c \notin Full(q, to)
    PROVE  Put(q, m, to)[c] = IF c \in to THEN Append(q[c], m) ELSE q[c]
  <1>1. q[c] \in Seq(Message) /\ MaxQueue \in Nat \ {0}
    BY NotifyAssumption DEF QueueType
  <1>2. c \in to => Len(q[c]) < MaxQueue
    BY <1>1 DEF Full
  <1>3. Len(q[c]) < MaxQueue => Newest(Append(q[c], m), MaxQueue) = Append(q[c], m)
    BY <1>1, AppendCuts
  <1> QED BY <1>2, <1>3 DEF Put

-----------------------------------------------------------------------------
(* Type correctness.  The file is read back at a start, so its sequences   *)
(* have their bounds too.                                                  *)

StateType == [held : Seq(HeldEvent), digest : Seq(Nat), digestDay : Nat \cup {-1}]
Bounded(s) == s \in StateType /\ Len(s.held) <= MaxHeld /\ Len(s.digest) <= MaxDigest
TypeInv == TypeOK /\ Bounded(disk)

(* A summary and what goes with it have the types of messages and queues   *)
(* (releaseHeld, notify.js 398-412).                                       *)
LEMMA ReleaseType ==
    ASSUME TypeOK
    PROVE  /\ Summary \in Message
           /\ Lines \in Message
           /\ HeldAfter \in Seq(HeldEvent) /\ Len(HeldAfter) <= MaxHeld
           /\ QueueType(QueueAfter)
  <1>1. held \in Seq(HeldEvent) /\ Len(held) <= MaxHeld /\ MaxHeld \in Nat
    BY NotifyAssumption DEF TypeOK
  <1>2. HeldKeys \subseteq Key
    <2> SUFFICES ASSUME NEW i \in DOMAIN held PROVE held[i].key \in Key
      BY DEF HeldKeys
    <2>1. held[i] \in HeldEvent
      BY <1>1
    <2> QED BY <2>1 DEF HeldEvent
  <1>3. Summary \in Message
    <2> SUFFICES ASSUME NEW k \in HeldKeys PROVE <<k, LastKind(k) # "resolved">> \in Key \X BOOLEAN
      BY DEF Summary, Message, Line
    <2>1. k \in Key /\ (LastKind(k) # "resolved") \in BOOLEAN
      BY <1>2
    <2> QED BY <2>1
  <1>4. Lines \in Message
    BY <1>3 DEF Lines, Message
  <1>5. HeldAfter \in Seq(HeldEvent) /\ Len(HeldAfter) <= MaxHeld
    <2>1. << >> \in Seq(HeldEvent) /\ Len(<< >>) = 0
      OBVIOUS
    <2> QED BY <1>1, <2>1 DEF HeldAfter
  <1>6. QueueType(queue)
    BY DEF TypeOK, QueueType
  <1>7. QueueType(QueueAfter)
    BY <1>4, <1>6, PutType DEF QueueAfter
  <1> QED BY <1>3, <1>4, <1>5, <1>7

(* Messages go to channels there are.                                      *)
LEMMA TakersAreChannels ==
    ASSUME TypeOK
    PROVE  /\ cfg \in Config
           /\ \A s : Takers(s) \subseteq Channel
           /\ SummaryTakers \subseteq Channel
           /\ DigestTakers \subseteq Channel
  <1>1. cfg \in Config
    BY NotifyAssumption DEF TypeOK
  <1>2. cfg.on \subseteq Channel
    BY <1>1 DEF Config
  <1> QED BY <1>1, <1>2 DEF Takers, SummaryTakers, DigestTakers

(* The day of a time is a natural number, and never goes back with time.   *)
LEMMA DayType ==
    ASSUME NEW t \in Nat
    PROVE  DayOf(t) \in Nat
  <1>1. Day \in Nat \ {0}
    BY NotifyAssumption
  <1> QED BY <1>1 DEF DayOf

(* What is saved has the type of the state, with its bounds.               *)
LEMMA SaveType ==
    ASSUME TypeInv, Save, held' \in Seq(HeldEvent), Len(held') <= MaxHeld,
           digest' \in Seq(Nat), Len(digest') <= MaxDigest, digestDay' \in Nat \cup {-1}
    PROVE  Bounded(disk)'
  <1>1. PICK ok \in SaveOutcomes : disk' = IF ok THEN State' ELSE disk
    BY DEF Save
  <1>2. CASE disk' = disk
    BY <1>2 DEF TypeInv, Bounded, StateType
  <1>3. CASE disk' = State'
    BY <1>3 DEF State, Bounded, StateType
  <1> QED BY <1>1, <1>2, <1>3

(* Nothing is put into a queue: the record of a step without messages.     *)
OutType == [alert : SUBSET Key, summary : Message, digest : SUBSET Nat]

(* A step that tells of no message has the type of what is put out.        *)
LEMMA NothingType == Nothing \in OutType
  BY DEF Nothing, OutType, Message

(* The engine tells an event: alerts fire or not, events are counted.      *)
LEMMA TellsType ==
    ASSUME TypeOK, NEW k \in Key, NEW kind, Tells(k, kind)
    PROVE  firing' \in [Key -> BOOLEAN] /\ events' \in Nat
  BY DEF TypeOK, Tells

(* Reading a message leaves a set of alerts.                               *)
LEMMA ReadType ==
    ASSUME NEW fires \in SUBSET Key, NEW m
    PROVE  Read(fires, m) \subseteq Key
  BY DEF Read

(* Every step of the notifier keeps its types and the bounds of its        *)
(* queues, of what is held and of the digest (MAX_QUEUE, MAX_HELD and      *)
(* MAX_DIGEST), with the file that a restart reads back.                   *)
LEMMA TypeInvariant == Spec => []TypeInv
  <1>1. Init => TypeInv
    <2> SUFFICES ASSUME Init PROVE TypeInv
      OBVIOUS
    <2>1. \A S : << >> \in Seq(S) /\ Len(<< >>) = 0
      OBVIOUS
    <2>2. {MaxQueue, MaxHeld, MaxDigest} \subseteq Nat
      BY NotifyAssumption
    <2>3. out \in OutType
      BY NothingType DEF Init
    <2>4. queue \in [Channel -> Seq(Message)] /\ \A c \in Channel : Len(queue[c]) <= MaxQueue
      BY <2>1, <2>2 DEF Init
    <2>5. Bounded(disk)
      BY <2>1, <2>2 DEF Init, State, Bounded, StateType
    <2>6. sending \in [Channel -> SUBSET [msg : Message, tries : 0 .. Retries]]
      BY DEF Init
    <2> QED BY <2>1, <2>2, <2>3, <2>4, <2>5, <2>6 DEF Init, TypeInv, TypeOK, Bounded, StateType, OutType
  <1>2. TypeInv /\ [Next]_vars => TypeInv'
    <2> SUFFICES ASSUME TypeInv, [Next]_vars
                 PROVE  TypeInv'
      OBVIOUS
    <2>0. TypeOK /\ disk \in StateType
      BY DEF TypeInv, Bounded
    <2>1. /\ Lines \in Message
          /\ HeldAfter \in Seq(HeldEvent) /\ Len(HeldAfter) <= MaxHeld
          /\ QueueType(QueueAfter) /\ QueueType(queue)
      BY <2>0, ReleaseType DEF TypeOK, QueueType
    <2>2. {MaxQueue, MaxHeld, MaxDigest} \subseteq Nat \ {0} /\ Retries \in Nat
      BY NotifyAssumption
    <2>3. \A m \in Message : \A to : QueueType(Put(QueueAfter, m, to))
      BY <2>1, PutType
    <2>4. [Nothing EXCEPT !.summary = Lines] \in OutType
      BY <2>1, NothingType DEF OutType
    <2> DEFINE Rest == /\ clock' \in Nat /\ cfg' \in Configs
                       /\ sending' \in [Channel -> SUBSET [msg : Message, tries : 0 .. Retries]]
                       /\ firing' \in [Key -> BOOLEAN] /\ events' \in Nat
                       /\ seen' \in [Channel -> SUBSET Key] /\ missed' \subseteq Channel
                       /\ digested' \subseteq Nat /\ lastDigest' \in Nat \cup {-1}
               Queues == /\ held' \in Seq(HeldEvent) /\ Len(held') <= MaxHeld
                         /\ digest' \in Seq(Nat) /\ Len(digest') <= MaxDigest
                         /\ digestDay' \in Nat \cup {-1}
    <2>5. Rest /\ Queues /\ QueueType(queue)' /\ out' \in OutType /\ Bounded(disk)' => TypeInv'
      BY DEF TypeInv, TypeOK, QueueType, OutType, Bounded, StateType
    <2>6. ASSUME NEW k \in Key, NEW kind \in Kinds, Info(k, kind) PROVE TypeInv'
      <3>1. firing' \in [Key -> BOOLEAN] /\ events' \in Nat
        BY <2>0, <2>6, TellsType DEF Info
      <3>2. Rest
        BY <2>0, <2>6, <3>1, TakersAreChannels DEF Info, TypeOK, Full
      <3>3. digest \in Seq(Nat) /\ Len(digest) <= MaxDigest /\ events \in Nat
        BY <2>0 DEF TypeOK
      <3>4. digest' \in Seq(Nat) /\ Len(digest') <= MaxDigest
        BY <2>2, <2>6, <3>3, AppendCuts DEF Info
      <3>5. Queues
        BY <2>0, <2>1, <2>6, <3>4 DEF Info, TypeOK
      <3>6. Bounded(disk)'
        BY <2>6, <3>5, SaveType DEF Info
      <3>7. QueueType(queue)' /\ out' \in OutType
        BY <2>1, <2>4, <2>6 DEF Info, QueueType
      <3> QED BY <2>5, <3>2, <3>5, <3>6, <3>7
    <2>7. ASSUME NEW k \in Key, NEW kind \in Kinds, Hold(k, kind) PROVE TypeInv'
      <3>1. firing' \in [Key -> BOOLEAN] /\ events' \in Nat
        BY <2>0, <2>7, TellsType DEF Hold
      <3>2. Rest
        BY <2>0, <2>7, <3>1 DEF Hold, TypeOK, sendVars
      <3>3. held \in Seq(HeldEvent) /\ Len(held) <= MaxHeld /\ [key |-> k, kind |-> kind] \in HeldEvent
        BY <2>0 DEF TypeOK, HeldEvent, Kinds
      <3>4. held' \in Seq(HeldEvent) /\ Len(held') <= MaxHeld
        BY <2>2, <2>7, <3>3, AppendCuts DEF Hold
      <3>5. Queues
        BY <2>0, <2>7, <3>4 DEF Hold, TypeOK
      <3>6. Bounded(disk)'
        BY <2>7, <3>5, SaveType DEF Hold
      <3>7. QueueType(queue)' /\ out' \in OutType
        BY <2>1, <2>7, NothingType DEF Hold, QueueType, sendVars
      <3> QED BY <2>5, <3>2, <3>5, <3>6, <3>7
    <2>8. ASSUME NEW k \in Key, NEW kind \in Kinds, Deliver(k, kind) PROVE TypeInv'
      <3>1. firing' \in [Key -> BOOLEAN] /\ events' \in Nat
        BY <2>0, <2>8, TellsType DEF Deliver
      <3>2. Rest
        BY <2>0, <2>8, <3>1, TakersAreChannels DEF Deliver, TypeOK, Full
      <3>3. Queues
        BY <2>0, <2>1, <2>8 DEF Deliver, TypeOK
      <3>4. Bounded(disk)'
        BY <2>8 DEF Deliver, TypeInv, Bounded, StateType
      <3>5. {<<k, kind # "resolved">>} \in Message
        <4>1. <<k, kind # "resolved">> \in Key \X BOOLEAN
          OBVIOUS
        <4> QED BY <4>1 DEF Message, Line
      <3>6. QueueType(queue)'
        BY <2>3, <2>8, <3>5 DEF Deliver, QueueType
      <3>7. out' \in OutType
        BY <2>1, <2>8, NothingType DEF Deliver, OutType
      <3> QED BY <2>5, <3>2, <3>3, <3>4, <3>6, <3>7
    <2>9. CASE Tick
      <3>1. TickChanges /\ Save
        BY <2>9 DEF Tick
      <3>2. DayOf(clock) \in Nat
        BY <2>0, DayType DEF TypeOK
      <3>3. Digested \subseteq Nat
        BY <2>0 DEF Digested, TypeOK
      <3>4. Rest
        BY <2>0, <3>1, <3>2, <3>3, TakersAreChannels DEF TickChanges, TypeOK, Full, envVars
      <3>5. << >> \in Seq(Nat) /\ Len(<< >>) = 0
        OBVIOUS
      <3>6. digest' \in Seq(Nat) /\ Len(digest') <= MaxDigest
        BY <2>0, <2>2, <3>1, <3>5 DEF TickChanges, TypeOK
      <3>7. Queues
        BY <2>0, <2>1, <3>1, <3>2, <3>6 DEF TickChanges, TypeOK
      <3>8. Bounded(disk)'
        BY <3>1, <3>7, SaveType
      <3>9. {} \in Message
        BY DEF Message
      <3>10. QueueType(queue)'
        BY <2>3, <3>1, <3>9 DEF TickChanges, QueueType
      <3>11. out' \in OutType
        BY <2>1, <3>1, <3>3, NothingType DEF TickChanges, OutType
      <3> QED BY <2>5, <3>4, <3>7, <3>8, <3>10, <3>11
    <2>10. ASSUME NEW c \in Channel, Take(c) PROVE TypeInv'
      <3>1. TakeNext(c)
        BY <2>10 DEF Take
      <3>2. queue[c] \in Seq(Message) /\ queue[c] # << >> /\ Len(queue[c]) <= MaxQueue
        BY <2>0, <3>1 DEF TypeOK, TakeNext
      <3>3. Head(queue[c]) \in Message /\ Tail(queue[c]) \in Seq(Message) /\ Len(Tail(queue[c])) = Len(queue[c]) - 1
        BY <3>2, HeadTailProperties
      <3>4. QueueType(queue)'
        <4>1. queue' = [queue EXCEPT ![c] = Tail(queue[c])]
          BY <3>1 DEF TakeNext
        <4>2. Len(Tail(queue[c])) <= MaxQueue
          BY <2>2, <3>2, <3>3
        <4> QED BY <2>1, <3>3, <4>1, <4>2 DEF QueueType
      <3>5. [msg |-> Head(queue[c]), tries |-> 0] \in [msg : Message, tries : 0 .. Retries]
        BY <2>2, <3>3
      <3>6. sending' \in [Channel -> SUBSET [msg : Message, tries : 0 .. Retries]]
        BY <2>0, <3>1, <3>5 DEF TakeNext, TypeOK
      <3>7. Rest /\ Queues /\ Bounded(disk)' /\ out' \in OutType
        BY <2>0, <3>1, <3>6, NothingType DEF TakeNext, TypeOK, TypeInv, Bounded, StateType, stateVars, envVars
      <3> QED BY <2>5, <3>4, <3>7
    <2>11. ASSUME NEW c \in Channel, SendStep(c) PROVE TypeInv'
      <3>1. PICK s \in sending[c] : \/ Sent(c, s)
                                    \/ \E arrived \in BOOLEAN : FailsOnce(c, s, arrived)
                                    \/ \E arrived \in BOOLEAN : GivesUp(c, s, arrived)
        BY <2>11 DEF SendStep
      <3>2. s \in [msg : Message, tries : 0 .. Retries]
        BY <2>0 DEF TypeOK
      <3>3. PICK arrived \in BOOLEAN, left \in SUBSET [msg : Message, tries : 0 .. Retries] :
                Try(c, s, arrived, left)
        <4>1. CASE Sent(c, s)
          <5>1. Try(c, s, TRUE, {})
            BY <4>1 DEF Sent
          <5>2. {} \in SUBSET [msg : Message, tries : 0 .. Retries] /\ TRUE \in BOOLEAN
            OBVIOUS
          <5> QED BY <5>1, <5>2, Zenon
        <4>2. ASSUME NEW a \in BOOLEAN, FailsOnce(c, s, a)
              PROVE  \E arrived \in BOOLEAN, left \in SUBSET [msg : Message, tries : 0 .. Retries] :
                         Try(c, s, arrived, left)
          <5>1. [s EXCEPT !.tries = @ + 1] \in [msg : Message, tries : 0 .. Retries]
            BY <2>2, <3>2, <4>2 DEF FailsOnce
          <5> QED BY <4>2, <5>1 DEF FailsOnce
        <4>3. ASSUME NEW a \in BOOLEAN, GivesUp(c, s, a)
              PROVE  \E arrived \in BOOLEAN, left \in SUBSET [msg : Message, tries : 0 .. Retries] :
                         Try(c, s, arrived, left)
          BY <4>3 DEF GivesUp
        <4> QED BY <3>1, <4>1, <4>2, <4>3
      <3>4. sending' \in [Channel -> SUBSET [msg : Message, tries : 0 .. Retries]]
        BY <2>0, <3>3 DEF Try, TypeOK
      <3>5. seen' \in [Channel -> SUBSET Key]
        BY <2>0, <3>3, ReadType DEF Try, TypeOK
      <3>6. missed' \subseteq Channel
        BY <2>0, <3>1 DEF Sent, FailsOnce, GivesUp, TypeOK
      <3>7. Rest /\ Queues /\ Bounded(disk)' /\ out' \in OutType
        BY <2>0, <3>3, <3>4, <3>5, <3>6, NothingType DEF Try, TypeOK, TypeInv, Bounded, StateType, stateVars, envVars
      <3>8. QueueType(queue)'
        BY <2>1, <3>3 DEF Try, QueueType
      <3> QED BY <2>5, <3>7, <3>8
    <2>12. ASSUME NEW g \in Configs, SetConfig(g) PROVE TypeInv'
      <3>1. Rest /\ Queues /\ Bounded(disk)' /\ out' \in OutType
        BY <2>0, <2>12, NothingType DEF SetConfig, Changed, TypeOK, TypeInv, Bounded, StateType, stateVars, envVars, sendVars
      <3>2. QueueType(queue)'
        BY <2>1, <2>12 DEF SetConfig, QueueType, sendVars
      <3> QED BY <2>5, <3>1, <3>2
    <2>13. ASSUME NEW g \in Configs, Restart(g) PROVE TypeInv'
      <3>1. Rest /\ Bounded(disk)' /\ out' \in OutType
        BY <2>0, <2>13, NothingType DEF Restart, Changed, TypeOK, TypeInv, Bounded, StateType, envVars
      <3>2. Queues
        BY <2>13 DEF Restart, TypeInv, Bounded, StateType
      <3>3. << >> \in Seq(Message) /\ Len(<< >>) = 0
        OBVIOUS
      <3>4. QueueType(queue)'
        BY <2>2, <2>13, <3>3 DEF Restart, QueueType
      <3> QED BY <2>5, <3>1, <3>2, <3>4
    <2>14. CASE Pass
      <3>1. Rest /\ Queues /\ Bounded(disk)' /\ out' \in OutType
        BY <2>0, <2>14, NothingType DEF Pass, TypeOK, TypeInv, Bounded, StateType, stateVars, envVars, sendVars, pastVars
      <3>2. QueueType(queue)'
        BY <2>1, <2>14 DEF Pass, QueueType, sendVars
      <3> QED BY <2>5, <3>1, <3>2
    <2>15. CASE UNCHANGED vars
      BY <2>15 DEF vars, stateVars, sendVars, envVars, pastVars, TypeInv, TypeOK, Bounded, StateType
    <2> QED BY <2>6, <2>7, <2>8, <2>9, <2>10, <2>11, <2>12, <2>13, <2>14, <2>15 DEF Next
  <1> QED BY <1>1, <1>2, PTL DEF Spec

(* The queues, what is held and the digest never pass their bounds, over   *)
(* failures, changes of the settings and restarts (notify.js 379, 422,     *)
(* 428).                                                                   *)
THEOREM TypesCorrect == Spec => []TypeOK
  <1>1. TypeInv => TypeOK
    BY DEF TypeInv
  <1> QED BY <1>1, TypeInvariant, PTL

-----------------------------------------------------------------------------
(* What quiet hours hold.  An event is the last one of its alert if no     *)
(* later one has its key; that each alert held has a last event is part of *)
(* the invariant, since the existence of a greatest position would need an *)
(* induction.                                                              *)

IsLast(h, i) == \A j \in DOMAIN h : h[j].key = h[i].key => j <= i
HasLast(h) == \A j \in DOMAIN h : \E i \in DOMAIN h : h[i].key = h[j].key /\ IsLast(h, i)
Warnings(h) == \A i \in DOMAIN h : Sev[h[i].key] = "warning"
HeldInv == /\ HasLast(held) /\ Warnings(held)
           /\ HasLast(disk.held) /\ Warnings(disk.held)

(* The last event held of each alert says whether it fires.                *)
SaysTrue(h, fires) ==
    \A i \in DOMAIN h : IsLast(h, i) => (h[i].kind # "resolved" <=> fires[h[i].key])
HeldIsTrue == SaysTrue(held, firing)

(* releaseHeld (notify.js 398-405) finds the last event of each alert.     *)
LEMMA LastKindIsLast ==
    ASSUME TypeOK, NEW i \in DOMAIN held, IsLast(held, i)
    PROVE  LastKind(held[i].key) = held[i].kind
  <1> DEFINE at == {j \in DOMAIN held : held[j].key = held[i].key}
  <1>1. DOMAIN held = 1 .. Len(held) /\ Len(held) \in Nat
    BY DEF TypeOK
  <1>2. i \in at /\ \A j \in at : j <= i
    BY DEF IsLast
  <1>3. \A x \in at : (\A j \in at : j <= x) => x = i
    BY <1>1, <1>2
  <1>4. (CHOOSE x \in at : \A j \in at : j <= x) = i
    BY <1>2, <1>3
  <1> QED BY <1>4 DEF LastKind

(* An alert is held if an event of it is.                                  *)
LEMMA HeldKeyHasLast ==
    ASSUME TypeOK, HasLast(held), NEW k \in HeldKeys
    PROVE  \E i \in DOMAIN held : held[i].key = k /\ IsLast(held, i) /\ LastKind(k) = held[i].kind
  <1>1. PICK j \in DOMAIN held : held[j].key = k
    BY DEF HeldKeys
  <1>2. PICK i \in DOMAIN held : held[i].key = held[j].key /\ IsLast(held, i)
    BY DEF HasLast
  <1> QED BY <1>1, <1>2, LastKindIsLast

(* An event at the end of a sequence of events, in front of which the      *)
(* oldest are cut, is the last of its alert; the other alerts that are     *)
(* still there keep their last events (notify.js 427-428).                 *)
LEMMA HoldAppends ==
    ASSUME NEW h \in Seq(HeldEvent), NEW e \in HeldEvent, NEW n \in Nat \ {0}, NEW new,
           new = Newest(Append(h, e), n), HasLast(h)
    PROVE  /\ HasLast(new)
           /\ \A i \in DOMAIN new : new[i] = e \/ \E j \in DOMAIN h : new[i] = h[j]
           /\ \A i \in DOMAIN new : IsLast(new, i) =>
                 \/ new[i] = e
                 \/ new[i].key # e.key /\ \E j \in DOMAIN h : new[i] = h[j] /\ IsLast(h, j)
           /\ \E i \in DOMAIN new : new[i] = e
           /\ Len(h) < n => \A j \in DOMAIN h : \E i \in DOMAIN new : new[i] = h[j]
  <1> DEFINE full == Append(h, e)
             cut == Len(full) - Len(new)
  <1>1. /\ full \in Seq(HeldEvent) /\ Len(full) = Len(h) + 1
        /\ \A i \in 1 .. Len(h) : full[i] = h[i]
        /\ full[Len(h) + 1] = e
    BY AppendProperties
  <1>2. /\ new \in Seq(HeldEvent)
        /\ Len(new) = IF Len(full) > n THEN n ELSE Len(full)
        /\ \A i \in 1 .. Len(new) : new[i] = full[i + cut]
    <2> HIDE DEF full
    <2> QED BY <1>1, NewestCuts DEF full
  <1>3. Len(h) \in Nat /\ DOMAIN h = 1 .. Len(h) /\ DOMAIN new = 1 .. Len(new) /\ Len(new) \in Nat
    BY <1>2
  <1>4. cut \in Nat /\ cut <= Len(h) /\ Len(new) + cut = Len(h) + 1
    BY <1>1, <1>2, <1>3
  <1> HIDE DEF full, cut
  <1>5. \A i \in DOMAIN new : /\ i + cut \in 1 .. Len(h) + 1
                              /\ i + cut \in 1 .. Len(h) => new[i] = h[i + cut]
                              /\ i + cut = Len(h) + 1 => new[i] = e
    <2> SUFFICES ASSUME NEW i \in DOMAIN new
                 PROVE  /\ i + cut \in 1 .. Len(h) + 1
                        /\ i + cut \in 1 .. Len(h) => new[i] = h[i + cut]
                        /\ i + cut = Len(h) + 1 => new[i] = e
      OBVIOUS
    <2>1. i \in 1 .. Len(new) /\ i + cut \in 1 .. Len(h) + 1
      BY <1>3, <1>4
    <2>2. new[i] = full[i + cut]
      BY <1>2, <2>1
    <2> QED BY <1>1, <2>1, <2>2
  <1>6. Len(new) \in DOMAIN new /\ new[Len(new)] = e
    BY <1>3, <1>4, <1>5
  <1>7. \A i \in DOMAIN new : new[i] = e \/ \E j \in DOMAIN h : new[i] = h[j]
    BY <1>3, <1>4, <1>5
  <1>8. HasLast(new)
    <2> SUFFICES ASSUME NEW j \in DOMAIN new
                 PROVE  \E i \in DOMAIN new : new[i].key = new[j].key /\ IsLast(new, i)
      BY DEF HasLast
    <2>1. CASE new[j].key = e.key
      <3>1. IsLast(new, Len(new))
        BY <1>3 DEF IsLast
      <3> QED BY <2>1, <3>1, <1>6
    <2>2. CASE new[j].key # e.key
      <3>1. j + cut \in 1 .. Len(h) /\ new[j] = h[j + cut]
        BY <1>3, <1>4, <1>5, <2>2
      <3>2. PICK i \in DOMAIN h : h[i].key = h[j + cut].key /\ IsLast(h, i)
        BY <1>3, <3>1 DEF HasLast
      <3>3. i >= j + cut
        BY <1>3, <3>1, <3>2 DEF IsLast
      <3>4. i - cut \in DOMAIN new /\ (i - cut) + cut = i
        BY <1>3, <1>4, <3>1, <3>3
      <3>5. new[i - cut] = h[i]
        BY <1>3, <1>5, <3>4
      <3>6. ASSUME NEW x \in DOMAIN new, new[x].key = new[i - cut].key
            PROVE  x <= i - cut
        <4>1. x + cut \in 1 .. Len(h) /\ new[x] = h[x + cut]
          BY <1>3, <1>4, <1>5, <2>2, <3>1, <3>2, <3>5, <3>6
        <4>2. x + cut <= i
          BY <1>3, <3>2, <3>5, <3>6, <4>1 DEF IsLast
        <4> QED BY <1>3, <1>4, <4>1, <4>2
      <3> QED BY <3>1, <3>2, <3>4, <3>5, <3>6 DEF IsLast
    <2> QED BY <2>1, <2>2
  <1>9. ASSUME NEW i \in DOMAIN new, IsLast(new, i), new[i] # e
        PROVE  new[i].key # e.key /\ \E j \in DOMAIN h : new[i] = h[j] /\ IsLast(h, j)
    <2>1. i + cut \in 1 .. Len(h) /\ new[i] = h[i + cut]
      BY <1>3, <1>4, <1>5, <1>9
    <2>2. new[i].key # e.key
      <3>1. new[i].key = e.key => Len(new) <= i
        BY <1>6, <1>9 DEF IsLast
      <3> QED BY <1>3, <1>4, <2>1, <3>1
    <2>3. ASSUME NEW x \in DOMAIN h, h[x].key = h[i + cut].key
          PROVE  x <= i + cut
      <3>1. CASE x <= cut
        BY <1>3, <1>4, <2>1, <3>1
      <3>2. CASE x > cut
        <4>1. x - cut \in DOMAIN new /\ (x - cut) + cut = x
          BY <1>3, <1>4, <3>2
        <4>2. new[x - cut] = h[x]
          BY <1>3, <1>5, <4>1
        <4>3. x - cut <= i
          BY <1>9, <2>1, <2>3, <4>1, <4>2 DEF IsLast
        <4> QED BY <1>3, <1>4, <4>1, <4>3
      <3> QED BY <1>3, <1>4, <3>1, <3>2
    <2> QED BY <1>3, <2>1, <2>2, <2>3 DEF IsLast
  <1>10. ASSUME Len(h) < n, NEW j \in DOMAIN h PROVE \E i \in DOMAIN new : new[i] = h[j]
    <2>1. cut = 0
      BY <1>1, <1>2, <1>10 DEF cut
    <2>2. j \in DOMAIN new /\ j + cut = j /\ j + cut \in 1 .. Len(h)
      BY <1>3, <1>4, <2>1
    <2> QED BY <1>5, <2>2
  <1> QED BY <1>6, <1>7, <1>8, <1>9, <1>10

(* What a step does to the events held: they stay, go out, get one more,   *)
(* or come back from the file.                                             *)
LEMMA HeldChanges ==
    ASSUME TypeInv, [Next]_vars
    PROVE  \/ held' = HeldAfter /\ (held' # << >> => held' = held)
              /\ \E k \in Key, kind \in Kinds : Info(k, kind) \/ Deliver(k, kind)
           \/ held' = HeldAfter /\ UNCHANGED firing
           \/ UNCHANGED <<held, firing>>
           \/ \E k \in Key, kind \in Kinds : Hold(k, kind)
           \/ \E g \in Configs : Restart(g) /\ held' = disk.held /\ UNCHANGED <<firing, disk>>
  <1>1. HeldAfter # << >> => HeldAfter = held
    BY DEF HeldAfter
  <1>2. Tick => held' = HeldAfter /\ UNCHANGED firing
    BY DEF Tick, TickChanges, envVars
  <1>3. ASSUME \/ \E c \in Channel : Take(c) \/ SendStep(c)
               \/ \E g \in Configs : SetConfig(g)
               \/ Pass
               \/ UNCHANGED vars
        PROVE  UNCHANGED <<held, firing>>
    BY <1>3 DEF Take, TakeNext, SendStep, Sent, FailsOnce, GivesUp, Try, SetConfig, Pass, vars, stateVars, envVars
  <1>4. \A g \in Configs : Restart(g) => held' = disk.held /\ UNCHANGED <<firing, disk>>
    BY DEF Restart, envVars
  <1>5. \A k \in Key, kind \in Kinds : Info(k, kind) \/ Deliver(k, kind) => held' = HeldAfter
    BY DEF Info, Deliver
  <1> QED BY <1>1, <1>2, <1>3, <1>4, <1>5 DEF Next

(* The file keeps its value or gets the new state.                         *)
LEMMA DiskChanges ==
    ASSUME [Next]_vars
    PROVE  UNCHANGED disk \/ (disk' = State' /\ disk'.held = held')
  <1>1. Save => UNCHANGED disk \/ disk' = State'
    BY DEF Save
  <1>2. disk' = State' => disk'.held = held'
    BY DEF State
  <1>3. \/ UNCHANGED disk
        \/ Save
    BY DEF Next, vars, Info, Hold, Deliver, Tick, Take, TakeNext, SendStep, Sent, FailsOnce, GivesUp, Try,
           SetConfig, Restart, Pass
  <1> QED BY <1>1, <1>2, <1>3

(* Only warnings are held, and each alert held has a last event, in memory *)
(* and in the file (notify.js 426-428).                                    *)
LEMMA HeldAlways == Spec => [](TypeInv /\ HeldInv)
  <1>1. Init => HeldInv
    BY DEF Init, State, HeldInv, HasLast, Warnings
  <1>2. TypeInv /\ HeldInv /\ [Next]_vars => HeldInv'
    <2> SUFFICES ASSUME TypeInv, HeldInv, [Next]_vars
                 PROVE  HeldInv'
      OBVIOUS
    <2>1. HasLast(<< >>) /\ Warnings(<< >>)
      BY DEF HasLast, Warnings
    <2>2. HasLast(held) /\ Warnings(held) /\ HasLast(disk.held) /\ Warnings(disk.held)
      BY DEF HeldInv
    <2>3. ASSUME NEW k \in Key, NEW kind \in Kinds, Hold(k, kind)
          PROVE  HasLast(held') /\ Warnings(held')
      <3> DEFINE e == [key |-> k, kind |-> kind]
      <3>1. held \in Seq(HeldEvent) /\ e \in HeldEvent /\ MaxHeld \in Nat \ {0}
        BY NotifyAssumption DEF TypeInv, TypeOK, HeldEvent, Kinds
      <3>2. held' = Newest(Append(held, e), MaxHeld) /\ Sev[e.key] = "warning"
        BY <2>3 DEF Hold
      <3> HIDE DEF e
      <3>3. /\ HasLast(held')
            /\ \A i \in DOMAIN held' : held'[i] = e \/ \E j \in DOMAIN held : held'[i] = held[j]
        BY <2>2, <3>1, <3>2, HoldAppends
      <3> QED BY <2>2, <3>2, <3>3 DEF Warnings
    <2>4. HasLast(held') /\ Warnings(held')
      <3>1. HeldAfter = << >> \/ HeldAfter = held
        BY DEF HeldAfter
      <3> QED BY <2>1, <2>2, <2>3, <3>1, HeldChanges
    <2>5. HasLast(disk'.held) /\ Warnings(disk'.held)
      BY <2>2, <2>4, DiskChanges
    <2> QED BY <2>4, <2>5 DEF HeldInv, HasLast, Warnings, IsLast
  <1> QED BY <1>1, <1>2, TypeInvariant, PTL DEF Spec

(* The last event held of each alert keeps saying whether it fires, unless *)
(* a restart reads back an older state: an event of a warning is held as   *)
(* long as anything is, and one that goes out empties what is held first   *)
(* (notify.js 419-431).                                                    *)
LEMMA HeldStaysTrue ==
    ASSUME TypeInv, HeldInv, HeldIsTrue, [Next]_vars,
           (\E g \in Configs : Restart(g)) => disk = State
    PROVE  HeldIsTrue'
  <1>0. TypeOK /\ HasLast(held) /\ Warnings(held) /\ SaysTrue(held, firing)
    BY DEF TypeInv, HeldInv, HeldIsTrue
  <1>1. held \in Seq(HeldEvent) /\ firing \in [Key -> BOOLEAN]
    BY <1>0 DEF TypeOK
  <1>2. \A i \in DOMAIN held : held[i].key \in Key
    <2> SUFFICES ASSUME NEW i \in DOMAIN held PROVE held[i].key \in Key
      OBVIOUS
    <2>1. held[i] \in HeldEvent
      BY <1>1
    <2> QED BY <2>1 DEF HeldEvent
  <1>3. SaysTrue(<< >>, firing')
    BY DEF SaysTrue
  <1>4. ASSUME NEW k \in Key, NEW kind \in Kinds, Info(k, kind) \/ Deliver(k, kind), held' = held, held # << >>
        PROVE  SaysTrue(held', firing')
    <2>1. held = HeldAfter
      BY <1>4 DEF Info, Deliver
    <2>2. InQuiet(clock)
      BY <1>4, <2>1 DEF HeldAfter, Releases
    <2>3. Sev[k] # "warning"
      BY <1>4, <2>2 DEF Info, Deliver
    <2>4. firing' = [firing EXCEPT ![k] = kind # "resolved"]
      BY <1>4 DEF Info, Deliver, Tells
    <2>5. \A i \in DOMAIN held : held[i].key # k /\ held[i].key \in Key
      BY <1>0, <1>2, <2>3 DEF Warnings
    <2> QED BY <1>0, <1>1, <1>4, <2>4, <2>5 DEF SaysTrue
  <1>5. ASSUME NEW k \in Key, NEW kind \in Kinds, Hold(k, kind)
        PROVE  SaysTrue(held', firing')
    <2> DEFINE e == [key |-> k, kind |-> kind]
    <2>1. e \in HeldEvent /\ MaxHeld \in Nat \ {0} /\ e.key = k /\ e.kind = kind
      BY NotifyAssumption DEF HeldEvent, Kinds
    <2>2. held' = Newest(Append(held, e), MaxHeld)
      BY <1>5 DEF Hold
    <2>3. firing' = [firing EXCEPT ![k] = kind # "resolved"]
      BY <1>5 DEF Hold, Tells
    <2> HIDE DEF e
    <2>4. \A i \in DOMAIN held' : IsLast(held', i) =>
             \/ held'[i] = e
             \/ held'[i].key # e.key /\ \E j \in DOMAIN held : held'[i] = held[j] /\ IsLast(held, j)
      BY <1>0, <1>1, <2>1, <2>2, HoldAppends
    <2> SUFFICES ASSUME NEW i \in DOMAIN held', IsLast(held', i)
                 PROVE  held'[i].kind # "resolved" <=> firing'[held'[i].key]
      BY DEF SaysTrue
    <2>5. CASE held'[i] = e
      <3>1. held'[i].key = k /\ held'[i].kind = kind
        BY <2>1, <2>5
      <3>2. firing'[k] = (kind # "resolved")
        BY <1>1, <2>3
      <3> QED BY <3>1, <3>2
    <2>6. ASSUME held'[i].key # e.key, NEW j \in DOMAIN held, held'[i] = held[j], IsLast(held, j)
          PROVE  held'[i].kind # "resolved" <=> firing'[held'[i].key]
      <3>1. held[j].key \in Key
        BY <1>2
      <3>2. firing'[held[j].key] = firing[held[j].key]
        BY <1>1, <2>1, <2>3, <2>6, <3>1
      <3>3. held[j].kind # "resolved" <=> firing[held[j].key]
        BY <1>0, <2>6 DEF SaysTrue
      <3> QED BY <2>6, <3>2, <3>3
    <2> QED BY <2>4, <2>5, <2>6
  <1>6. ASSUME NEW g \in Configs, Restart(g) PROVE SaysTrue(held', firing')
    <2>1. held' = disk.held /\ firing' = firing /\ disk = State
      BY <1>6 DEF Restart, envVars
    <2>2. held' = held
      BY <2>1 DEF State
    <2> QED BY <1>0, <2>1, <2>2
  <1>7. HeldAfter = << >> \/ HeldAfter = held
    BY DEF HeldAfter
  <1>8. SaysTrue(held', firing')
    BY <1>0, <1>3, <1>4, <1>5, <1>6, <1>7, HeldChanges
  <1> QED BY <1>8 DEF HeldIsTrue, SaysTrue, IsLast

(* A line of a summary says whether its alert fires (notify.js 396-406).   *)
LEMMA LinesAreTrue ==
    ASSUME TypeInv, HeldInv, HeldIsTrue, NEW l \in Lines
    PROVE  /\ l[1] \in HeldKeys /\ l = <<l[1], l[2]>>
           /\ l[2] \in BOOLEAN
           /\ l[2] <=> firing[l[1]]
  <1>1. PICK k \in HeldKeys : l = <<k, LastKind(k) # "resolved">>
    BY DEF Lines, Summary
  <1>2. PICK i \in DOMAIN held : held[i].key = k /\ IsLast(held, i) /\ LastKind(k) = held[i].kind
    BY HeldKeyHasLast DEF TypeInv, HeldInv
  <1>3. held[i].kind # "resolved" <=> firing[k]
    BY <1>2 DEF HeldIsTrue, SaysTrue
  <1> QED BY <1>1, <1>2, <1>3

(* A summary says what is true when it is made (notify.js 5-6, 396-411),   *)
(* as long as the hub runs: after a restart it can be made from events     *)
(* that a state not saved since left in the file.                          *)
THEOREM SummariesAreTrue ==
    ASSUME Restarts = {}
    PROVE  Spec => SummaryIsTrue
  <1>1. Init => HeldIsTrue
    BY DEF Init, HeldIsTrue, SaysTrue
  <1>2. ~(\E g \in Configs : Restart(g))
    BY DEF Restart
  <1>3. TypeInv /\ HeldInv /\ HeldIsTrue /\ [Next]_vars => HeldIsTrue'
    BY <1>2, HeldStaysTrue
  <1>4. TypeInv /\ HeldInv /\ HeldIsTrue /\ [Next]_vars => [\A l \in out'.summary : l[2] <=> firing[l[1]]]_vars
    <2> SUFFICES ASSUME TypeInv, HeldInv, HeldIsTrue, Next, NEW l \in out'.summary
                 PROVE  l[2] <=> firing[l[1]]
      OBVIOUS
    <2>1. Nothing.summary = {}
      BY DEF Nothing
    <2>2. out' = Nothing \/ out'.summary = Lines
      <3>1. \A k \in Key, kind \in Kinds : Info(k, kind) => out'.summary = Lines
        BY DEF Info, Nothing
      <3>2. \A k \in Key, kind \in Kinds : Deliver(k, kind) => out'.summary = Lines
        BY DEF Deliver, Nothing
      <3>3. Tick => out'.summary = Lines
        BY DEF Tick, TickChanges, Nothing
      <3>4. \A k \in Key, kind \in Kinds : Hold(k, kind) => out' = Nothing
        BY DEF Hold
      <3>5. \A c \in Channel : Take(c) \/ SendStep(c) => out' = Nothing
        BY DEF Take, TakeNext, SendStep, Sent, FailsOnce, GivesUp, Try
      <3>6. (\E g \in Configs : SetConfig(g)) \/ Pass => out' = Nothing
        BY DEF SetConfig, Pass
      <3> QED BY <1>2, <3>1, <3>2, <3>3, <3>4, <3>5, <3>6 DEF Next
    <2> QED BY <2>1, <2>2, LinesAreTrue
  <1> QED BY <1>1, <1>3, <1>4, HeldAlways, PTL DEF Spec, SummaryIsTrue

-----------------------------------------------------------------------------
(* What reaches a person.  After everything that waits has been read, an   *)
(* alert is taken to fire (b = TRUE) or not (b = FALSE): the last message  *)
(* that names it says so, or none does and it is so now.                   *)

Reaches(q, snd, sn, k, b) ==
    \/ \E i \in DOMAIN q : /\ <<k, b>> \in q[i]
                           /\ \A j \in DOMAIN q : j >= i => <<k, ~b>> \notin q[j]
    \/ /\ \A j \in DOMAIN q : <<k, ~b>> \notin q[j]
       /\ \/ \E s \in snd : <<k, b>> \in s.msg /\ <<k, ~b>> \notin s.msg
          \/ (\A s \in snd : <<k, ~b>> \notin s.msg) /\ (k \in sn <=> b)

(* A message that is appended decides what it says, and leaves the rest.   *)
LEMMA ReachesAppend ==
    ASSUME NEW q \in Seq(Message), NEW snd, NEW sn, NEW k, NEW b \in BOOLEAN, NEW m \in Message,
           <<k, ~b>> \notin m,
           <<k, b>> \in m \/ Reaches(q, snd, sn, k, b)
    PROVE  Reaches(Append(q, m), snd, sn, k, b)
  <1>1. /\ Append(q, m) \in Seq(Message) /\ Len(Append(q, m)) = Len(q) + 1
        /\ \A i \in 1 .. Len(q) : Append(q, m)[i] = q[i]
        /\ Append(q, m)[Len(q) + 1] = m
    BY AppendProperties
  <1>2. DOMAIN q = 1 .. Len(q) /\ Len(q) \in Nat /\ DOMAIN Append(q, m) = 1 .. Len(q) + 1
    BY <1>1
  <1>3. \A j \in DOMAIN Append(q, m) : (j \in DOMAIN q /\ Append(q, m)[j] = q[j]) \/ j = Len(q) + 1
    BY <1>1, <1>2
  <1>4. CASE <<k, b>> \in m
    <2>1. Len(q) + 1 \in DOMAIN Append(q, m)
      BY <1>2
    <2>2. \A j \in DOMAIN Append(q, m) : j >= Len(q) + 1 => j = Len(q) + 1
      BY <1>2
    <2> QED BY <1>1, <1>4, <2>1, <2>2 DEF Reaches
  <1>5. ASSUME NEW i \in DOMAIN q, <<k, b>> \in q[i], \A j \in DOMAIN q : j >= i => <<k, ~b>> \notin q[j]
        PROVE  Reaches(Append(q, m), snd, sn, k, b)
    <2>1. i \in DOMAIN Append(q, m) /\ Append(q, m)[i] = q[i]
      BY <1>1, <1>2
    <2>2. \A j \in DOMAIN Append(q, m) : j >= i => <<k, ~b>> \notin Append(q, m)[j]
      BY <1>1, <1>3, <1>5
    <2> QED BY <1>5, <2>1, <2>2 DEF Reaches
  <1>6. ASSUME \A j \in DOMAIN q : <<k, ~b>> \notin q[j]
        PROVE  \A j \in DOMAIN Append(q, m) : <<k, ~b>> \notin Append(q, m)[j]
    BY <1>1, <1>3, <1>6
  <1>7. CASE ~ \E i \in DOMAIN q : /\ <<k, b>> \in q[i]
                                   /\ \A j \in DOMAIN q : j >= i => <<k, ~b>> \notin q[j]
    BY <1>4, <1>6, <1>7 DEF Reaches
  <1> QED BY <1>5, <1>7

(* A message that does not name an alert says nothing of it.               *)
LEMMA UnnamedAppend ==
    ASSUME NEW q \in Seq(Message), NEW snd, NEW sn, NEW k, NEW b, NEW m \in Message, b \in BOOLEAN,
           \A x : <<k, x>> \notin m, Reaches(q, snd, sn, k, b)
    PROVE  Reaches(Append(q, m), snd, sn, k, b)
  BY ReachesAppend

(* A worker takes the oldest message: nothing is overtaken (notify.js 384). *)
LEMMA ReachesTake ==
    ASSUME NEW q \in Seq(Message), q # << >>, NEW sn, NEW k, NEW b \in BOOLEAN, NEW snd, NEW s,
           snd = {s}, s.msg = Head(q), Reaches(q, {}, sn, k, b)
    PROVE  Reaches(Tail(q), snd, sn, k, b)
  <1>1. /\ Tail(q) \in Seq(Message) /\ Len(Tail(q)) = Len(q) - 1
        /\ \A i \in 1 .. Len(Tail(q)) : Tail(q)[i] = q[i + 1]
    BY HeadTailProperties
  <1>2. /\ Len(q) \in Nat \ {0} /\ DOMAIN q = 1 .. Len(q)
        /\ DOMAIN Tail(q) = 1 .. (Len(q) - 1) /\ Head(q) = q[1]
    BY <1>1
  <1>3. \A i \in DOMAIN Tail(q) : i + 1 \in DOMAIN q /\ Tail(q)[i] = q[i + 1]
    BY <1>1, <1>2
  <1>4. 1 \in DOMAIN q
    BY <1>2
  <1>5. CASE \A j \in DOMAIN q : <<k, ~b>> \notin q[j]
    <2>1. \A j \in DOMAIN Tail(q) : <<k, ~b>> \notin Tail(q)[j]
      BY <1>3, <1>5
    <2>2. <<k, ~b>> \notin s.msg
      BY <1>2, <1>4, <1>5
    <2>3. CASE <<k, b>> \in q[1]
      BY <1>2, <2>1, <2>2, <2>3 DEF Reaches
    <2>4. ASSUME NEW i \in DOMAIN q, <<k, b>> \in q[i], i # 1
          PROVE  Reaches(Tail(q), snd, sn, k, b)
      <3>1. i - 1 \in DOMAIN Tail(q) /\ (i - 1) + 1 = i
        BY <1>2, <2>4
      <3> QED BY <1>3, <2>1, <2>4, <3>1 DEF Reaches
    <2>5. CASE k \in sn <=> b
      BY <2>1, <2>2, <2>5 DEF Reaches
    <2> QED BY <2>3, <2>4, <2>5 DEF Reaches
  <1>6. ASSUME NEW i \in DOMAIN q, <<k, b>> \in q[i], \A j \in DOMAIN q : j >= i => <<k, ~b>> \notin q[j], i # 1
        PROVE  Reaches(Tail(q), snd, sn, k, b)
    <2>1. i - 1 \in DOMAIN Tail(q) /\ (i - 1) + 1 = i
      BY <1>2, <1>6
    <2>2. \A j \in DOMAIN Tail(q) : j >= i - 1 => j + 1 >= i
      BY <1>2, <2>1
    <2> QED BY <1>3, <1>6, <2>1, <2>2 DEF Reaches
  <1>7. ASSUME <<k, b>> \in q[1], \A j \in DOMAIN q : j >= 1 => <<k, ~b>> \notin q[j]
        PROVE  \A j \in DOMAIN q : <<k, ~b>> \notin q[j]
    BY <1>2, <1>7
  <1> QED BY <1>5, <1>6, <1>7 DEF Reaches

(* A try that arrives, and one that does not, leave what a person will     *)
(* take an alert for: reading a message twice is reading it once (notify.js *)
(* 360-372).                                                               *)
LEMMA ReachesTry ==
    ASSUME NEW q, NEW snd, NEW sn, NEW k \in Key, NEW b \in BOOLEAN, NEW s, snd = {s},
           NEW snd2, NEW sn2, Reaches(q, snd, sn, k, b),
           \/ snd2 = {} /\ sn2 = Read(sn, s.msg)
           \/ (\E s2 : snd2 = {s2} /\ s2.msg = s.msg) /\ sn2 \in {sn, Read(sn, s.msg)}
    PROVE  Reaches(q, snd2, sn2, k, b)
  <1>1. <<k, b>> \in s.msg /\ <<k, ~b>> \notin s.msg => (k \in Read(sn, s.msg) <=> b)
    <2>1. CASE b = TRUE
      BY <2>1 DEF Read
    <2>2. CASE b = FALSE
      BY <2>2 DEF Read
    <2> QED BY <2>1, <2>2
  <1>2. <<k, ~b>> \notin s.msg /\ (k \in sn <=> b) => (k \in Read(sn, s.msg) <=> b)
    <2>1. CASE b = TRUE
      BY <2>1 DEF Read
    <2>2. CASE b = FALSE
      BY <2>2 DEF Read
    <2> QED BY <2>1, <2>2
  <1>3. CASE snd2 = {} /\ sn2 = Read(sn, s.msg)
    BY <1>1, <1>2, <1>3 DEF Reaches
  <1>4. ASSUME NEW s2, snd2 = {s2}, s2.msg = s.msg, sn2 \in {sn, Read(sn, s.msg)}
        PROVE  Reaches(q, snd2, sn2, k, b)
    BY <1>2, <1>4 DEF Reaches
  <1> QED BY <1>3, <1>4

-----------------------------------------------------------------------------
(* The invariant.  A channel that nothing failed to reach is on, and what  *)
(* waits for it, or is held, tells of every alert that fires.  It tells of *)
(* the ends too where no end can be left out of a summary: for critical    *)
(* alerts, and for all where no settings have quiet hours.                 *)

NoQuietHours == \A g \in Configs : g.quiet = NoHours
Straight(k) == Sev[k] = "critical" \/ NoQuietHours

WorkerInv == /\ \A c \in Channel : \A s, t \in sending[c] : s = t
             /\ Channel \ cfg.on \subseteq missed
             /\ NoQuietHours => held = << >> /\ disk.held = << >>

Reached(c, k) == k \in HeldKeys \/ Reaches(queue[c], sending[c], seen[c], k, firing[k])
SeenInv == \A c \in Channel \ missed :
              /\ HeldIsTrue
              /\ \A k \in Key : Concerns(k, c) /\ (firing[k] \/ Straight(k)) => Reached(c, k)

(* An alert whose ends are all told is never held (notify.js 426).         *)
LEMMA StraightNotHeld ==
    ASSUME HeldInv, WorkerInv, NEW k \in Key, Straight(k)
    PROVE  k \notin HeldKeys
  <1>1. CASE Sev[k] = "critical"
    BY <1>1 DEF HeldInv, Warnings, HeldKeys
  <1>2. CASE NoQuietHours
    <2>1. held = << >>
      BY <1>2 DEF WorkerInv
    <2> QED BY <2>1 DEF HeldKeys
  <1> QED BY <1>1, <1>2 DEF Straight

(* One message at a time per channel, only for channels that are on, and   *)
(* nothing is held without quiet hours (notify.js 373-393, 426).           *)
LEMMA WorkersAlways == Spec => [](TypeInv /\ HeldInv /\ WorkerInv)
  <1>1. Init => WorkerInv
    BY DEF Init, State, WorkerInv
  <1>2. TypeInv /\ WorkerInv /\ [Next]_vars => WorkerInv'
    <2> SUFFICES ASSUME TypeInv, WorkerInv, [Next]_vars
                 PROVE  WorkerInv'
      OBVIOUS
    <2>0. TypeOK /\ sending \in [Channel -> SUBSET [msg : Message, tries : 0 .. Retries]]
      BY DEF TypeInv, TypeOK
    <2>1. Channel \ cfg'.on \subseteq missed'
      <3>0. Channel \ cfg.on \subseteq missed
        BY DEF WorkerInv
      <3>1. \A c \in Channel : SendStep(c) => cfg' = cfg /\ missed \subseteq missed'
        BY DEF SendStep, Sent, FailsOnce, GivesUp, Try
      <3>2. \A c \in Channel : Take(c) => cfg' = cfg /\ missed \subseteq missed'
        BY DEF Take, TakeNext
      <3>3. \A k \in Key, kind \in Kinds : Info(k, kind) \/ Hold(k, kind) \/ Deliver(k, kind)
                => cfg' = cfg /\ missed \subseteq missed'
        BY <2>0 DEF Info, Hold, Deliver, TypeOK
      <3>4. Tick \/ Pass \/ UNCHANGED vars => cfg' = cfg /\ missed \subseteq missed'
        BY DEF Tick, TickChanges, Pass, vars, pastVars
      <3>5. \A g \in Configs : SetConfig(g) \/ Restart(g) => Channel \ cfg'.on \subseteq missed'
        BY DEF SetConfig, Restart, Changed
      <3> QED BY <3>0, <3>1, <3>2, <3>3, <3>4, <3>5 DEF Next
    <2>2. \A c \in Channel : \A s, t \in sending'[c] : s = t
      <3>0. \A c \in Channel : \A s, t \in sending[c] : s = t
        BY DEF WorkerInv
      <3>1. ASSUME NEW c \in Channel, Take(c) PROVE \A d \in Channel : \A s, t \in sending'[d] : s = t
        BY <2>0, <3>0, <3>1 DEF Take, TakeNext
      <3>2. ASSUME NEW c \in Channel, SendStep(c) PROVE \A d \in Channel : \A s, t \in sending'[d] : s = t
        <4>1. PICK s \in sending[c] : \/ Sent(c, s)
                                      \/ \E arrived \in BOOLEAN : FailsOnce(c, s, arrived)
                                      \/ \E arrived \in BOOLEAN : GivesUp(c, s, arrived)
          BY <3>2 DEF SendStep
        <4>2. \/ sending' = [sending EXCEPT ![c] = (sending[c] \ {s}) \cup {}]
              \/ sending' = [sending EXCEPT ![c] = (sending[c] \ {s}) \cup {[s EXCEPT !.tries = @ + 1]}]
          BY <4>1 DEF Sent, FailsOnce, GivesUp, Try
        <4>3. sending[c] \ {s} = {}
          BY <3>0
        <4> QED BY <2>0, <3>0, <4>2, <4>3
      <3>3. (\E g \in Configs : Restart(g)) => \A d \in Channel : \A s, t \in sending'[d] : s = t
        BY DEF Restart
      <3>4. \/ \E k \in Key, kind \in Kinds : Info(k, kind) \/ Hold(k, kind) \/ Deliver(k, kind)
            \/ \E g \in Configs : SetConfig(g)
            \/ Tick \/ Pass \/ UNCHANGED vars
            => UNCHANGED sending
        BY DEF Info, Hold, Deliver, SetConfig, Tick, TickChanges, Pass, vars, sendVars
      <3> QED BY <3>0, <3>1, <3>2, <3>3, <3>4 DEF Next
    <2>3. NoQuietHours => held' = << >> /\ disk'.held = << >>
      <3> SUFFICES ASSUME NoQuietHours PROVE held' = << >> /\ disk'.held = << >>
        OBVIOUS
      <3>1. held = << >> /\ disk.held = << >>
        BY DEF WorkerInv
      <3>2. ~InQuiet(clock)
        <4>1. cfg.quiet = NoHours
          BY <2>0 DEF TypeOK, NoQuietHours
        <4> QED BY <4>1 DEF InQuiet
      <3>3. ~ \E k \in Key, kind \in Kinds : Hold(k, kind)
        BY <3>2 DEF Hold
      <3>4. HeldAfter = << >>
        BY <3>1 DEF HeldAfter
      <3>5. held' = << >>
        BY <3>1, <3>3, <3>4, HeldChanges
      <3> QED BY <3>1, <3>5, DiskChanges
    <2> QED BY <2>1, <2>2, <2>3 DEF WorkerInv, NoQuietHours
  <1> QED BY <1>1, <1>2, HeldAlways, PTL DEF Spec

(* The summary tells a channel that takes it of what was held: an alert    *)
(* that still fires is in it (notify.js 405-411).                          *)
LEMMA SummaryReaches ==
    ASSUME TypeInv, HeldInv, WorkerInv, HeldIsTrue,
           NEW c \in Channel \ missed, c \notin Full(queue, SummaryTakers),
           NEW k \in Key, Concerns(k, c), Reached(c, k), firing[k] \/ k \notin HeldKeys
    PROVE  \/ k \in HeldKeys /\ HeldAfter = held
           \/ Reaches(QueueAfter[c], sending[c], seen[c], k, firing[k])
  <1>0. TypeOK /\ HasLast(held) /\ Warnings(held)
    BY DEF TypeInv, HeldInv
  <1>1. QueueType(queue) /\ Lines \in Message /\ firing[k] \in BOOLEAN
    BY <1>0, ReleaseType DEF TypeOK, QueueType
  <1>2. QueueAfter[c] = IF c \in SummaryTakers THEN Append(queue[c], Lines) ELSE queue[c]
    BY <1>1, PutAppends DEF QueueAfter
  <1>3. queue[c] \in Seq(Message)
    BY <1>1 DEF QueueType
  <1>4. CASE ~Releases
    <2>1. SummaryTakers = {} /\ HeldAfter = held
      BY <1>4 DEF SummaryTakers, Lines, HeldAfter
    <2> QED BY <1>2, <2>1 DEF Reached
  <1>5. CASE Releases /\ k \notin HeldKeys
    <2>1. Reaches(queue[c], sending[c], seen[c], k, firing[k])
      BY <1>5 DEF Reached
    <2>2. \A b : <<k, b>> \notin Lines
      <3> SUFFICES ASSUME NEW b, <<k, b>> \in Lines PROVE FALSE
        OBVIOUS
      <3>1. <<k, b>>[1] \in HeldKeys
        BY LinesAreTrue
      <3> QED BY <1>5, <3>1
    <2>3. Reaches(Append(queue[c], Lines), sending[c], seen[c], k, firing[k])
      BY <1>1, <1>3, <2>1, <2>2, ReachesAppend
    <2> QED BY <1>2, <2>1, <2>3
  <1>6. CASE Releases /\ k \in HeldKeys
    <2>1. PICK i \in DOMAIN held : held[i].key = k /\ IsLast(held, i) /\ LastKind(k) = held[i].kind
      BY <1>0, <1>6, HeldKeyHasLast
    <2>2. firing[k]
      BY <1>6
    <2>3. LastKind(k) # "resolved"
      BY <2>1, <2>2 DEF HeldIsTrue, SaysTrue
    <2>4. <<k, TRUE>> \in Lines
      <3>1. (LastKind(k) # "resolved") = TRUE
        BY <2>3
      <3>2. <<k, LastKind(k) # "resolved">> \in Summary
        BY <1>6, <2>3 DEF Summary
      <3> QED BY <1>6, <3>1, <3>2 DEF Lines
    <2>5. <<k, FALSE>> \notin Lines
      <3> SUFFICES ASSUME <<k, FALSE>> \in Lines PROVE FALSE
        OBVIOUS
      <3>1. <<k, FALSE>>[2] <=> firing[<<k, FALSE>>[1]]
        BY LinesAreTrue
      <3> QED BY <2>2, <3>1
    <2>6. Sev[k] = "warning"
      BY <1>0, <2>1 DEF Warnings
    <2>7. c \in SummaryTakers
      <3>1. c \in cfg.on
        BY DEF WorkerInv
      <3> QED BY <2>4, <2>6, <3>1 DEF SummaryTakers, Takers, Concerns
    <2>8. Reaches(Append(queue[c], Lines), sending[c], seen[c], k, TRUE)
      BY <1>1, <1>3, <2>4, <2>5, ReachesAppend
    <2>9. firing[k] = TRUE
      BY <1>1, <2>2
    <2> QED BY <1>2, <2>7, <2>8, <2>9
  <1> QED BY <1>4, <1>5, <1>6

(* A channel that missed something has missed it for good.                 *)
LEMMA MissedGrows ==
    ASSUME TypeInv, [Next]_vars
    PROVE  missed \subseteq missed'
  <1>0. missed \subseteq Channel
    BY DEF TypeInv, TypeOK
  <1>1. \A c \in Channel : Take(c) \/ SendStep(c) => missed \subseteq missed'
    BY DEF Take, TakeNext, SendStep, Sent, FailsOnce, GivesUp
  <1>2. \A k \in Key, kind \in Kinds : Info(k, kind) \/ Hold(k, kind) \/ Deliver(k, kind) => missed \subseteq missed'
    BY <1>0 DEF Info, Hold, Deliver
  <1>3. \A g \in Configs : SetConfig(g) \/ Restart(g) => missed \subseteq missed'
    BY DEF SetConfig, Restart
  <1>4. Tick \/ Pass \/ UNCHANGED vars => missed \subseteq missed'
    BY DEF Tick, TickChanges, Pass, vars, pastVars
  <1> QED BY <1>1, <1>2, <1>3, <1>4 DEF Next

(* Every step keeps a channel that it does not fail in touch with every    *)
(* alert that fires, and with every end that must be told.                 *)
LEMMA ReachedStep ==
    ASSUME TypeInv, HeldInv, WorkerInv, SeenInv, Next, TypeInv', NEW c \in Channel, c \notin missed',
           NEW k \in Key, Concerns(k, c)', firing'[k] \/ Straight(k)
    PROVE  Reached(c, k)'
  <1>0. /\ c \in Channel \ missed /\ TypeOK
        /\ HeldIsTrue
        /\ Concerns(k, c) /\ (firing[k] \/ Straight(k)) => Reached(c, k)
    BY MissedGrows DEF SeenInv, TypeInv
  <1>1. /\ QueueType(queue) /\ QueueType(QueueAfter) /\ Lines \in Message
        /\ firing \in [Key -> BOOLEAN] /\ firing' \in [Key -> BOOLEAN]
        /\ sending \in [Channel -> SUBSET [msg : Message, tries : 0 .. Retries]]
        /\ seen \in [Channel -> SUBSET Key]
        /\ queue[c] \in Seq(Message) /\ QueueAfter[c] \in Seq(Message)
    BY <1>0, ReleaseType DEF TypeOK, TypeInv, QueueType
  <1>2. Straight(k) => k \notin HeldKeys
    BY StraightNotHeld
  <1>3. c \in cfg.on
    BY <1>0 DEF WorkerInv
  <1>4. ASSUME UNCHANGED <<held, queue, sending, seen, firing>>, Concerns(k, c)
        PROVE  Reached(c, k)'
    BY <1>0, <1>4 DEF Reached, HeldKeys
  <1>5. ASSUME NEW k0 \in Key, NEW kind \in Kinds, Info(k0, kind)
        PROVE  Reached(c, k)'
    <2>1. Concerns(k, c) /\ k # k0
      BY <1>5 DEF Info, Concerns
    <2>2. firing'[k] = firing[k]
      BY <1>1, <1>5, <2>1 DEF Info, Tells
    <2>3. held' = HeldAfter /\ queue' = QueueAfter /\ UNCHANGED <<sending, seen>> /\ c \notin Full(queue, SummaryTakers)
      BY <1>5 DEF Info
    <2>4. \/ k \in HeldKeys /\ HeldAfter = held
          \/ Reaches(QueueAfter[c], sending[c], seen[c], k, firing[k])
      BY <1>0, <1>2, <2>1, <2>2, <2>3, SummaryReaches
    <2> QED BY <2>2, <2>3, <2>4 DEF Reached, HeldKeys
  <1>6. ASSUME NEW k0 \in Key, NEW kind \in Kinds, Hold(k0, kind)
        PROVE  Reached(c, k)'
    <2> DEFINE e == [key |-> k0, kind |-> kind]
    <2>1. held \in Seq(HeldEvent) /\ e \in HeldEvent /\ MaxHeld \in Nat \ {0} /\ e.key = k0 /\ HasLast(held)
      BY NotifyAssumption DEF TypeInv, TypeOK, HeldEvent, Kinds, HeldInv
    <2>2. held' = Newest(Append(held, e), MaxHeld) /\ UNCHANGED <<cfg, queue, sending, seen>>
      BY <1>6 DEF Hold, sendVars
    <2>3. Len(held) < MaxHeld
      BY <1>6, <2>1 DEF Hold
    <2> HIDE DEF e
    <2>4. /\ \E i \in DOMAIN held' : held'[i] = e
          /\ \A j \in DOMAIN held : \E i \in DOMAIN held' : held'[i] = held[j]
      BY <2>1, <2>2, <2>3, HoldAppends
    <2>5. k0 \in HeldKeys' /\ HeldKeys \subseteq HeldKeys'
      BY <2>1, <2>4 DEF HeldKeys
    <2>6. CASE k # k0
      <3>1. firing'[k] = firing[k]
        BY <1>1, <1>6, <2>6 DEF Hold, Tells
      <3>2. Concerns(k, c)
        BY <2>2 DEF Concerns
      <3>3. k \in HeldKeys \/ Reaches(queue[c], sending[c], seen[c], k, firing[k])
        BY <1>0, <3>1, <3>2 DEF Reached
      <3> QED BY <2>2, <2>5, <3>1, <3>3 DEF Reached
    <2> QED BY <2>5, <2>6 DEF Reached
  <1>7. ASSUME NEW k0 \in Key, NEW kind \in Kinds, Deliver(k0, kind)
        PROVE  Reached(c, k)'
    <2> DEFINE m == {<<k0, kind # "resolved">>}
               to == Takers(Sev[k0])
    <2>0. <<k0, kind # "resolved">> \in Key \X BOOLEAN
      OBVIOUS
    <2>1. m \in Message
      BY <2>0 DEF Message, Line
    <2>2. /\ held' = HeldAfter /\ UNCHANGED <<cfg, sending, seen>>
          /\ queue' = Put(QueueAfter, m, to)
          /\ c \notin Full(queue, SummaryTakers) /\ c \notin Full(QueueAfter, to)
          /\ firing' = [firing EXCEPT ![k0] = kind # "resolved"]
      BY <1>7 DEF Deliver, Tells
    <2>3. Concerns(k, c)
      BY <2>2 DEF Concerns
    <2>4. queue'[c] = IF c \in to THEN Append(QueueAfter[c], m) ELSE QueueAfter[c]
      <3> HIDE DEF m, to
      <3> QED BY <1>1, <2>1, <2>2, PutAppends
    <2>5. CASE k = k0
      <3>1. c \in to
        BY <1>3, <2>3, <2>5 DEF Takers, Concerns
      <3>2. firing'[k] = (kind # "resolved") /\ firing'[k] \in BOOLEAN
        BY <1>1, <2>2, <2>5
      <3>3. <<k, firing'[k]>> \in m /\ <<k, ~firing'[k]>> \notin m
        BY <2>5, <3>2
      <3> HIDE DEF m
      <3>4. Reaches(Append(QueueAfter[c], m), sending[c], seen[c], k, firing'[k])
        BY <1>1, <2>1, <3>2, <3>3, ReachesAppend
      <3> QED BY <2>2, <2>4, <3>1, <3>4 DEF Reached
    <2>6. CASE k # k0
      <3>1. firing'[k] = firing[k] /\ firing[k] \in BOOLEAN
        BY <1>1, <2>2, <2>6
      <3>2. \/ k \in HeldKeys /\ HeldAfter = held
            \/ Reaches(QueueAfter[c], sending[c], seen[c], k, firing[k])
        BY <1>0, <1>2, <2>2, <2>3, <3>1, SummaryReaches
      <3>3. CASE k \in HeldKeys /\ HeldAfter = held
        BY <2>2, <3>3 DEF Reached, HeldKeys
      <3>4. CASE Reaches(QueueAfter[c], sending[c], seen[c], k, firing[k])
        <4>1. \A b : <<k, b>> \notin m
          BY <2>6
        <4> HIDE DEF m
        <4>2. Reaches(Append(QueueAfter[c], m), sending[c], seen[c], k, firing[k])
          BY <1>1, <2>1, <3>1, <3>4, <4>1, UnnamedAppend
        <4> QED BY <2>2, <2>4, <3>1, <3>4, <4>2 DEF Reached
      <3> QED BY <3>2, <3>3, <3>4
    <2> QED BY <2>5, <2>6
  <1>8. CASE Tick
    <2>1. TickChanges
      BY <1>8 DEF Tick
    <2>2. /\ held' = HeldAfter /\ UNCHANGED <<cfg, sending, seen, firing>>
          /\ queue' = Put(QueueAfter, {}, DigestTakers)
          /\ c \notin Full(queue, SummaryTakers) /\ c \notin Full(QueueAfter, DigestTakers)
      BY <2>1 DEF TickChanges, envVars
    <2>3. Concerns(k, c) /\ firing[k] \in BOOLEAN /\ {} \in Message
      BY <1>1, <2>2 DEF Concerns, Message
    <2>4. queue'[c] = IF c \in DigestTakers THEN Append(QueueAfter[c], {}) ELSE QueueAfter[c]
      BY <1>1, <2>2, <2>3, PutAppends
    <2>5. \/ k \in HeldKeys /\ HeldAfter = held
          \/ Reaches(QueueAfter[c], sending[c], seen[c], k, firing[k])
      BY <1>0, <1>2, <2>2, <2>3, SummaryReaches
    <2>6. CASE k \in HeldKeys /\ HeldAfter = held
      BY <2>2, <2>6 DEF Reached, HeldKeys
    <2>7. CASE Reaches(QueueAfter[c], sending[c], seen[c], k, firing[k])
      <3>1. \A x : <<k, x>> \notin {}
        OBVIOUS
      <3>2. Reaches(Append(QueueAfter[c], {}), sending[c], seen[c], k, firing[k])
        BY <1>1, <2>3, <2>7, <3>1, UnnamedAppend
      <3> QED BY <2>2, <2>4, <2>7, <3>2 DEF Reached
    <2> QED BY <2>5, <2>6, <2>7
  <1>9. ASSUME NEW c0 \in Channel, Take(c0)
        PROVE  Reached(c, k)'
    <2>1. UNCHANGED <<cfg, held, seen, firing>>
      BY <1>9 DEF Take, TakeNext, stateVars, envVars
    <2>2. Concerns(k, c) /\ firing[k] \in BOOLEAN
      BY <1>1, <2>1 DEF Concerns
    <2>3. CASE c # c0
      <3>1. queue'[c] = queue[c] /\ sending'[c] = sending[c]
        BY <1>1, <1>9, <2>3 DEF Take, TakeNext, QueueType
      <3> QED BY <1>0, <2>1, <2>2, <3>1 DEF Reached, HeldKeys
    <2>4. CASE c = c0
      <3> DEFINE s == [msg |-> Head(queue[c]), tries |-> 0]
      <3>1. queue[c] # << >> /\ sending[c] = {} /\ queue'[c] = Tail(queue[c]) /\ sending'[c] = {s} /\ s.msg = Head(queue[c])
        BY <1>1, <1>3, <1>9, <2>4 DEF Take, TakeNext, QueueType
      <3>2. k \in HeldKeys \/ Reaches(queue[c], {}, seen[c], k, firing[k])
        BY <1>0, <2>1, <2>2, <3>1 DEF Reached
      <3> HIDE DEF s
      <3>3. Reaches(queue[c], {}, seen[c], k, firing[k]) => Reaches(Tail(queue[c]), sending'[c], seen[c], k, firing[k])
        BY <1>1, <2>2, <3>1, ReachesTake
      <3> QED BY <2>1, <3>1, <3>2, <3>3 DEF Reached, HeldKeys
    <2> QED BY <2>3, <2>4
  <1>10. ASSUME NEW c0 \in Channel, SendStep(c0)
         PROVE  Reached(c, k)'
    <2>1. PICK s \in sending[c0] : \/ Sent(c0, s)
                                   \/ \E arrived \in BOOLEAN : FailsOnce(c0, s, arrived)
                                   \/ \E arrived \in BOOLEAN : GivesUp(c0, s, arrived)
      BY <1>10 DEF SendStep
    <2>2. UNCHANGED <<cfg, held, queue, firing>>
      BY <2>1 DEF Sent, FailsOnce, GivesUp, Try, stateVars, envVars
    <2>3. Concerns(k, c) /\ firing[k] \in BOOLEAN
      BY <1>1, <2>2 DEF Concerns
    <2>4. CASE c # c0
      <3>1. sending'[c] = sending[c] /\ seen'[c] = seen[c]
        BY <1>1, <2>1, <2>4 DEF Sent, FailsOnce, GivesUp, Try
      <3> QED BY <1>0, <2>2, <2>3, <3>1 DEF Reached, HeldKeys
    <2>5. CASE c = c0
      <3>1. sending[c] = {s} /\ s \in [msg : Message, tries : 0 .. Retries]
        BY <1>1, <2>5 DEF WorkerInv
      <3>2. k \in HeldKeys \/ Reaches(queue[c], sending[c], seen[c], k, firing[k])
        BY <1>0, <2>2, <2>3 DEF Reached
      <3>3. CASE Sent(c0, s)
        <4>1. sending'[c] = {} /\ seen'[c] = Read(seen[c], s.msg)
          BY <1>1, <2>5, <3>1, <3>3 DEF Sent, Try
        <4>2. Reaches(queue[c], sending[c], seen[c], k, firing[k])
                 => Reaches(queue[c], sending'[c], seen'[c], k, firing[k])
          BY <2>3, <3>1, <4>1, ReachesTry
        <4> QED BY <2>2, <3>2, <4>2 DEF Reached, HeldKeys
      <3>4. ASSUME NEW arrived \in BOOLEAN, FailsOnce(c0, s, arrived) PROVE Reached(c, k)'
        <4> DEFINE s2 == [s EXCEPT !.tries = @ + 1]
        <4>1. sending'[c] = {s2} /\ s2.msg = s.msg
          BY <1>1, <2>5, <3>1, <3>4 DEF FailsOnce, Try
        <4>2. seen'[c] \in {seen[c], Read(seen[c], s.msg)}
          BY <1>1, <2>5, <3>4 DEF FailsOnce, Try
        <4> HIDE DEF s2
        <4>3. Reaches(queue[c], sending[c], seen[c], k, firing[k])
                 => Reaches(queue[c], sending'[c], seen'[c], k, firing[k])
          BY <2>3, <3>1, <4>1, <4>2, ReachesTry
        <4> QED BY <2>2, <3>2, <4>3 DEF Reached, HeldKeys
      <3>5. ASSUME NEW arrived \in BOOLEAN, GivesUp(c0, s, arrived) PROVE FALSE
        BY <2>5, <3>5 DEF GivesUp
      <3> QED BY <2>1, <3>3, <3>4, <3>5
    <2> QED BY <2>4, <2>5
  <1>11. ASSUME NEW g \in Configs, SetConfig(g) PROVE Reached(c, k)'
    <2>1. cfg' = g /\ g.min[c] = cfg.min[c] /\ UNCHANGED <<held, queue, sending, seen, firing>>
      BY <1>11 DEF SetConfig, Changed, stateVars, sendVars, envVars
    <2>2. Concerns(k, c)
      BY <2>1 DEF Concerns
    <2> QED BY <1>4, <2>1, <2>2
  <1>12. ASSUME NEW g \in Configs, Restart(g) PROVE Reached(c, k)'
    <2>1. /\ cfg' = g /\ g.min[c] = cfg.min[c] /\ UNCHANGED <<seen, firing>>
          /\ queue[c] = << >> /\ sending[c] = {} /\ queue'[c] = << >> /\ sending'[c] = {}
          /\ held' = disk.held /\ disk = State
      BY <1>12 DEF Restart, Changed, envVars
    <2>2. held' = held
      BY <2>1 DEF State
    <2>3. Concerns(k, c)
      BY <2>1 DEF Concerns
    <2> QED BY <1>0, <2>1, <2>2, <2>3 DEF Reached, HeldKeys
  <1>13. CASE Pass
    <2>1. UNCHANGED <<cfg, held, queue, sending, seen, firing>>
      BY <1>13 DEF Pass, stateVars, sendVars, envVars, pastVars
    <2>2. Concerns(k, c)
      BY <2>1 DEF Concerns
    <2> QED BY <1>4, <2>1, <2>2
  <1> QED BY <1>5, <1>6, <1>7, <1>8, <1>9, <1>10, <1>11, <1>12, <1>13 DEF Next

(* The invariant holds in every state.                                     *)
LEMMA SeenAlways == Spec => [](TypeInv /\ HeldInv /\ WorkerInv /\ SeenInv)
  <1>1. Init => SeenInv
    <2> SUFFICES ASSUME Init PROVE SeenInv
      OBVIOUS
    <2>1. HeldIsTrue
      BY DEF Init, HeldIsTrue, SaysTrue
    <2>2. ASSUME NEW c \in Channel, NEW k \in Key PROVE Reached(c, k)
      <3>1. queue[c] = << >> /\ sending[c] = {} /\ seen[c] = {} /\ firing[k] = FALSE
        BY DEF Init
      <3>2. Reaches(<< >>, {}, {}, k, FALSE)
        BY DEF Reaches
      <3> QED BY <3>1, <3>2 DEF Reached
    <2> QED BY <2>1, <2>2 DEF SeenInv
  <1>2. TypeInv /\ HeldInv /\ WorkerInv /\ SeenInv /\ [Next]_vars /\ TypeInv' => SeenInv'
    <2> SUFFICES ASSUME TypeInv, HeldInv, WorkerInv, SeenInv, [Next]_vars, TypeInv',
                        NEW c \in Channel, c \notin missed'
                 PROVE  /\ HeldIsTrue'
                        /\ \A k \in Key : Concerns(k, c)' /\ (firing'[k] \/ Straight(k)) => Reached(c, k)'
      BY DEF SeenInv, Straight, NoQuietHours
    <2>1. HeldIsTrue /\ c \in Channel \ missed
      BY MissedGrows DEF SeenInv
    <2>2. (\E g \in Configs : Restart(g)) => disk = State
      BY DEF Restart
    <2>3. HeldIsTrue'
      BY <2>1, <2>2, HeldStaysTrue
    <2>4. CASE Next
      BY <2>3, <2>4, ReachedStep
    <2>5. CASE UNCHANGED vars
      <3>1. UNCHANGED <<cfg, held, queue, sending, seen, firing>>
        BY <2>5 DEF vars, stateVars, sendVars, envVars, pastVars
      <3>2. \A k \in Key : Concerns(k, c) /\ (firing[k] \/ Straight(k)) => Reached(c, k)
        BY <2>1 DEF SeenInv
      <3> QED BY <2>3, <3>1, <3>2 DEF Concerns, Reached, HeldKeys
    <2> QED BY <2>4, <2>5
  <1> QED BY <1>1, <1>2, WorkersAlways, PTL DEF Spec

(* Once nothing waits for a channel, what reaches a person is what they    *)
(* have seen.                                                              *)
LEMMA SettledIsSeen ==
    ASSUME TypeInv, SeenInv, NEW c \in Channel, NEW k \in Key, Settled(c), Concerns(k, c),
           firing[k] \/ Straight(k)
    PROVE  k \in seen[c] <=> firing[k]
  <1>1. c \in Channel \ missed /\ queue[c] = << >> /\ sending[c] = {} /\ held = << >>
    BY DEF Settled
  <1>2. HeldKeys = {} /\ firing[k] \in BOOLEAN
    BY <1>1 DEF HeldKeys, TypeInv, TypeOK
  <1>3. Reaches(<< >>, {}, seen[c], k, firing[k])
    BY <1>1, <1>2 DEF SeenInv, Reached
  <1> QED BY <1>2, <1>3 DEF Reaches

(* Once nothing waits, and nothing failed to reach a channel, a person     *)
(* sees every alert that fires: messages are sent in order, tried again,   *)
(* and the summary stands for what quiet hours held (notify.js 373-411).   *)
(* Neither changes of other channels nor restarts that keep the state      *)
(* break that.                                                             *)
THEOREM FiringReachesPeople == Spec => []FiringIsSeen
  <1>1. TypeInv /\ SeenInv => FiringIsSeen
    BY SettledIsSeen DEF FiringIsSeen
  <1> QED BY <1>1, SeenAlways, PTL

(* Where no settings have quiet hours, a person knows every end too: "an   *)
(* end never overtakes its start" (notify.js 373).  With quiet hours that  *)
(* is not so: the summary leaves out an end whose alert ended, fired and   *)
(* ended again inside them.                                                *)
THEOREM EndsReachPeople ==
    ASSUME \A g \in Configs : g.quiet = NoHours
    PROVE  Spec => []EndIsSeen
  <1>1. \A k : Straight(k)
    BY DEF Straight, NoQuietHours
  <1>2. TypeInv /\ SeenInv => EndIsSeen
    BY <1>1, SettledIsSeen DEF EndIsSeen
  <1> QED BY <1>2, SeenAlways, PTL

(* EndIsSeen of critical alerts only.                                      *)
CriticalEndIsSeen ==
    \A c \in Channel, k \in Key :
        Sev[k] = "critical" /\ Settled(c) /\ Concerns(k, c) /\ k \in seen[c] => firing[k]

(* The ends of critical alerts are known whatever the quiet hours are: a   *)
(* critical event is never held (notify.js 426).                           *)
THEOREM CriticalEndsReachPeople == Spec => []CriticalEndIsSeen
  <1>1. TypeInv /\ SeenInv => CriticalEndIsSeen
    BY SettledIsSeen DEF CriticalEndIsSeen, Straight
  <1> QED BY <1>1, SeenAlways, PTL

-----------------------------------------------------------------------------
(* The digest.                                                             *)

(* Events are numbered in their order; those in the digest are not in an   *)
(* older one, and the day noted is at least the one of the last digest.    *)
DigestInv ==
    /\ disk.digest = digest /\ disk.digestDay = digestDay
    /\ \A i \in DOMAIN digest : digest[i] < events /\ digest[i] \notin digested
    /\ \A e \in digested : e < events
    /\ lastDigest <= digestDay
    /\ digestDay <= DayOf(clock)

(* Days pass in their order.                                               *)
LEMMA DaysPass ==
    ASSUME NEW t \in Nat
    PROVE  DayOf(t) <= DayOf(t + 1)
  <1>1. Day \in Nat \ {0}
    BY NotifyAssumption
  <1> QED BY <1>1 DEF DayOf

(* While every save succeeds, the digest in the file is the one in memory, *)
(* and what went out before is in neither.                                 *)
LEMMA DigestAlways ==
    ASSUME SaveOutcomes = {TRUE}
    PROVE  Spec => [](TypeInv /\ DigestInv)
  <1>1. Init => DigestInv
    <2> SUFFICES ASSUME Init PROVE DigestInv
      OBVIOUS
    <2>1. DayOf(0) \in Nat
      BY DayType
    <2> QED BY <2>1 DEF Init, State, DigestInv
  <1>2. TypeInv /\ DigestInv /\ [Next]_vars => DigestInv'
    <2> SUFFICES ASSUME TypeInv, DigestInv, [Next]_vars
                 PROVE  DigestInv'
      OBVIOUS
    <2>0. /\ clock \in Nat /\ events \in Nat /\ digest \in Seq(Nat) /\ digested \subseteq Nat
          /\ digestDay \in Int /\ lastDigest \in Int
      BY DEF TypeInv, TypeOK
    <2>1. DayOf(clock) \in Nat /\ DayOf(clock) <= DayOf(clock + 1) /\ DayOf(clock + 1) \in Nat
      <3>1. clock + 1 \in Nat
        BY <2>0
      <3> QED BY <2>0, <3>1, DayType, DaysPass
    <2>2. Save => disk'.digest = digest' /\ disk'.digestDay = digestDay'
      BY DEF Save, State
    <2>3. ASSUME NEW k \in Key, NEW kind \in Kinds, Info(k, kind) PROVE DigestInv'
      <3>1. /\ digest' = Newest(Append(digest, events), MaxDigest) /\ events' = events + 1
            /\ UNCHANGED <<clock, digestDay, digested, lastDigest>> /\ Save
        BY <2>3 DEF Info, Tells
      <3>2. MaxDigest \in Nat
        BY NotifyAssumption
      <3>3. /\ Append(digest, events) \in Seq(Nat) /\ Len(Append(digest, events)) = Len(digest) + 1
            /\ \A i \in 1 .. Len(digest) : Append(digest, events)[i] = digest[i]
            /\ Append(digest, events)[Len(digest) + 1] = events
        BY <2>0, AppendProperties
      <3> DEFINE full == Append(digest, events)
                 cut == Len(full) - Len(digest')
      <3>4. /\ digest' \in Seq(Nat)
            /\ Len(digest') = IF Len(full) > MaxDigest THEN MaxDigest ELSE Len(full)
            /\ \A i \in 1 .. Len(digest') : digest'[i] = full[i + cut]
        <4> HIDE DEF full
        <4> QED BY <3>1, <3>2, <3>3, NewestCuts DEF full
      <3>5. ASSUME NEW i \in DOMAIN digest'
            PROVE  digest'[i] = events \/ \E j \in DOMAIN digest : digest'[i] = digest[j]
        <4>0. /\ Len(digest) \in Nat /\ Len(full) = Len(digest) + 1 /\ cut = Len(full) - Len(digest')
              /\ DOMAIN digest' = 1 .. Len(digest')
          BY <2>0, <3>3, <3>4
        <4>1. i \in 1 .. Len(digest') /\ i + cut \in 1 .. Len(digest) + 1
          <5>1. Len(digest') \in Nat /\ Len(digest') <= Len(digest) + 1
            BY <3>2, <3>4, <4>0
          <5> HIDE DEF full, cut
          <5> QED BY <4>0, <5>1
        <4>2. digest'[i] = full[i + cut]
          BY <3>4, <4>1
        <4> QED BY <3>3, <4>1, <4>2
      <3> HIDE DEF full, cut
      <3>6. events \notin digested /\ events < events + 1
        BY <2>0 DEF DigestInv
      <3>7. \A j \in DOMAIN digest : digest[j] < events + 1 /\ digest[j] \notin digested
        BY <2>0 DEF DigestInv
      <3>8. \A i \in DOMAIN digest' : digest'[i] < events' /\ digest'[i] \notin digested'
        BY <3>1, <3>5, <3>6, <3>7
      <3>9. \A e \in digested' : e < events'
        BY <2>0, <3>1 DEF DigestInv
      <3> QED BY <2>2, <3>1, <3>8, <3>9 DEF DigestInv
    <2>4. ASSUME NEW k \in Key, NEW kind \in Kinds, Hold(k, kind) PROVE DigestInv'
      <3>1. events' = events + 1 /\ UNCHANGED <<clock, digest, digestDay, digested, lastDigest>> /\ Save
        BY <2>4 DEF Hold, Tells
      <3> QED BY <2>0, <2>2, <3>1 DEF DigestInv
    <2>5. ASSUME NEW k \in Key, NEW kind \in Kinds, Deliver(k, kind) PROVE DigestInv'
      <3>1. events' = events + 1 /\ UNCHANGED <<clock, digest, digestDay, disk, digested, lastDigest>>
        BY <2>5 DEF Deliver, Tells
      <3>2. \A e \in Nat : e < events => e < events'
        BY <2>0, <3>1
      <3>3. \A i \in DOMAIN digest : digest[i] \in Nat
        BY <2>0
      <3> QED BY <2>0, <3>1, <3>2, <3>3 DEF DigestInv
    <2>6. CASE Tick
      <3>1. /\ digest' = (IF DigestDue THEN << >> ELSE digest)
            /\ digestDay' = (IF DigestDue THEN DayOf(clock) ELSE digestDay)
            /\ digested' = digested \cup Digested
            /\ lastDigest' = (IF Digested # {} THEN DayOf(clock) ELSE lastDigest)
            /\ UNCHANGED <<clock, events>> /\ Save
        BY <2>6 DEF Tick, TickChanges, envVars
      <3>2. CASE DigestDue
        <4>1. digest' = << >> /\ digestDay' = DayOf(clock)
          BY <3>1, <3>2
        <4>2. \A e \in digested' : e < events'
          BY <3>1 DEF Digested, DigestInv
        <4>3. lastDigest' <= digestDay' /\ digestDay' <= DayOf(clock')
          BY <2>0, <2>1, <3>1, <4>1 DEF DigestInv
        <4> QED BY <2>2, <3>1, <4>1, <4>2, <4>3 DEF DigestInv
      <3>3. CASE ~DigestDue
        <4>1. Digested = {}
          BY <3>3 DEF Digested
        <4>2. UNCHANGED <<clock, events, digest, digestDay, digested, lastDigest>>
          BY <3>1, <3>3, <4>1
        <4> QED BY <2>2, <3>1, <4>2 DEF DigestInv
      <3> QED BY <3>2, <3>3
    <2>7. ASSUME UNCHANGED <<clock, events, digest, digestDay, disk, digested, lastDigest>> PROVE DigestInv'
      BY <2>7 DEF DigestInv
    <2>8. ASSUME \/ \E c \in Channel : Take(c) \/ SendStep(c)
                 \/ \E g \in Configs : SetConfig(g)
                 \/ UNCHANGED vars
          PROVE  UNCHANGED <<clock, events, digest, digestDay, disk, digested, lastDigest>>
      BY <2>8 DEF Take, TakeNext, SendStep, Sent, FailsOnce, GivesUp, Try, SetConfig, vars, stateVars, envVars, pastVars
    <2>9. ASSUME NEW g \in Configs, Restart(g)
          PROVE  UNCHANGED <<clock, events, digest, digestDay, disk, digested, lastDigest>>
      BY <2>9 DEF Restart, DigestInv, envVars
    <2>10. CASE Pass
      <3>1. clock' = clock + 1 /\ UNCHANGED <<events, digest, digestDay, disk, digested, lastDigest>>
        BY <2>10 DEF Pass, stateVars, envVars, pastVars
      <3>2. DayOf(clock') = DayOf(clock + 1)
        BY <3>1
      <3>3. digestDay <= DayOf(clock) /\ lastDigest <= digestDay
        BY DEF DigestInv
      <3>4. digestDay' <= DayOf(clock')
        BY <2>0, <2>1, <3>1, <3>2, <3>3
      <3> QED BY <3>1, <3>4 DEF DigestInv
    <2> QED BY <2>3, <2>4, <2>5, <2>6, <2>7, <2>8, <2>9, <2>10 DEF Next
  <1> QED BY <1>1, <1>2, TypeInvariant, PTL DEF Spec

(* At most one digest a day, and no event in two of them, over restarts    *)
(* and changes of the digest's time (notify.js 434-448), while the state   *)
(* can be saved.                                                           *)
THEOREM DigestsDoNotRepeat ==
    ASSUME SaveOutcomes = {TRUE}
    PROVE  Spec => NoDigestTwice
  <1>1. TypeInv /\ DigestInv /\ [Next]_vars
           => [out'.digest # {} => out'.digest \cap digested = {} /\ lastDigest < DayOf(clock)]_vars
    <2> SUFFICES ASSUME TypeInv, DigestInv, Next, out'.digest # {}
                 PROVE  out'.digest \cap digested = {} /\ lastDigest < DayOf(clock)
      OBVIOUS
    <2>1. Nothing.digest = {}
      BY DEF Nothing
    <2>2. Tick /\ out'.digest = Digested
      <3>1. \A k \in Key, kind \in Kinds : Info(k, kind) => out'.digest = {}
        BY DEF Info, Nothing
      <3>2. \A k \in Key, kind \in Kinds : Deliver(k, kind) => out'.digest = {}
        BY DEF Deliver, Nothing
      <3>3. \A k \in Key, kind \in Kinds : Hold(k, kind) => out' = Nothing
        BY DEF Hold
      <3>4. \A c \in Channel : Take(c) \/ SendStep(c) => out' = Nothing
        BY DEF Take, TakeNext, SendStep, Sent, FailsOnce, GivesUp, Try
      <3>5. (\E g \in Configs : SetConfig(g) \/ Restart(g)) \/ Pass => out' = Nothing
        BY DEF SetConfig, Restart, Pass
      <3>6. Tick => out'.digest = Digested
        BY DEF Tick, TickChanges, Nothing
      <3> QED BY <2>1, <3>1, <3>2, <3>3, <3>4, <3>5, <3>6 DEF Next
    <2>3. DigestDue
      BY <2>2 DEF Digested
    <2>4. Digested \cap digested = {}
      BY <2>3 DEF Digested, DigestInv
    <2>5. lastDigest < DayOf(clock)
      <3>1. clock \in Nat /\ digestDay \in Int /\ lastDigest \in Int
        BY DEF TypeInv, TypeOK
      <3>2. DayOf(clock) \in Nat
        BY <3>1, DayType
      <3>3. digestDay # DayOf(clock) /\ lastDigest <= digestDay /\ digestDay <= DayOf(clock)
        BY <2>3 DEF DigestDue, DigestInv
      <3> QED BY <3>1, <3>2, <3>3
    <2> QED BY <2>2, <2>4, <2>5
  <1> QED BY <1>1, DigestAlways, PTL DEF NoDigestTwice, Spec

-----------------------------------------------------------------------------
(* Quiet hours.                                                            *)

(* A time of the day counted on from another one, past midnight or not.    *)
LEMMA AroundTheClock ==
    ASSUME NEW x \in Nat, x < 2 * Day
    PROVE  x % Day = IF x < Day THEN x ELSE x - Day
  <1>1. Day \in Nat \ {0}
    BY NotifyAssumption
  <1> QED BY <1>1

(* inQuiet (notify.js 325-329) is true of every minute from the start of   *)
(* the quiet hours up to their end.                                        *)
LEMMA QuietMinutesAreQuiet ==
    ASSUME TypeOK, Minute(clock) \in QuietMinutes(cfg.quiet)
    PROVE  InQuiet(clock)
  <1> DEFINE h == cfg.quiet
             a == h.from
             b == h.to
  <1>1. Day \in Nat \ {0}
    BY NotifyAssumption
  <1>2. cfg \in Config
    BY TakersAreChannels
  <1>3. a \in 0 .. Day - 1 /\ b \in 0 .. Day - 1 /\ (a = b => h = NoHours)
    BY <1>1, <1>2 DEF Config, Hours, NoHours
  <1>4. PICK i \in 0 .. ((b - a) % Day) - 1 : Minute(clock) = (a + i) % Day
    BY DEF QuietMinutes
  <1>5. (b - a) % Day = IF a <= b THEN b - a ELSE b - a + Day
    <2>1. CASE a <= b
      <3>1. b - a \in Nat /\ b - a < 2 * Day /\ b - a < Day
        BY <1>1, <1>3, <2>1
      <3> QED BY <2>1, <3>1, AroundTheClock
    <2>2. CASE ~(a <= b)
      <3>1. b - a \in Int /\ 0 <= b - a + Day /\ b - a + Day < Day
        BY <1>1, <1>3, <2>2
      <3> HIDE DEF a, b
      <3> QED BY <1>1, <1>3, <2>2, <3>1
    <2> QED BY <2>1, <2>2
  <1>6. a # b
    BY <1>3, <1>4, <1>5
  <1>7. h # NoHours
    BY <1>6 DEF NoHours
  <1> HIDE DEF a, b
  <1>8. /\ i \in Nat /\ i < IF a <= b THEN b - a ELSE b - a + Day
        /\ a + i \in Nat /\ a + i < 2 * Day
    BY <1>1, <1>3, <1>4, <1>5
  <1>9. Minute(clock) = IF a + i < Day THEN a + i ELSE a + i - Day
    <2>1. (a + i) % Day = IF a + i < Day THEN a + i ELSE a + i - Day
      <3> DEFINE x == a + i
      <3>1. x \in Nat /\ x < 2 * Day
        BY <1>8
      <3> HIDE DEF x
      <3>2. x % Day = IF x < Day THEN x ELSE x - Day
        BY <3>1, AroundTheClock
      <3> QED BY <1>1, <1>3, <1>8, <3>2 DEF x
    <2> QED BY <1>4, <2>1
  <1>10. IF a < b THEN Minute(clock) >= a /\ Minute(clock) < b
                  ELSE Minute(clock) >= a \/ Minute(clock) < b
    BY <1>1, <1>3, <1>6, <1>8, <1>9
  <1> QED BY <1>7, <1>10 DEF InQuiet, a, b

(* In quiet hours only critical alerts go to channels, also when the hours *)
(* pass midnight or are changed (notify.js 325-329, 419-431).              *)
THEOREM QuietHoursAreKept == Spec => QuietIsKept
  <1>1. TypeInv /\ [Next]_vars
           => [(out'.summary # {} \/ \E k \in out'.alert : Sev[k] # "critical")
                  => Minute(clock) \notin QuietMinutes(cfg.quiet)]_vars
    <2> SUFFICES ASSUME TypeInv, Next, out'.summary # {} \/ \E k \in out'.alert : Sev[k] # "critical",
                        InQuiet(clock)
                 PROVE  FALSE
      BY QuietMinutesAreQuiet DEF TypeInv
    <2>0. Nothing.summary = {} /\ Nothing.alert = {}
      BY DEF Nothing
    <2>1. Lines = {}
      BY DEF Lines, Releases
    <2>2. ASSUME NEW k \in Key, NEW kind \in Kinds, Info(k, kind) PROVE FALSE
      BY <2>1, <2>2 DEF Info, Nothing
    <2>3. ASSUME NEW k \in Key, NEW kind \in Kinds, Deliver(k, kind) PROVE FALSE
      BY <2>1, <2>3 DEF Deliver, Nothing
    <2>4. ~Tick
      BY <2>1 DEF Tick, TickChanges, Nothing
    <2>5. ASSUME NEW k \in Key, NEW kind \in Kinds, Hold(k, kind) PROVE FALSE
      BY <2>0, <2>5 DEF Hold
    <2>6. \A c \in Channel : ~Take(c) /\ ~SendStep(c)
      BY <2>0 DEF Take, TakeNext, SendStep, Sent, FailsOnce, GivesUp, Try
    <2>7. ~((\E g \in Configs : SetConfig(g) \/ Restart(g)) \/ Pass)
      BY <2>0 DEF SetConfig, Restart, Pass
    <2> QED BY <2>2, <2>3, <2>4, <2>5, <2>6, <2>7 DEF Next
  <1> QED BY <1>1, TypeInvariant, PTL DEF QuietIsKept, Spec
=============================================================================
