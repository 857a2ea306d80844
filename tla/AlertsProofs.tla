---------------------------- MODULE AlertsProofs ----------------------------
(***************************************************************************)
(* Theorems about the alert engine, for every set of rules, nodes and      *)
(* subs, every list of rules a person can save and every push.             *)
(***************************************************************************)
EXTENDS Alerts, TLAPS

-----------------------------------------------------------------------------
(* What judging one alert gives.                                           *)

Result == [inst : Instance, event : Event]

(* retell (alerts.js 135-138) gives an instance and an event.              *)
LEMMA RetellType ==
    ASSUME NEW i \in Instance, NEW t \in Nat, NEW q \in BOOLEAN
    PROVE  Retell(i, t, q) \in Result
  BY TimeAssumption DEF Retell, Keep, Result, Instance, Event, Told

(* judge (alerts.js 140-162) gives an instance and an event.               *)
LEMMA JudgeType ==
    ASSUME NEW r, NEW i \in Instance, NEW holds, NEW over,
           NEW t \in Nat, NEW q \in BOOLEAN
    PROVE  Judge(r, i, holds, over, t, q) \in Result
  <1>1. CASE i.state = "firing" /\ ~over
    BY <1>1, RetellType DEF Judge
  <1>2. CASE ~(i.state = "firing" /\ ~over)
    BY <1>2 DEF Judge, Keep, Resolved, NoInstance, Result, Instance, Event, Told
  <1> QED BY <1>1, <1>2

(* end (alerts.js 165-169) gives an instance and an event.                 *)
LEMMA EndType ==
    ASSUME NEW i \in Instance
    PROVE  End(i) \in Result
  BY DEF End, Resolved, NoInstance, Result, Instance, Event, Told

(* An alert that is left alone is an instance with no event.               *)
LEMMA KeepType ==
    ASSUME NEW i \in Instance
    PROVE  Keep(i) \in Result
  BY DEF Keep, Result, Event

(* A reading is compared with the threshold and the clear value: judging a *)
(* value is an instance of judge.                                          *)
LEMMA JudgeValueType ==
    ASSUME NEW r, NEW i \in Instance, NEW val, NEW t \in Nat, NEW q \in BOOLEAN
    PROVE  JudgeValue(r, i, val, t, q) \in Result
  BY JudgeType DEF JudgeValue

-----------------------------------------------------------------------------
(* What an operation gives for every key.                                  *)

(* evaluate (alerts.js 191-214) gives every key an instance and an event.  *)
LEMMA EvaluateKeyType ==
    ASSUME TypeOK, NEW k \in Key, NEW n, NEW v, NEW run, NEW offl
    PROVE  EvaluateKey(k, n, v, run, offl) \in Result
  <1> DEFINE nodeTags == IF n \in active THEN tags[n] ELSE {}
             eff == ForNode(rules[k[1]], n, nodeTags)
             q == Quiet(k, clock, offl)
  <1>1. inst[k] \in Instance /\ clock \in Nat
    BY DEF TypeOK
  <1>2. q \in BOOLEAN
    BY DEF Quiet
  <1>3. /\ \A val : JudgeValue(eff, inst[k], val, clock, q) \in Result
        /\ Judge(eff, inst[k], FALSE, TRUE, clock, q) \in Result
    <2> HIDE DEF eff, q
    <2> QED BY <1>1, <1>2, JudgeValueType, JudgeType
  <1>4. Keep(inst[k]) \in Result /\ End(inst[k]) \in Result
    BY <1>1, KeepType, EndType
  <1> QED BY <1>3, <1>4 DEF EvaluateKey

(* check (alerts.js 217-239) gives every key an instance and an event.     *)
LEMMA CheckKeyType ==
    ASSUME TypeOK, NEW k \in Key, NEW offl
    PROVE  CheckKey(k, offl) \in Result
  <1> DEFINE r == rules[k[1]]
             q == Quiet(k, clock, offl)
  <1>1. inst[k] \in Instance /\ clock \in Nat
    BY DEF TypeOK
  <1>2. q \in BOOLEAN
    BY DEF Quiet
  <1>3. /\ \A val : JudgeValue(r, inst[k], val, clock, q) \in Result
        /\ Retell(inst[k], clock, q) \in Result
    <2> HIDE DEF r, q
    <2> QED BY <1>1, <1>2, JudgeValueType, RetellType
  <1>4. Keep(inst[k]) \in Result /\ End(inst[k]) \in Result
    BY <1>1, KeepType, EndType
  <1> QED BY <1>3, <1>4 DEF CheckKey

(* prune and forget (alerts.js 176-184, 287-297) do too.                   *)
LEMMA PruneKeyType ==
    ASSUME NEW k, NEW i \in Instance, NEW rs
    PROVE  PruneKey(k, i, rs) \in Result
  BY KeepType, EndType DEF PruneKey

(* Forgetting a node (alerts.js 287-297) does too.                         *)
LEMMA ForgetKeyType ==
    ASSUME TypeOK, NEW k \in Key, NEW n
    PROVE  ForgetKey(k, n) \in Result
  BY KeepType, EndType DEF ForgetKey, TypeOK

-----------------------------------------------------------------------------
(* Type correctness.                                                       *)

(* Applying results of every key keeps the types of the instances, the     *)
(* events and the ledger.                                                  *)
LEMMA ApplyType ==
    ASSUME TypeOK, NEW res, \A k \in Key : res[k] \in Result, Apply(res)
    PROVE  /\ inst' \in [Key -> Instance]
           /\ out' \in [Key -> Event]
           /\ told' \in [Key -> BOOLEAN]
           /\ toldAt' \in [Key -> Nat]
  BY DEF Apply, TypeOK, Result

(* A quiet step keeps the types of the events and the ledger.              *)
LEMMA QuietlyType ==
    ASSUME TypeOK, Quietly
    PROVE  /\ out' \in [Key -> Event]
           /\ told' \in [Key -> BOOLEAN]
           /\ toldAt' \in [Key -> Nat]
  BY DEF Quietly, TypeOK, Silence, Event

StateType == [inst : [Key -> Instance], running : [Node -> SUBSET Sub],
              muteRule : [Rule -> Nat], muteNode : [Node -> Nat]]

(* What is saved has the type of the state.                                *)
LEMMA SaveType ==
    ASSUME TypeOK, Save,
           inst' \in [Key -> Instance], running' \in [Node -> SUBSET Sub],
           muteRule' \in [Rule -> Nat], muteNode' \in [Node -> Nat]
    PROVE  disk' \in StateType
  BY DEF Save, State, StateType, TypeOK

(* The containers counted as running are subs of the node's push.          *)
LEMMA RunningType ==
    ASSUME TypeOK, NEW n \in Node, NEW v \in Views
    PROVE  RunningAfter(n, v) \subseteq Sub
  BY ViewsAssumption DEF RunningAfter, HasContainers, TypeOK

(* Every step of the engine keeps its types: judging gives instances and   *)
(* events, times are natural numbers, a restart reads back what was saved. *)
THEOREM TypeCorrect == Spec => []TypeOK
  <1>1. Init => TypeOK
    <2> SUFFICES ASSUME Init PROVE TypeOK
      OBVIOUS
    <2>1. NoInstance \in Instance
      BY DEF NoInstance, Instance
    <2>2. /\ inst \in [Key -> Instance]
          /\ running \in [Node -> SUBSET Sub]
          /\ muteRule \in [Rule -> Nat]
          /\ muteNode \in [Node -> Nat]
      BY <2>1 DEF Init
    <2>3. disk \in StateType
      BY <2>2 DEF Init, State, StateType
    <2>4. out \in [Key -> Event] /\ told \in [Key -> BOOLEAN] /\ toldAt \in [Key -> Nat]
      BY DEF Init, Silence, Event
    <2> QED BY <2>2, <2>3, <2>4 DEF Init, TypeOK, StateType
  <1>2. TypeOK /\ [Next]_vars => TypeOK'
    <2> SUFFICES ASSUME TypeOK, [Next]_vars
                 PROVE  TypeOK'
      OBVIOUS
    <2>1. ASSUME NEW n \in Node, PushStarts(n) PROVE TypeOK'
      BY <2>1, QuietlyType DEF PushStarts, TypeOK, engineVars
    <2>2. ASSUME NEW n \in Node, NEW v \in Views, Evaluate(n, v) PROVE TypeOK'
      <3> DEFINE run == RunningAfter(n, v)
                 offl == EvaluateKey(OfflineKey(n), n, v, run, FALSE).inst.state = "firing"
                 res == [k \in Key |-> EvaluateKey(k, n, v, run, offl)]
      <3>1. Apply(res)
        BY <2>2 DEF Evaluate
      <3>2. \A k \in Key : res[k] \in Result
        <4> HIDE DEF run, offl
        <4> QED BY EvaluateKeyType
      <3> HIDE DEF res
      <3>3. running' \in [Node -> SUBSET Sub]
        BY <2>2, RunningType DEF Evaluate, TypeOK
      <3>4. /\ inst' \in [Key -> Instance]
            /\ out' \in [Key -> Event]
            /\ told' \in [Key -> BOOLEAN]
            /\ toldAt' \in [Key -> Nat]
        BY <3>1, <3>2, ApplyType
      <3>5. muteRule' \in [Rule -> Nat] /\ muteNode' \in [Node -> Nat]
        BY <2>2 DEF Evaluate, TypeOK
      <3>6. disk' \in StateType
        BY <2>2, <3>3, <3>4, <3>5, SaveType DEF Evaluate
      <3> QED BY <2>2, <3>3, <3>4, <3>5, <3>6 DEF Evaluate, TypeOK, StateType
    <2>3. CASE Check
      <3> DEFINE offl(n) == CheckKey(OfflineKey(n), FALSE).inst.state = "firing"
                 res == [k \in Key |-> CheckKey(k, offl(k[2]))]
      <3>1. Apply(res)
        BY <2>3 DEF Check
      <3>2. \A k \in Key : res[k] \in Result
        <4> HIDE DEF offl
        <4> QED BY CheckKeyType
      <3> HIDE DEF res
      <3>3. /\ inst' \in [Key -> Instance]
            /\ out' \in [Key -> Event]
            /\ told' \in [Key -> BOOLEAN]
            /\ toldAt' \in [Key -> Nat]
        BY <3>1, <3>2, ApplyType
      <3>4. disk' \in StateType
        BY <2>3, <3>3, SaveType DEF Check, TypeOK
      <3> QED BY <2>3, <3>3, <3>4 DEF Check, TypeOK, StateType, hubVars
    <2>4. ASSUME NEW r \in Rule, NEW until \in MuteTimes, MuteRule(r, until) PROVE TypeOK'
      <3>1. muteRule' \in [Rule -> Nat]
        BY <2>4, TimeAssumption DEF MuteRule, TypeOK
      <3>2. disk' \in StateType
        BY <2>4, <3>1, SaveType DEF MuteRule, TypeOK
      <3> QED BY <2>4, <3>1, <3>2, QuietlyType DEF MuteRule, TypeOK, StateType, hubVars
    <2>5. ASSUME NEW n \in Node, NEW until \in MuteTimes, MuteNode(n, until) PROVE TypeOK'
      <3>1. muteNode' \in [Node -> Nat]
        BY <2>5, TimeAssumption DEF MuteNode, TypeOK
      <3>2. disk' \in StateType
        BY <2>5, <3>1, SaveType DEF MuteNode, TypeOK
      <3> QED BY <2>5, <3>1, <3>2, QuietlyType DEF MuteNode, TypeOK, StateType, hubVars
    <2>6. ASSUME NEW rs \in RuleSets, SetRules(rs) PROVE TypeOK'
      <3> DEFINE res == [k \in Key |-> PruneKey(k, inst[k], rs)]
      <3>1. Apply(res)
        BY <2>6 DEF SetRules
      <3>2. \A k \in Key : res[k] \in Result
        BY PruneKeyType DEF TypeOK
      <3> HIDE DEF res
      <3>3. /\ inst' \in [Key -> Instance]
            /\ out' \in [Key -> Event]
            /\ told' \in [Key -> BOOLEAN]
            /\ toldAt' \in [Key -> Nat]
        BY <3>1, <3>2, ApplyType
      <3>4. muteRule' \in [Rule -> Nat]
        BY <2>6 DEF SetRules, PruneMutes, TypeOK
      <3>5. disk' \in StateType
        BY <2>6, <3>3, <3>4, SaveType DEF SetRules, TypeOK
      <3> QED BY <2>6, <3>3, <3>4, <3>5 DEF SetRules, TypeOK, StateType, hubVars
    <2>7. ASSUME NEW n \in Node, NEW ts \in SUBSET Tag, SetTags(n, ts) PROVE TypeOK'
      BY <2>7, QuietlyType DEF SetTags, TypeOK, engineVars
    <2>8. ASSUME NEW n \in Node, RevokeFromPage(n) PROVE TypeOK'
      <3> DEFINE res == [k \in Key |-> ForgetKey(k, n)]
      <3>1. Apply(res)
        BY <2>8 DEF RevokeFromPage
      <3>2. \A k \in Key : res[k] \in Result
        BY ForgetKeyType
      <3> HIDE DEF res
      <3>3. /\ inst' \in [Key -> Instance]
            /\ out' \in [Key -> Event]
            /\ told' \in [Key -> BOOLEAN]
            /\ toldAt' \in [Key -> Nat]
        BY <3>1, <3>2, ApplyType
      <3>4. running' \in [Node -> SUBSET Sub] /\ muteNode' \in [Node -> Nat]
        BY <2>8 DEF RevokeFromPage, TypeOK
      <3>5. disk' \in StateType
        BY <2>8, <3>3, <3>4, SaveType DEF RevokeFromPage, TypeOK
      <3> QED BY <2>8, <3>3, <3>4, <3>5 DEF RevokeFromPage, TypeOK, StateType
    <2>9. ASSUME NEW n \in Node, RevokeFromCtl(n) PROVE TypeOK'
      BY <2>9, QuietlyType DEF RevokeFromCtl, TypeOK, engineVars
    <2>10. ASSUME NEW rs \in RuleSets, NEW gone \in SUBSET Node, Restart(rs, gone) PROVE TypeOK'
      <3> DEFINE res == [k \in Key |-> PruneKey(k, disk.inst[k], rs)]
      <3>1. Apply(res)
        BY <2>10 DEF Restart
      <3>2. \A k \in Key : res[k] \in Result
        BY PruneKeyType DEF TypeOK
      <3> HIDE DEF res
      <3>3. /\ inst' \in [Key -> Instance]
            /\ out' \in [Key -> Event]
            /\ told' \in [Key -> BOOLEAN]
            /\ toldAt' \in [Key -> Nat]
        BY <3>1, <3>2, ApplyType
      <3>4. /\ muteRule' \in [Rule -> Nat]
            /\ muteNode' \in [Node -> Nat]
            /\ running' \in [Node -> SUBSET Sub]
        BY <2>10 DEF Restart, PruneMutes, TypeOK
      <3>5. disk' \in StateType
        BY <2>10, <3>3, <3>4 DEF Restart, State, StateType
      <3>6. latest' \in [Node -> Nat \cup {Never}] /\ lost' \in BOOLEAN
        BY <2>10 DEF Restart, TypeOK
      <3> QED BY <2>10, <3>3, <3>4, <3>5, <3>6 DEF Restart, TypeOK, StateType
    <2>11. CASE Tick
      BY <2>11, QuietlyType DEF Tick, TypeOK, engineVars, hubVars
    <2>12. CASE UNCHANGED vars
      BY <2>12 DEF vars, engineVars, hubVars, ledgerVars, TypeOK
    <2> QED BY <2>1, <2>2, <2>3, <2>4, <2>5, <2>6, <2>7, <2>8, <2>9, <2>10, <2>11, <2>12 DEF Next
  <1> QED BY <1>1, <1>2, PTL DEF Spec

-----------------------------------------------------------------------------
(* The ledger.  An instance that was told is firing; what judging gives    *)
(* for it tells a start only if none is open, a repeat only after Repeat,  *)
(* an end only if a start is open, and keeps the mark in step with that.   *)

Sound(i) == i.notified => i.state = "firing"

Continues(i, res, t) ==
    /\ Sound(res.inst)
    /\ res.event = "firing" => ~i.notified /\ res.inst.notified /\ res.inst.lastNotified = t
    /\ res.event = "repeat" => /\ i.notified /\ t - i.lastNotified >= Repeat
                               /\ res.inst.notified /\ res.inst.lastNotified = t
    /\ res.event = "resolved" => i.notified /\ ~res.inst.notified
    /\ res.event \notin Told => /\ res.inst.notified <=> i.notified
                                /\ i.notified => res.inst.lastNotified = i.lastNotified

(* Telling a silent alert later, or repeating one, continues it (alerts.js *)
(* 135-138).                                                               *)
LEMMA RetellContinues ==
    ASSUME NEW i \in Instance, NEW t \in Nat, NEW q \in BOOLEAN, Sound(i), i.state = "firing"
    PROVE  Continues(i, Retell(i, t, q), t)
  BY TimeAssumption DEF Retell, Keep, Continues, Sound, Instance, Told

(* Judging continues an alert, whatever is read (alerts.js 140-162).       *)
LEMMA JudgeContinues ==
    ASSUME NEW r, NEW i \in Instance, NEW holds, NEW over,
           NEW t \in Nat, NEW q \in BOOLEAN, Sound(i)
    PROVE  Continues(i, Judge(r, i, holds, over, t, q), t)
  <1>1. CASE i.state = "firing" /\ ~over
    BY <1>1, RetellContinues DEF Judge
  <1>2. CASE ~(i.state = "firing" /\ ~over)
    BY <1>2 DEF Judge, Keep, Resolved, NoInstance, Continues, Sound, Instance, Told
  <1> QED BY <1>1, <1>2

(* Ending an alert continues it: told if its start was (alerts.js 165-169). *)
LEMMA EndContinues ==
    ASSUME NEW i \in Instance, NEW t, Sound(i)
    PROVE  Continues(i, End(i), t)
  BY DEF End, Resolved, NoInstance, Continues, Sound, Instance, Told

(* An alert left alone continues.                                          *)
LEMMA KeepContinues ==
    ASSUME NEW i \in Instance, NEW t, Sound(i)
    PROVE  Continues(i, Keep(i), t)
  BY DEF Keep, Continues, Sound, Instance, Told

(* evaluate, check, prune and forget continue every alert.                 *)
LEMMA EvaluateContinues ==
    ASSUME TypeOK, NEW k \in Key, NEW n, NEW v, NEW run, NEW offl, Sound(inst[k])
    PROVE  Continues(inst[k], EvaluateKey(k, n, v, run, offl), clock)
  <1> DEFINE nodeTags == IF n \in active THEN tags[n] ELSE {}
             eff == ForNode(rules[k[1]], n, nodeTags)
             q == Quiet(k, clock, offl)
  <1>1. inst[k] \in Instance /\ clock \in Nat
    BY DEF TypeOK
  <1>2. q \in BOOLEAN
    BY DEF Quiet
  <1>3. /\ \A val : Continues(inst[k], JudgeValue(eff, inst[k], val, clock, q), clock)
        /\ Continues(inst[k], Judge(eff, inst[k], FALSE, TRUE, clock, q), clock)
    <2> HIDE DEF eff, q
    <2> QED BY <1>1, <1>2, JudgeContinues DEF JudgeValue
  <1>4. Continues(inst[k], Keep(inst[k]), clock) /\ Continues(inst[k], End(inst[k]), clock)
    BY <1>1, KeepContinues, EndContinues
  <1> QED BY <1>3, <1>4 DEF EvaluateKey

(* The timer's check continues every alert (alerts.js 217-239).            *)
LEMMA CheckContinues ==
    ASSUME TypeOK, NEW k \in Key, NEW offl, Sound(inst[k])
    PROVE  Continues(inst[k], CheckKey(k, offl), clock)
  <1> DEFINE r == rules[k[1]]
             q == Quiet(k, clock, offl)
  <1>1. inst[k] \in Instance /\ clock \in Nat
    BY DEF TypeOK
  <1>2. q \in BOOLEAN
    BY DEF Quiet
  <1>3. /\ \A val : Continues(inst[k], JudgeValue(r, inst[k], val, clock, q), clock)
        /\ inst[k].state = "firing" => Continues(inst[k], Retell(inst[k], clock, q), clock)
    <2> HIDE DEF r, q
    <2> QED BY <1>1, <1>2, JudgeContinues, RetellContinues DEF JudgeValue
  <1>4. Continues(inst[k], Keep(inst[k]), clock) /\ Continues(inst[k], End(inst[k]), clock)
    BY <1>1, KeepContinues, EndContinues
  <1> QED BY <1>3, <1>4 DEF CheckKey

(* Pruning continues every alert (alerts.js 176-182).                      *)
LEMMA PruneContinues ==
    ASSUME NEW k, NEW i \in Instance, NEW rs, NEW t, Sound(i)
    PROVE  Continues(i, PruneKey(k, i, rs), t)
  BY KeepContinues, EndContinues DEF PruneKey

(* Forgetting a node continues every alert (alerts.js 287-294).            *)
LEMMA ForgetContinues ==
    ASSUME TypeOK, NEW k \in Key, NEW n, Sound(inst[k])
    PROVE  Continues(inst[k], ForgetKey(k, n), clock)
  BY KeepContinues, EndContinues DEF ForgetKey, TypeOK

(* Where marks and ledger agree, only firing alerts are marked.            *)
LEMMA MatchesSound ==
    ASSUME TypeOK, Matches
    PROVE  \A k \in Key : Sound(inst[k])
  BY DEF TypeOK, Matches, Sound

(* Results that continue the alerts keep marks and ledger in agreement.    *)
LEMMA ApplyMatches ==
    ASSUME TypeOK, Matches, NEW res, Apply(res),
           \A k \in Key : res[k] \in Result /\ Continues(inst[k], res[k], clock)
    PROVE  Matches'
  <1> SUFFICES ASSUME NEW k \in Key
               PROVE  /\ told'[k] <=> inst'[k].notified
                      /\ told'[k] => inst'[k].state = "firing" /\ toldAt'[k] = inst'[k].lastNotified
    BY DEF Matches
  <1>1. /\ inst'[k] = res[k].inst
        /\ told'[k] = IF res[k].event \in Told THEN res[k].event # "resolved" ELSE told[k]
        /\ toldAt'[k] = CASE res[k].event \in {"firing", "repeat"} -> clock
                           [] res[k].event = "resolved" -> 0
                           [] OTHER -> toldAt[k]
    BY DEF Apply
  <1>2. /\ told[k] <=> inst[k].notified
        /\ told[k] => inst[k].state = "firing" /\ toldAt[k] = inst[k].lastNotified
    BY DEF Matches
  <1>3. Continues(inst[k], res[k], clock) /\ res[k] \in Result /\ inst[k] \in Instance /\ told[k] \in BOOLEAN
    BY DEF TypeOK
  <1>4. CASE res[k].event = "firing"
    BY <1>1, <1>3, <1>4 DEF Continues, Sound, Told, Result, Instance
  <1>5. CASE res[k].event = "repeat"
    BY <1>1, <1>3, <1>5 DEF Continues, Sound, Told, Result, Instance
  <1>6. CASE res[k].event = "resolved"
    BY <1>1, <1>3, <1>6 DEF Continues, Sound, Told, Result, Instance
  <1>7. CASE res[k].event \notin Told
    BY <1>1, <1>2, <1>3, <1>7 DEF Continues, Sound, Told, Result, Instance
  <1> QED BY <1>4, <1>5, <1>6, <1>7 DEF Told

(* Every step either leaves alerts and ledger alone or applies results     *)
(* that continue every alert, unless a restart lost an unsaved state.      *)
Continuing(res) == Apply(res) /\ \A k \in Key : res[k] \in Result /\ Continues(inst[k], res[k], clock)

(* Every action is quiet about the alerts or continues them; a restart     *)
(* does if the state it reads back is the one it left.                     *)
LEMMA NextContinues ==
    ASSUME TypeOK, Matches, Next, ~lost'
    PROVE  (Quietly /\ UNCHANGED inst) \/ \E res : Continuing(res)
  <1>0. \A k \in Key : Sound(inst[k])
    BY MatchesSound
  <1>1. ASSUME NEW n \in Node, NEW v \in Views, Evaluate(n, v) PROVE \E res : Continuing(res)
    <2> DEFINE run == RunningAfter(n, v)
               offl == EvaluateKey(OfflineKey(n), n, v, run, FALSE).inst.state = "firing"
               res == [k \in Key |-> EvaluateKey(k, n, v, run, offl)]
    <2>1. Apply(res)
      BY <1>1 DEF Evaluate
    <2>2. \A k \in Key : res[k] \in Result /\ Continues(inst[k], res[k], clock)
      <3> HIDE DEF run, offl
      <3> QED BY <1>0, EvaluateKeyType, EvaluateContinues
    <2> HIDE DEF res
    <2> QED BY <2>1, <2>2 DEF Continuing
  <1>2. CASE Check
    <2> DEFINE offl(n) == CheckKey(OfflineKey(n), FALSE).inst.state = "firing"
               res == [k \in Key |-> CheckKey(k, offl(k[2]))]
    <2>1. Apply(res)
      BY <1>2 DEF Check
    <2>2. \A k \in Key : res[k] \in Result /\ Continues(inst[k], res[k], clock)
      <3> HIDE DEF offl
      <3> QED BY <1>0, CheckKeyType, CheckContinues
    <2> HIDE DEF res
    <2> QED BY <2>1, <2>2 DEF Continuing
  <1>3. ASSUME NEW rs \in RuleSets, SetRules(rs) PROVE \E res : Continuing(res)
    <2> DEFINE res == [k \in Key |-> PruneKey(k, inst[k], rs)]
    <2>1. Apply(res)
      BY <1>3 DEF SetRules
    <2>2. \A k \in Key : res[k] \in Result /\ Continues(inst[k], res[k], clock)
      BY <1>0, PruneKeyType, PruneContinues DEF TypeOK
    <2> HIDE DEF res
    <2> QED BY <2>1, <2>2 DEF Continuing
  <1>4. ASSUME NEW n \in Node, RevokeFromPage(n) PROVE \E res : Continuing(res)
    <2> DEFINE res == [k \in Key |-> ForgetKey(k, n)]
    <2>1. Apply(res)
      BY <1>4 DEF RevokeFromPage
    <2>2. \A k \in Key : res[k] \in Result /\ Continues(inst[k], res[k], clock)
      BY <1>0, ForgetKeyType, ForgetContinues
    <2> HIDE DEF res
    <2> QED BY <2>1, <2>2 DEF Continuing
  <1>5. ASSUME NEW rs \in RuleSets, NEW gone \in SUBSET Node, Restart(rs, gone)
        PROVE  \E res : Continuing(res)
    <2> DEFINE res == [k \in Key |-> PruneKey(k, inst[k], rs)]
    <2>1. disk.inst = inst
      <3>1. lost' = (lost \/ disk # State)
        BY <1>5 DEF Restart
      <3>2. disk = State
        BY <3>1
      <3> QED BY <3>2 DEF State
    <2>2. Apply(res)
      BY <1>5, <2>1 DEF Restart
    <2>3. \A k \in Key : res[k] \in Result /\ Continues(inst[k], res[k], clock)
      BY <1>0, PruneKeyType, PruneContinues DEF TypeOK
    <2> HIDE DEF res
    <2> QED BY <2>2, <2>3 DEF Continuing
  <1>6. ASSUME \/ \E n \in Node : PushStarts(n)
               \/ \E r \in Rule, until \in MuteTimes : MuteRule(r, until)
               \/ \E n \in Node, until \in MuteTimes : MuteNode(n, until)
               \/ \E n \in Node, ts \in SUBSET Tag : SetTags(n, ts)
               \/ \E n \in Node : RevokeFromCtl(n)
               \/ Tick
        PROVE  Quietly /\ UNCHANGED inst
    BY <1>6 DEF PushStarts, MuteRule, MuteNode, SetTags, RevokeFromCtl, Tick, engineVars
  <1> QED BY <1>1, <1>2, <1>3, <1>4, <1>5, <1>6 DEF Next

(* A state once lost stays lost.                                           *)
LEMMA LostStays ==
    ASSUME [Next]_vars, ~lost'
    PROVE  ~lost
  <1>1. (lost' = lost) \/ \E rs \in RuleSets, gone \in SUBSET Node : Restart(rs, gone)
    BY DEF Next, vars, PushStarts, Evaluate, Check, MuteRule, MuteNode, SetRules, SetTags,
           RevokeFromPage, RevokeFromCtl, Tick
  <1>2. (\E rs \in RuleSets, gone \in SUBSET Node : Restart(rs, gone)) => lost' = (lost \/ disk # State)
    BY DEF Restart
  <1> QED BY <1>1, <1>2

(* The engine's marks agree with what it passed on: an alert is notified   *)
(* exactly while a told start of it is open (alerts.js 126-138).  Neither  *)
(* mutes, rule edits, revocations nor restarts break that; only a crash    *)
(* that loses an unsaved state does.                                       *)
THEOREM ToldCorrect == Spec => []ToldMatchesState
  <1>1. Init => ToldMatchesState
    BY DEF Init, ToldMatchesState, Matches, NoInstance
  <1>2. TypeOK /\ ToldMatchesState /\ [Next]_vars => ToldMatchesState'
    <2> SUFFICES ASSUME TypeOK, ToldMatchesState, [Next]_vars, ~lost'
                 PROVE  Matches'
      BY DEF ToldMatchesState
    <2>1. Matches
      BY LostStays DEF ToldMatchesState
    <2>2. CASE Next
      <3>1. CASE Quietly /\ UNCHANGED inst
        BY <3>1, <2>1 DEF Quietly, Matches
      <3>2. ASSUME NEW res, Continuing(res) PROVE Matches'
        BY <3>2, <2>1, ApplyMatches DEF Continuing
      <3> QED BY <2>1, <2>2, <3>1, <3>2, NextContinues
    <2>3. CASE UNCHANGED vars
      BY <2>1, <2>3 DEF vars, engineVars, ledgerVars, Matches
    <2> QED BY <2>2, <2>3
  <1> QED BY <1>1, <1>2, TypeCorrect, PTL DEF Spec

-----------------------------------------------------------------------------
(* Refinement: what is passed on is the stream AlertStream promises.       *)

(* While every save succeeds nothing can be lost.                          *)
NothingUnsaved == disk = State /\ lost = FALSE

(* While every save succeeds, the file holds the state and a restart loses *)
(* nothing (alerts.js 100-107).                                            *)
LEMMA SavesSucceed ==
    ASSUME SaveOutcomes = {TRUE}
    PROVE  Spec => []NothingUnsaved
  <1>1. Init => NothingUnsaved
    BY DEF Init, NothingUnsaved
  <1>2. NothingUnsaved /\ [Next]_vars => NothingUnsaved'
    <2> SUFFICES ASSUME NothingUnsaved, [Next]_vars
                 PROVE  NothingUnsaved'
      OBVIOUS
    <2>1. Save => disk' = State'
      BY DEF Save
    <2>2. UNCHANGED <<engineVars, disk>> => disk' = State'
      BY DEF NothingUnsaved, State, engineVars
    <2>3. disk' = State'
      BY <2>1, <2>2 DEF Next, vars, PushStarts, Evaluate, Check, MuteRule, MuteNode, SetRules,
         SetTags, RevokeFromPage, RevokeFromCtl, Restart, Tick
    <2>4. lost' = FALSE
      <3>1. CASE UNCHANGED lost
        BY <3>1 DEF NothingUnsaved
      <3>2. ASSUME NEW rs \in RuleSets, NEW gone \in SUBSET Node, Restart(rs, gone)
            PROVE  lost' = FALSE
        BY <3>2 DEF Restart, NothingUnsaved
      <3> QED BY <3>1, <3>2 DEF Next, vars, PushStarts, Evaluate, Check, MuteRule, MuteNode,
                 SetRules, SetTags, RevokeFromPage, RevokeFromCtl, Tick
    <2> QED BY <2>3, <2>4 DEF NothingUnsaved
  <1> QED BY <1>1, <1>2, PTL DEF Spec

(* The clock never goes back.                                              *)
LEMMA ClockForward ==
    ASSUME TypeOK, Next
    PROVE  clock' >= clock
  <1>1. UNCHANGED clock \/ Tick
    BY DEF Next, PushStarts, Evaluate, Check, MuteRule, MuteNode, SetRules, SetTags,
           RevokeFromPage, RevokeFromCtl, Restart
  <1>2. Tick => clock' = clock + 1
    BY DEF Tick
  <1> QED BY <1>1, <1>2 DEF TypeOK

(* For each alert the engine passes on a start, then repeats at least      *)
(* Repeat apart, then an end, and nothing else: a start is never told      *)
(* twice, an end never without its start (alerts.js 9-10), whatever a      *)
(* person mutes, edits or revokes and whenever the hub restarts, as long   *)
(* as the state can be saved.                                              *)
THEOREM StreamRefinement ==
    ASSUME SaveOutcomes = {TRUE}
    PROVE  Spec => StreamSpec
  <1>1. Init => Stream!Init
    BY DEF Init, Stream!Init, Silence, Told
  <1>2. TypeOK /\ ToldMatchesState /\ NothingUnsaved /\ NothingUnsaved' /\ [Next]_vars
           => [Stream!Next]_(Stream!streamVars)
    <2> SUFFICES ASSUME TypeOK, ToldMatchesState, NothingUnsaved, NothingUnsaved', [Next]_vars
                 PROVE  [Stream!Next]_(Stream!streamVars)
      OBVIOUS
    <2>1. CASE UNCHANGED vars
      BY <2>1 DEF vars, ledgerVars, Stream!streamVars
    <2>2. CASE Next
      <3>1. Matches /\ ~lost'
        BY DEF ToldMatchesState, NothingUnsaved
      <3>2. CASE Quietly /\ UNCHANGED inst
        <4>1. \A k \in Key : Stream!Still(k)
          BY <3>2 DEF Quietly, Silence, Stream!Still, Told
        <4> QED BY <2>2, <4>1, ClockForward DEF Stream!Next
      <3>3. ASSUME NEW res, Continuing(res)
            PROVE  Stream!Next
        <4> SUFFICES ASSUME NEW k \in Key
                     PROVE  Stream!Start(k) \/ Stream!Again(k) \/ Stream!Finish(k) \/ Stream!Still(k)
          BY <2>2, ClockForward DEF Stream!Next
        <4>1. /\ out'[k] = res[k].event
              /\ told'[k] = IF res[k].event \in Told THEN res[k].event # "resolved" ELSE told[k]
              /\ toldAt'[k] = CASE res[k].event \in {"firing", "repeat"} -> clock
                                 [] res[k].event = "resolved" -> 0
                                 [] OTHER -> toldAt[k]
          BY <3>3 DEF Continuing, Apply
        <4>2. Continues(inst[k], res[k], clock)
          BY <3>3 DEF Continuing
        <4>3. (told[k] <=> inst[k].notified) /\ (told[k] => toldAt[k] = inst[k].lastNotified)
          BY <3>1 DEF Matches
        <4>4. CASE res[k].event = "firing"
          BY <4>1, <4>2, <4>3, <4>4 DEF Continues, Told, Stream!Start
        <4>5. CASE res[k].event = "repeat"
          BY <4>1, <4>2, <4>3, <4>5 DEF Continues, Told, Stream!Again
        <4>6. CASE res[k].event = "resolved"
          BY <4>1, <4>2, <4>3, <4>6 DEF Continues, Told, Stream!Finish
        <4>7. CASE res[k].event \notin Told
          BY <4>1, <4>7 DEF Told, Stream!Still
        <4> QED BY <4>4, <4>5, <4>6, <4>7 DEF Told
      <3> QED BY <2>2, <3>1, <3>2, <3>3, NextContinues
    <2> QED BY <2>1, <2>2
  <1> QED BY <1>1, <1>2, TypeCorrect, ToldCorrect, SavesSucceed, PTL DEF Spec, StreamSpec, Stream!Spec

-----------------------------------------------------------------------------
(* Rules and alerts.                                                       *)

(* No alert outlives its rule (prune, alerts.js 174-187): not when a rule  *)
(* is removed or turned off, and not when the rules file changed while the *)
(* hub was down, whatever was saved by then.                               *)
THEOREM AlertHasRuleCorrect == Spec => []AlertHasRule
  <1>1. Init => AlertHasRule
    BY DEF Init, AlertHasRule, NoInstance
  <1>2. TypeOK /\ AlertHasRule /\ [Next]_vars => AlertHasRule'
    <2> SUFFICES ASSUME TypeOK, AlertHasRule, [Next]_vars
                 PROVE  AlertHasRule'
      OBVIOUS
    <2> DEFINE Live(k) == k[1] \in DOMAIN rules /\ ~rules[k[1]].off
    <2>1. CASE UNCHANGED <<inst, rules>>
      BY <2>1 DEF AlertHasRule
    <2>2. ASSUME UNCHANGED rules,
                 \A k \in Key : inst'[k].state # "ok" => inst[k].state # "ok" \/ Live(k)
          PROVE  AlertHasRule'
      BY <2>2 DEF AlertHasRule
    <2>3. ASSUME NEW n \in Node, NEW v \in Views, Evaluate(n, v) PROVE AlertHasRule'
      <3> DEFINE run == RunningAfter(n, v)
                 offl == EvaluateKey(OfflineKey(n), n, v, run, FALSE).inst.state = "firing"
      <3>1. \A k \in Key : inst'[k] = EvaluateKey(k, n, v, run, offl).inst
        BY <2>3 DEF Evaluate, Apply
      <3>2. ASSUME NEW k \in Key, NEW o, EvaluateKey(k, n, v, run, o).inst.state # "ok"
            PROVE  inst[k].state # "ok" \/ Live(k)
        <4> HIDE DEF run
        <4> QED BY <3>2 DEF EvaluateKey, Keep, End, NoInstance, Applies
      <3>3. \A k \in Key : inst'[k].state # "ok" => inst[k].state # "ok" \/ Live(k)
        <4> HIDE DEF offl, run, Live
        <4> QED BY <3>1, <3>2
      <3>4. UNCHANGED rules
        BY <2>3 DEF Evaluate
      <3> HIDE DEF offl, run, Live
      <3> QED BY <3>3, <3>4, <2>2
    <2>4. CASE Check
      <3> DEFINE offl(n) == CheckKey(OfflineKey(n), FALSE).inst.state = "firing"
      <3>1. \A k \in Key : inst'[k] = CheckKey(k, offl(k[2])).inst
        BY <2>4 DEF Check, Apply
      <3>2. ASSUME NEW k \in Key, NEW o, CheckKey(k, o).inst.state # "ok"
            PROVE  inst[k].state # "ok" \/ Live(k)
        BY <3>2 DEF CheckKey, Keep, End, NoInstance, Applies
      <3>3. \A k \in Key : inst'[k].state # "ok" => inst[k].state # "ok" \/ Live(k)
        <4> HIDE DEF offl, Live
        <4> QED BY <3>1, <3>2
      <3>4. UNCHANGED rules
        BY <2>4 DEF Check
      <3> HIDE DEF offl, Live
      <3> QED BY <3>3, <3>4, <2>2
    <2>5. ASSUME NEW rs, NEW old, rules' = rs,
                 \A k \in Key : inst'[k] = PruneKey(k, old[k], rs).inst
          PROVE  AlertHasRule'
      BY <2>5 DEF AlertHasRule, PruneKey, Keep, End, NoInstance
    <2>6. ASSUME NEW rs \in RuleSets, SetRules(rs) PROVE AlertHasRule'
      BY <2>5, <2>6 DEF SetRules, Apply
    <2>7. ASSUME NEW rs \in RuleSets, NEW gone \in SUBSET Node, Restart(rs, gone) PROVE AlertHasRule'
      BY <2>5, <2>7 DEF Restart, Apply
    <2>8. ASSUME NEW n \in Node, RevokeFromPage(n) PROVE AlertHasRule'
      <3>1. \A k \in Key : inst'[k] = ForgetKey(k, n).inst
        BY <2>8 DEF RevokeFromPage, Apply
      <3> QED BY <2>8, <3>1, <2>2 DEF RevokeFromPage, ForgetKey, Keep, End, NoInstance
    <2> QED BY <2>1, <2>3, <2>4, <2>6, <2>7, <2>8 DEF Next, vars, engineVars, PushStarts, MuteRule,
               MuteNode, SetTags, RevokeFromCtl, Tick
  <1> QED BY <1>1, <1>2, TypeCorrect, PTL DEF Spec

-----------------------------------------------------------------------------
(* Containers.  The file is part of the invariant: a restart reads alerts  *)
(* and running containers back, and both come from one save.               *)

WasRunning(i, run) ==
    \A k \in Key : k[1] \in OnContainers /\ i[k].state # "ok" => k[3] \in run[k[2]]
RunningInv == WasRunning(inst, running) /\ WasRunning(disk.inst, disk.running)

(* Judging a reading that is gone leaves no alert (alerts.js 140-162).     *)
LEMMA GoneLeavesNone ==
    ASSUME NEW r, NEW i \in Instance, NEW t, NEW q
    PROVE  Judge(r, i, FALSE, TRUE, t, q).inst.state = "ok"
  BY DEF Judge, Keep, NoInstance, Instance

(* An override changes the thresholds of a rule and never its metric       *)
(* (forNode, alerts.js 65-77).                                             *)
LEMMA OverrideKeepsMetric ==
    ASSUME NEW r \in RuleRecord, NEW n, NEW nodeTags
    PROVE  ForNode(r, n, nodeTags).metric = r.metric
  BY DEF ForNode, RuleRecord

(* A push leaves an alert on a container only if the container counts as   *)
(* seen running after it (alerts.js 191-213).                              *)
LEMMA EvaluateWasRunning ==
    ASSUME TypeOK, AlertHasRule, WasRunning(inst, running),
           NEW n \in Node, NEW v \in Views, NEW offl,
           NEW k \in Key, k[1] \in OnContainers,
           EvaluateKey(k, n, v, RunningAfter(n, v), offl).inst.state # "ok"
    PROVE  k[3] \in [running EXCEPT ![n] = RunningAfter(n, v)][k[2]]
  <1> DEFINE run == RunningAfter(n, v)
             nodeTags == IF n \in active THEN tags[n] ELSE {}
             eff == ForNode(rules[k[1]], n, nodeTags)
             q == Quiet(k, clock, offl)
  <1>1. inst[k] \in Instance /\ k[2] \in Node /\ running \in [Node -> SUBSET Sub] /\ rules \in RuleSets
    BY DEF TypeOK, Key
  <1>2. inst[k].state # "ok" => k[3] \in running[k[2]] /\ k[1] \in DOMAIN rules
    BY DEF WasRunning, AlertHasRule
  <1>3. CASE k[2] # n
    <2>1. EvaluateKey(k, n, v, run, offl) = Keep(inst[k])
      BY <1>3 DEF EvaluateKey
    <2>2. inst[k].state # "ok"
      BY <2>1 DEF Keep
    <2> QED BY <1>1, <1>2, <1>3, <2>2
  <1>4. CASE k[2] = n /\ k[1] \notin DOMAIN rules
    <2>1. EvaluateKey(k, n, v, run, offl) = Keep(inst[k])
      BY <1>4 DEF EvaluateKey
    <2>2. inst[k].state # "ok"
      BY <2>1 DEF Keep
    <2> QED BY <1>2, <1>4, <2>2
  <1>5. CASE k[2] = n /\ k[1] \in DOMAIN rules
    <2>1. rules[k[1]] \in RuleRecord /\ rules[k[1]].metric = "container.down" /\ k[1] # Offline
      BY <1>1, <1>5, RuleSetsAssumption DEF IsRuleList, OnContainers
    <2>2. eff.metric = "container.down"
      BY <2>1, OverrideKeepsMetric
    <2> DEFINE vals == ValuesOf(eff.metric, v, run)
    <2>3. CASE ~Applies(rules[k[1]], n, nodeTags)
      <3>1. EvaluateKey(k, n, v, run, offl) = End(inst[k])
        BY <1>5, <2>3 DEF EvaluateKey
      <3> QED BY <3>1 DEF End, NoInstance
    <2>4. CASE Applies(rules[k[1]], n, nodeTags) /\ ~HasContainers(v)
      <3>1. EvaluateKey(k, n, v, run, offl) = Keep(inst[k])
        BY <1>5, <2>1, <2>2, <2>4 DEF EvaluateKey, HasValues
      <3>2. inst[k].state # "ok"
        BY <3>1 DEF Keep
      <3>3. run = running[n]
        BY <2>4 DEF RunningAfter
      <3> QED BY <1>1, <1>2, <1>5, <3>2, <3>3
    <2>5. CASE k[3] \in run
      BY <1>1, <1>5, <2>5
    <2>6. CASE Applies(rules[k[1]], n, nodeTags) /\ HasContainers(v) /\ k[3] \notin run
      <3>1. k[3] \notin DOMAIN vals \cap eff.subs
        BY <2>2, <2>6 DEF ValuesOf
      <3>2. HasValues(eff.metric, v)
        BY <2>2, <2>6 DEF HasValues
      <3>3. EvaluateKey(k, n, v, run, offl) = Judge(eff, inst[k], FALSE, TRUE, clock, q)
        BY <1>5, <2>1, <2>6, <3>1, <3>2 DEF EvaluateKey
      <3> HIDE DEF eff, q, run
      <3>4. Judge(eff, inst[k], FALSE, TRUE, clock, q).inst.state = "ok"
        BY <1>1, GoneLeavesNone
      <3> QED BY <3>3, <3>4 DEF run
    <2> QED BY <2>3, <2>4, <2>5, <2>6
  <1> QED BY <1>3, <1>4, <1>5

(* The timer's check makes no alert but offline ones (alerts.js 217-239).  *)
LEMMA CheckMakesNone ==
    ASSUME TypeOK, NEW k \in Key, NEW offl, k[1] \in OnContainers,
           CheckKey(k, offl).inst.state # "ok"
    PROVE  inst[k].state # "ok"
  <1>1. inst[k] \in Instance /\ rules \in RuleSets
    BY DEF TypeOK
  <1>2. CASE k[1] \notin DOMAIN rules
    <2>1. CheckKey(k, offl) = Keep(inst[k])
      BY <1>2 DEF CheckKey
    <2> QED BY <2>1 DEF Keep
  <1>3. CASE k[1] \in DOMAIN rules
    <2>1. k[1] # Offline
      BY <1>1, <1>3, RuleSetsAssumption DEF IsRuleList, OnContainers
    <2>2. CheckKey(k, offl) = Keep(inst[k]) \/ inst[k].state = "firing"
      BY <2>1 DEF CheckKey
    <2> QED BY <2>2 DEF Keep
  <1> QED BY <1>2, <1>3

(* What is saved has only alerts on running containers, if the state has.  *)
LEMMA SaveWasRunning ==
    ASSUME RunningInv, Save, WasRunning(inst, running)'
    PROVE  RunningInv'
  <1>1. PICK ok \in SaveOutcomes : disk' = IF ok THEN State' ELSE disk
    BY DEF Save
  <1>2. CASE disk' = disk
    BY <1>2 DEF RunningInv, WasRunning
  <1>3. CASE disk' = State'
    <2>1. disk'.inst = inst' /\ disk'.running = running'
      BY <1>3 DEF State
    <2> QED BY <2>1 DEF RunningInv, WasRunning
  <1> QED BY <1>1, <1>2, <1>3

(* A container alerts only after it was seen running, and its alert goes   *)
(* when it leaves the list (alerts.js 54-57, 194-199): for every push,     *)
(* through failed saves, revocations and restarts.                         *)
THEOREM ContainersRanFirst == Spec => []ContainerWasRunning
  <1>1. Init => RunningInv
    BY DEF Init, RunningInv, WasRunning, State, NoInstance
  <1>2. TypeOK /\ AlertHasRule /\ RunningInv /\ [Next]_vars => RunningInv'
    <2> SUFFICES ASSUME TypeOK, AlertHasRule, RunningInv, [Next]_vars
                 PROVE  RunningInv'
      OBVIOUS
    <2>0. WasRunning(inst, running)
      BY DEF RunningInv
    <2>1. ASSUME NEW n \in Node, NEW v \in Views, Evaluate(n, v) PROVE RunningInv'
      <3> DEFINE run == RunningAfter(n, v)
                 offl == EvaluateKey(OfflineKey(n), n, v, run, FALSE).inst.state = "firing"
      <3>1. \A k \in Key : inst'[k] = EvaluateKey(k, n, v, run, offl).inst
        BY <2>1 DEF Evaluate, Apply
      <3>2. running' = [running EXCEPT ![n] = run]
        BY <2>1 DEF Evaluate
      <3>3. \A k \in Key : k[1] \in OnContainers /\ inst'[k].state # "ok" => k[3] \in running'[k[2]]
        <4> HIDE DEF offl
        <4> QED BY <2>0, <3>1, <3>2, EvaluateWasRunning
      <3>4. WasRunning(inst, running)'
        BY <3>3 DEF WasRunning
      <3>5. Save
        BY <2>1 DEF Evaluate
      <3> QED BY <3>4, <3>5, SaveWasRunning
    <2>2. CASE Check
      <3> DEFINE offl(n) == CheckKey(OfflineKey(n), FALSE).inst.state = "firing"
      <3>1. \A k \in Key : inst'[k] = CheckKey(k, offl(k[2])).inst
        BY <2>2 DEF Check, Apply
      <3>2. \A k \in Key : k[1] \in OnContainers /\ inst'[k].state # "ok" => inst[k].state # "ok"
        <4> HIDE DEF offl
        <4> QED BY <3>1, CheckMakesNone
      <3>3. UNCHANGED running /\ Save
        BY <2>2 DEF Check
      <3>4. WasRunning(inst, running)'
        BY <2>0, <3>2, <3>3 DEF WasRunning
      <3> QED BY <3>3, <3>4, SaveWasRunning
    <2>3. ASSUME UNCHANGED <<inst, running>>, Save PROVE RunningInv'
      <3>1. WasRunning(inst, running)'
        BY <2>0, <2>3 DEF WasRunning
      <3> QED BY <2>3, <3>1, SaveWasRunning
    <2>4. ASSUME UNCHANGED <<inst, running, disk>> PROVE RunningInv'
      BY <2>4 DEF RunningInv, WasRunning
    <2>5. ASSUME NEW rs \in RuleSets, SetRules(rs) PROVE RunningInv'
      <3>1. \A k \in Key : inst'[k] = PruneKey(k, inst[k], rs).inst
        BY <2>5 DEF SetRules, Apply
      <3>2. UNCHANGED running /\ Save
        BY <2>5 DEF SetRules
      <3>3. WasRunning(inst, running)'
        BY <2>0, <3>1, <3>2 DEF WasRunning, PruneKey, Keep, End, NoInstance
      <3> QED BY <3>2, <3>3, SaveWasRunning
    <2>6. ASSUME NEW n \in Node, RevokeFromPage(n) PROVE RunningInv'
      <3>1. \A k \in Key : inst'[k] = ForgetKey(k, n).inst
        BY <2>6 DEF RevokeFromPage, Apply
      <3>2. running' = [running EXCEPT ![n] = {}] /\ Save
        BY <2>6 DEF RevokeFromPage
      <3>3. running \in [Node -> SUBSET Sub] /\ \A k \in Key : k[2] \in Node
        BY DEF TypeOK, Key
      <3>4. ASSUME NEW k \in Key, k[1] \in OnContainers, inst'[k].state # "ok"
            PROVE  k[3] \in running'[k[2]]
        <4>1. k[2] # n /\ inst'[k] = inst[k]
          BY <3>1, <3>4 DEF ForgetKey, Keep, End, NoInstance
        <4> QED BY <2>0, <3>2, <3>3, <3>4, <4>1 DEF WasRunning
      <3>5. WasRunning(inst, running)'
        BY <3>4 DEF WasRunning
      <3> QED BY <3>2, <3>5, SaveWasRunning
    <2>7. ASSUME NEW rs \in RuleSets, NEW gone \in SUBSET Node, Restart(rs, gone) PROVE RunningInv'
      <3>1. \A k \in Key : inst'[k] = PruneKey(k, disk.inst[k], rs).inst
        BY <2>7 DEF Restart, Apply
      <3>2. running' = disk.running /\ disk' = State'
        BY <2>7 DEF Restart
      <3>3. WasRunning(disk.inst, disk.running)
        BY DEF RunningInv
      <3>4. WasRunning(inst, running)'
        BY <3>1, <3>2, <3>3 DEF WasRunning, PruneKey, Keep, End, NoInstance
      <3>5. disk'.inst = inst' /\ disk'.running = running'
        BY <3>2 DEF State
      <3> QED BY <3>4, <3>5 DEF RunningInv, WasRunning
    <2> QED BY <2>1, <2>2, <2>3, <2>4, <2>5, <2>6, <2>7 DEF Next, vars, engineVars, PushStarts, MuteRule,
               MuteNode, SetTags, RevokeFromCtl, Tick
  <1>3. RunningInv => ContainerWasRunning
    BY DEF RunningInv, WasRunning, ContainerWasRunning
  <1> QED BY <1>1, <1>2, <1>3, TypeCorrect, AlertHasRuleCorrect, PTL DEF Spec

-----------------------------------------------------------------------------
(* Quiet alerts.                                                           *)

Starts(res) == res.event \in {"firing", "repeat"}

(* A quiet alert is neither started nor repeated (alerts.js 134-138).      *)
LEMMA RetellSilent ==
    ASSUME NEW i, NEW t, NEW q \in BOOLEAN, Starts(Retell(i, t, q))
    PROVE  ~q
  BY DEF Starts, Retell, Keep

(* Judging an alert starts or repeats it only when it is not quiet         *)
(* (alerts.js 140-162).                                                    *)
LEMMA JudgeSilent ==
    ASSUME NEW r, NEW i \in Instance, NEW holds, NEW over, NEW t, NEW q \in BOOLEAN,
           Starts(Judge(r, i, holds, over, t, q))
    PROVE  ~q
  <1>1. CASE i.state = "firing" /\ ~over
    BY <1>1, RetellSilent DEF Judge
  <1>2. CASE ~(i.state = "firing" /\ ~over)
    BY <1>2 DEF Judge, Keep, Resolved, Starts
  <1> QED BY <1>1, <1>2

(* Ending an alert, or leaving it alone, starts nothing.                   *)
LEMMA EndSilent ==
    ASSUME NEW i
    PROVE  ~Starts(End(i)) /\ ~Starts(Keep(i))
  BY DEF End, Resolved, Keep, Starts

(* A push starts or repeats an alert only when it is not quiet, given the  *)
(* state of the node's offline alert (alerts.js 191-213).                  *)
LEMMA EvaluateSilent ==
    ASSUME TypeOK, NEW k \in Key, NEW n, NEW v, NEW run, NEW offl,
           Starts(EvaluateKey(k, n, v, run, offl))
    PROVE  k[2] = n /\ ~Quiet(k, clock, offl)
  <1> DEFINE nodeTags == IF n \in active THEN tags[n] ELSE {}
             eff == ForNode(rules[k[1]], n, nodeTags)
             q == Quiet(k, clock, offl)
  <1>1. inst[k] \in Instance /\ q \in BOOLEAN
    BY DEF TypeOK, Quiet
  <1>2. /\ \A val : Starts(JudgeValue(eff, inst[k], val, clock, q)) => ~q
        /\ Starts(Judge(eff, inst[k], FALSE, TRUE, clock, q)) => ~q
    <2> HIDE DEF eff, q
    <2> QED BY <1>1, JudgeSilent DEF JudgeValue
  <1> QED BY <1>2, EndSilent DEF EvaluateKey

(* So does the timer's check (alerts.js 217-239).                          *)
LEMMA CheckSilent ==
    ASSUME TypeOK, NEW k \in Key, NEW offl, Starts(CheckKey(k, offl))
    PROVE  ~Quiet(k, clock, offl)
  <1> DEFINE r == rules[k[1]]
             q == Quiet(k, clock, offl)
  <1>1. inst[k] \in Instance /\ q \in BOOLEAN
    BY DEF TypeOK, Quiet
  <1>2. /\ \A val : Starts(JudgeValue(r, inst[k], val, clock, q)) => ~q
        /\ Starts(Retell(inst[k], clock, q)) => ~q
    <2> HIDE DEF r, q
    <2> QED BY <1>1, JudgeSilent, RetellSilent DEF JudgeValue
  <1> QED BY <1>2, EndSilent DEF CheckKey

(* The offline alert of a node is judged the same way whatever it was      *)
(* before the step: it never keeps itself quiet (alerts.js 122).           *)
LEMMA OfflineJudgedFirst ==
    ASSUME NEW n, NEW v, NEW run, NEW a, NEW b
    PROVE  /\ EvaluateKey(OfflineKey(n), n, v, run, a) = EvaluateKey(OfflineKey(n), n, v, run, b)
           /\ CheckKey(OfflineKey(n), a) = CheckKey(OfflineKey(n), b)
  <1>1. Quiet(OfflineKey(n), clock, a) = Quiet(OfflineKey(n), clock, b)
    BY DEF Quiet, OfflineKey
  <1> QED BY <1>1 DEF EvaluateKey, CheckKey

(* No start and no repeat is told while its rule or node is muted, or      *)
(* while its node is offline after that very step (alerts.js 119-122):     *)
(* every operation judges the offline alert before it asks.                *)
THEOREM QuietStaysSilent == Spec => QuietIsSilent
  <1> DEFINE Heard(k) == ~Muted(k, clock) /\ (k[1] # Offline => inst'[OfflineKey(k[2])].state # "firing")
  <1>1. TypeOK /\ [Next]_vars => [\A k \in Key : out'[k] \in {"firing", "repeat"} => Heard(k)]_vars
    <2> SUFFICES ASSUME TypeOK, Next, NEW k \in Key, out'[k] \in {"firing", "repeat"}
                 PROVE  Heard(k)
      OBVIOUS
    <2>0. \A n \in Node : OfflineKey(n) \in Key
      BY RuleAssumption DEF OfflineKey, Key
    <2>1. ASSUME NEW n \in Node, NEW v \in Views, Evaluate(n, v) PROVE Heard(k)
      <3> DEFINE run == RunningAfter(n, v)
                 offl == EvaluateKey(OfflineKey(n), n, v, run, FALSE).inst.state = "firing"
      <3>1. \A x \in Key : /\ inst'[x] = EvaluateKey(x, n, v, run, offl).inst
                           /\ out'[x] = EvaluateKey(x, n, v, run, offl).event
        BY <2>1 DEF Evaluate, Apply
      <3>2. offl = (inst'[OfflineKey(n)].state = "firing")
        <4>1. EvaluateKey(OfflineKey(n), n, v, run, FALSE) = EvaluateKey(OfflineKey(n), n, v, run, offl)
          <5> HIDE DEF run, offl
          <5> QED BY OfflineJudgedFirst
        <4>2. inst'[OfflineKey(n)] = EvaluateKey(OfflineKey(n), n, v, run, offl).inst
          BY <2>0, <3>1
        <4> QED BY <4>1, <4>2
      <3> HIDE DEF run, offl
      <3>3. Starts(EvaluateKey(k, n, v, run, offl))
        BY <3>1 DEF Starts
      <3>4. k[2] = n /\ ~Quiet(k, clock, offl)
        BY <3>3, EvaluateSilent
      <3> QED BY <3>2, <3>4 DEF Quiet
    <2>2. CASE Check
      <3> DEFINE offl(n) == CheckKey(OfflineKey(n), FALSE).inst.state = "firing"
      <3>1. \A x \in Key : /\ inst'[x] = CheckKey(x, offl(x[2])).inst
                           /\ out'[x] = CheckKey(x, offl(x[2])).event
        BY <2>2 DEF Check, Apply
      <3>2. k[2] \in Node
        BY DEF Key
      <3>3. offl(k[2]) = (inst'[OfflineKey(k[2])].state = "firing")
        <4>1. CheckKey(OfflineKey(k[2]), FALSE) = CheckKey(OfflineKey(k[2]), offl(k[2]))
          <5> HIDE DEF offl
          <5> QED BY OfflineJudgedFirst
        <4>2. OfflineKey(k[2])[2] = k[2]
          BY DEF OfflineKey
        <4>3. inst'[OfflineKey(k[2])] = CheckKey(OfflineKey(k[2]), offl(k[2])).inst
          <5> HIDE DEF offl
          <5> QED BY <2>0, <3>1, <3>2, <4>2
        <4> QED BY <4>1, <4>3
      <3> HIDE DEF offl
      <3>4. Starts(CheckKey(k, offl(k[2])))
        BY <3>1 DEF Starts
      <3>5. ~Quiet(k, clock, offl(k[2]))
        BY <3>4, CheckSilent
      <3> QED BY <3>3, <3>5 DEF Quiet
    <2>3. ASSUME \/ \E rs \in RuleSets : SetRules(rs)
                 \/ \E rs \in RuleSets, gone \in SUBSET Node : Restart(rs, gone)
          PROVE  FALSE
      <3>1. \A i, rs : ~Starts(PruneKey(k, i, rs))
        BY EndSilent DEF PruneKey
      <3>2. ASSUME NEW rs \in RuleSets, SetRules(rs) PROVE FALSE
        <4>1. out'[k] = PruneKey(k, inst[k], rs).event
          BY <3>2 DEF SetRules, Apply
        <4> QED BY <3>1, <4>1 DEF Starts
      <3>3. ASSUME NEW rs \in RuleSets, NEW gone \in SUBSET Node, Restart(rs, gone) PROVE FALSE
        <4>1. out'[k] = PruneKey(k, disk.inst[k], rs).event
          BY <3>3 DEF Restart, Apply
        <4> QED BY <3>1, <4>1 DEF Starts
      <3> QED BY <2>3, <3>2, <3>3
    <2>4. ASSUME NEW n \in Node, RevokeFromPage(n) PROVE FALSE
      <3>1. out'[k] = ForgetKey(k, n).event
        BY <2>4 DEF RevokeFromPage, Apply
      <3>2. ~Starts(ForgetKey(k, n))
        BY EndSilent DEF ForgetKey
      <3> QED BY <3>1, <3>2 DEF Starts
    <2>5. ASSUME Quietly PROVE FALSE
      BY <2>5 DEF Quietly, Silence
    <2> QED BY <2>1, <2>2, <2>3, <2>4, <2>5 DEF Next, PushStarts, MuteRule, MuteNode, SetTags,
               RevokeFromCtl, Tick
  <1> QED BY <1>1, TypeCorrect, PTL DEF Spec, QuietIsSilent

-----------------------------------------------------------------------------
(* Mutes of rules.  Only a rule of the list is muted.                      *)

MutesHaveRules == \A r \in Rule : muteRule[r] # 0 => r \in DOMAIN rules

(* A step leaves the mutes and the list alone, mutes a rule of the list,   *)
(* or prunes the mutes with the new list (alerts.js 183); a restart that   *)
(* lost nothing prunes the mutes it left.                                  *)
LEMMA MuteSteps ==
    ASSUME TypeOK, MutesHaveRules, [Next]_vars
    PROVE  /\ MutesHaveRules'
           /\ ~lost' => \A r \in DOMAIN rules' \ DOMAIN rules : muteRule'[r] = 0
  <1>1. CASE UNCHANGED <<rules, muteRule>>
    BY <1>1 DEF MutesHaveRules
  <1>2. ASSUME NEW r \in Rule, NEW until \in MuteTimes, MuteRule(r, until)
        PROVE  /\ MutesHaveRules'
               /\ rules' = rules
    <2>1. rules' = rules /\ muteRule' = [muteRule EXCEPT ![r] = IF until > clock THEN until ELSE 0]
      BY <1>2 DEF MuteRule
    <2>2. r \in DOMAIN rules \/ ~(until > clock)
      BY <1>2, TimeAssumption DEF MuteRule, TypeOK
    <2> QED BY <2>1, <2>2 DEF MutesHaveRules, TypeOK
  <1>3. ASSUME NEW rs \in RuleSets, SetRules(rs)
        PROVE  /\ MutesHaveRules'
               /\ \A r \in DOMAIN rules' \ DOMAIN rules : muteRule'[r] = 0
    <2>1. rules' = rs /\ muteRule' = PruneMutes(muteRule, rs) /\ DOMAIN rs \subseteq Rule
      BY <1>3, RuleSetsAssumption DEF SetRules, IsRuleList
    <2> QED BY <2>1 DEF PruneMutes, MutesHaveRules
  <1>4. ASSUME NEW rs \in RuleSets, NEW gone \in SUBSET Node, Restart(rs, gone)
        PROVE  /\ MutesHaveRules'
               /\ ~lost' => \A r \in DOMAIN rules' \ DOMAIN rules : muteRule'[r] = 0
    <2>1. rules' = rs /\ muteRule' = PruneMutes(disk.muteRule, rs) /\ DOMAIN rs \subseteq Rule
      BY <1>4, RuleSetsAssumption DEF Restart, IsRuleList
    <2>2. ~lost' => disk.muteRule = muteRule
      <3>1. ~lost' => disk = State
        BY <1>4, Zenon DEF Restart
      <3> QED BY <3>1 DEF State
    <2> QED BY <2>1, <2>2 DEF PruneMutes, MutesHaveRules
  <1>5. CASE UNCHANGED vars
    BY <1>1, <1>5 DEF vars, engineVars
  <1>6. ASSUME NEW n \in Node, PushStarts(n) PROVE UNCHANGED <<rules, muteRule>>
    BY <1>6 DEF PushStarts, engineVars
  <1>7. ASSUME NEW n \in Node, NEW v \in Views, Evaluate(n, v) PROVE UNCHANGED <<rules, muteRule>>
    BY <1>7 DEF Evaluate
  <1>8. ASSUME Check PROVE UNCHANGED <<rules, muteRule>>
    BY <1>8 DEF Check
  <1>9. ASSUME NEW n \in Node, NEW until \in MuteTimes, MuteNode(n, until)
        PROVE  UNCHANGED <<rules, muteRule>>
    BY <1>9 DEF MuteNode
  <1>10. ASSUME NEW n \in Node, NEW ts \in SUBSET Tag, SetTags(n, ts)
         PROVE  UNCHANGED <<rules, muteRule>>
    BY <1>10 DEF SetTags, engineVars
  <1>11. ASSUME NEW n \in Node, RevokeFromPage(n) \/ RevokeFromCtl(n)
         PROVE  UNCHANGED <<rules, muteRule>>
    BY <1>11 DEF RevokeFromPage, RevokeFromCtl, engineVars
  <1>12. ASSUME Tick PROVE UNCHANGED <<rules, muteRule>>
    BY <1>12 DEF Tick, engineVars
  <1> QED BY <1>1, <1>2, <1>3, <1>4, <1>5, <1>6, <1>7, <1>8, <1>9, <1>10, <1>11, <1>12 DEF Next

(* A rule that comes into the list is not kept quiet by the mute of an     *)
(* earlier rule of its id (prune, alerts.js 183), for every list of rules: *)
(* a mute goes with its rule, from the saved state too.                    *)
THEOREM NewRulesAreHeard == Spec => NewRuleIsHeard
  <1>1. Init => MutesHaveRules
    BY DEF Init, MutesHaveRules
  <1>2. TypeOK /\ MutesHaveRules /\ [Next]_vars => MutesHaveRules'
    BY MuteSteps
  <1>3. TypeOK /\ MutesHaveRules /\ [Next]_vars
        => [~lost' => \A r \in DOMAIN rules' \ DOMAIN rules : muteRule'[r] = 0]_vars
    BY MuteSteps
  <1> QED BY <1>1, <1>2, <1>3, TypeCorrect, PTL DEF Spec, NewRuleIsHeard
=============================================================================
