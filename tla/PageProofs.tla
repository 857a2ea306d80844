----------------------------- MODULE PageProofs -----------------------------
(***************************************************************************)
(* Theorems about the page: its settings, its alerts window and its view   *)
(* of a node, for any number of browsers, calls and nodes.                 *)
(***************************************************************************)
EXTENDS Console, TLAPS

-----------------------------------------------------------------------------
(* Settings.                                                               *)

Value == Own \cup {Builtin, FileValue, Unset}

Sets == [shared : Value, own : Value]

SetType ==
    /\ file \in FileSets /\ copy \in FileSets /\ saved \in Sets
    /\ defaults \in [Page -> [set : Sets, managed : BOOLEAN]]
    /\ cfg \in [Page -> Sets] /\ beforeImport \in [Page -> Sets]
    /\ local \in [Page -> Sets] /\ post \in [Page -> Sets]

(* A page whose shared set has the file's value nowhere.                   *)
Clean(p) ==
    /\ cfg[p].shared # FileValue /\ beforeImport[p].shared # FileValue
    /\ local[p].shared # FileValue /\ post[p].shared # FileValue
    /\ defaults[p].set.shared # FileValue

(* While the hub has no file, a page with a file's value is known as one   *)
(* that is behind; the hub saved such a value only from one of those.      *)
SetInv ==
    /\ SetType
    /\ saved.shared = FileValue => behind # {}
    /\ copy = Unset => \A p \in Page \ behind : Clean(p)

(* A page on which no node's own set has the file's value.                 *)
CleanOwn(p) ==
    /\ cfg[p].own # FileValue /\ beforeImport[p].own # FileValue
    /\ local[p].own # FileValue /\ post[p].own # FileValue
    /\ defaults[p].set.own # FileValue

(* A file's value gets into the nodes' own sets only by ownSet.            *)
OwnInv == copied = {} => saved.own # FileValue /\ \A p \in Page : CleanOwn(p)

(* Settings over others have the values of the one or the other.           *)
LEMMA OverValues ==
    ASSUME NEW s \in Sets, NEW t \in Sets
    PROVE  /\ Merged(s, t) \in Sets
           /\ s.shared # FileValue /\ t.shared # FileValue => Merged(s, t).shared # FileValue
           /\ s.own # FileValue /\ t.own # FileValue => Merged(s, t).own # FileValue
  BY DEF Merged, First, Sets

LEMMA SomeSets == Nothing \in Sets /\ Builtins \in Sets /\ Choices \subseteq Sets /\ Imported \subseteq Sets
  BY DEF Nothing, Builtins, Choices, Imported, Sets, Value

LEMMA NoFileValue ==
    /\ Nothing.shared # FileValue /\ Builtins.shared # FileValue
    /\ Nothing.own # FileValue /\ Builtins.own # FileValue
    /\ \A s \in Choices \cup Imported : s.shared # FileValue /\ s.own # FileValue
  BY ValuesAssumption DEF Nothing, Builtins, Choices, Imported

(* What GET /config.json answers has the file's value only from the file   *)
(* or from config.json.                                                    *)
LEMMA ConfigSets ==
    ASSUME SetType
    PROVE  /\ Config \in [set : Sets, managed : BOOLEAN]
           /\ copy = Unset => Config.set = saved
           /\ Config.set.own = saved.own
  <1>1. First(copy, saved.shared) \in Value
    BY DEF SetType, Sets, First, FileSets, Value
  <1>2. Config.set = [shared |-> First(copy, saved.shared), own |-> saved.own]
    BY DEF SetType, Sets, Config
  <1>3. (copy # Unset) \in BOOLEAN
    OBVIOUS
  <1>4. Config.managed \in BOOLEAN
    BY <1>3, Zenon DEF Config
  <1>5. saved.own \in Value /\ saved = [shared |-> saved.shared, own |-> saved.own]
    BY DEF SetType, Sets
  <1>6. Config = [set |-> Config.set, managed |-> Config.managed]
    BY Zenon DEF Config
  <1>7. Config.set \in Sets
    BY <1>1, <1>2, <1>5 DEF Sets
  <1>8. copy = Unset => Config.set = saved
    BY <1>2, <1>5 DEF First
  <1>9. Config.set.own = saved.own
    BY <1>2
  <1> QED BY <1>4, <1>6, <1>7, <1>8, <1>9

(* It holds at the start.                                                  *)
LEMMA SetInvInit == SetInit => SetInv
  <1> SUFFICES ASSUME SetInit PROVE SetInv
    OBVIOUS
  <1>1. file \in FileSets /\ copy \in FileSets /\ saved \in Sets /\ saved.shared # FileValue
    BY SomeSets, NoFileValue DEF SetInit
  <1>2. Config \in [set : Sets, managed : BOOLEAN] /\ (copy = Unset => Config.set.shared # FileValue)
    <2>1. First(copy, saved.shared) \in Value
      BY <1>1 DEF Sets, First, FileSets, Value
    <2>2. Config.set = [shared |-> First(copy, saved.shared), own |-> saved.own]
      BY <1>1 DEF Sets, Config
    <2>3. Config.managed \in BOOLEAN
      <3>1. (copy # Unset) \in BOOLEAN
        OBVIOUS
      <3> QED BY <3>1, Zenon DEF Config
    <2>4. Config = [set |-> Config.set, managed |-> Config.managed]
      BY Zenon DEF Config
    <2>5. Config.set \in Sets
      BY <1>1, <2>1, <2>2 DEF Sets
    <2>6. copy = Unset => Config.set.shared # FileValue
      BY <1>1, <2>2 DEF First
    <2> QED BY <2>3, <2>4, <2>5, <2>6
  <1>3. /\ Merged(Config.set, Builtins) \in Sets
        /\ copy = Unset => Merged(Config.set, Builtins).shared # FileValue
    BY <1>2, OverValues, SomeSets, NoFileValue
  <1>4. [Config EXCEPT !.set = Merged(@, Builtins)] =
          [set |-> Merged(Config.set, Builtins), managed |-> Config.managed]
    BY <1>2
  <1>5. SetType
    BY <1>1, <1>2, <1>3, <1>4, SomeSets DEF SetInit, SetType
  <1>6. ASSUME copy = Unset, NEW p \in Page PROVE Clean(p)
    BY <1>3, <1>4, <1>6, NoFileValue DEF SetInit, Clean
  <1> QED BY <1>1, <1>5, <1>6 DEF SetInv

(* Every step of the settings part keeps the invariant.                    *)
LEMMA SetInvNext ==
    ASSUME SetInv, SetNext
    PROVE  SetInv'
  <1> USE ValuesAssumption DEF SetInv, SetType
  <1>1. ASSUME NEW p \in Page, NEW c \in {Config, NoConfig}, LoadConfig(p, c)
        PROVE  SetInv'
    <2>1. c \in [set : Sets, managed : BOOLEAN]
      <3>1. NoConfig \in [set : Sets, managed : BOOLEAN]
        BY SomeSets DEF NoConfig
      <3> QED BY <3>1, ConfigSets
    <2> DEFINE d == Merged(c.set, Builtins)
    <2>2. d \in Sets /\ (c.set.shared # FileValue => d.shared # FileValue)
      BY <2>1, OverValues, SomeSets, NoFileValue
    <2>3. [c EXCEPT !.set = Merged(@, Builtins)] = [set |-> d, managed |-> c.managed]
      BY <2>1
    <2>4. /\ Merged(local[p], d) \in Sets
          /\ local[p].shared # FileValue /\ d.shared # FileValue
               => Merged(local[p], d).shared # FileValue
      BY <2>2, OverValues
    <2>5. /\ Loaded(p, c) \in Sets
          /\ local[p].shared # FileValue /\ d.shared # FileValue => Loaded(p, c).shared # FileValue
      <3>1. CASE c.managed
        <4>1. Loaded(p, c) = [Merged(local[p], d) EXCEPT !.shared = d.shared]
          BY <3>1 DEF Loaded
        <4> HIDE DEF d
        <4> QED BY <2>2, <2>4, <4>1 DEF Sets
      <3>2. CASE ~c.managed
        <4>1. Loaded(p, c) = Merged(local[p], d)
          BY <3>2 DEF Loaded
        <4> QED BY <2>4, <4>1
      <3> QED BY <3>1, <3>2
    <2>6. /\ defaults' = [defaults EXCEPT ![p] = [set |-> d, managed |-> c.managed]]
          /\ cfg' = [cfg EXCEPT ![p] = Loaded(p, c)]
          /\ beforeImport' = [beforeImport EXCEPT ![p] = Nothing]
          /\ UNCHANGED <<file, copy, saved, local, post>> /\ post[p] = Nothing
          /\ behind' = IF FileValue \in {saved.shared, local[p].shared}
                       THEN behind \cup {p} ELSE behind \ {p}
      BY <1>1, <2>3 DEF LoadConfig
    <2> HIDE DEF d
    <2>7. SetType'
      BY <2>1, <2>2, <2>5, <2>6, SomeSets
    <2>8. saved'.shared = FileValue => behind' # {}
      BY <2>6
    <2>9. ASSUME copy' = Unset, NEW q \in Page, q \notin behind' PROVE Clean(q)'
      <3>1. CASE q # p
        <4>1. Clean(q)
          BY <2>6, <2>9, <3>1
        <4> QED BY <2>6, <3>1, <4>1 DEF Clean
      <3>2. CASE q = p
        <4>1. saved.shared # FileValue /\ local[p].shared # FileValue /\ copy = Unset
          BY <2>6, <2>9, <3>2
        <4>2. c.set.shared # FileValue
          BY <4>1, ConfigSets, NoFileValue DEF NoConfig
        <4> QED BY <2>2, <2>5, <2>6, <3>2, <4>1, <4>2, NoFileValue DEF Clean
      <3> QED BY <3>1, <3>2
    <2> QED BY <2>7, <2>8, <2>9
  <1>2. ASSUME NEW p \in Page, NEW v \in Own, SetValue(p, v) PROVE SetInv'
    BY <1>2 DEF SetValue, OtherVars, Value, Sets, Clean
  <1>3. ASSUME NEW p \in Page, NEW v \in Own, SetOwn(p, v) PROVE SetInv'
    BY <1>3 DEF SetOwn, OtherVars, Value, Sets, Clean
  <1>4. ASSUME NEW p \in Page, OwnSet(p) PROVE SetInv'
    BY <1>4 DEF OwnSet, OtherVars, Value, Sets, Clean
  <1>5. ASSUME NEW p \in Page, ResetOwn(p) PROVE SetInv'
    BY <1>5 DEF ResetOwn, OtherVars, Value, Sets, Clean
  <1>6. ASSUME NEW s \in Choices, OtherSaves(s) PROVE SetInv'
    BY <1>6, SomeSets, NoFileValue DEF OtherSaves, Stored, Sets, Clean
  <1>7. ASSUME NEW p \in Page, NEW s \in Imported, Import(p, s) PROVE SetInv'
    <2>1. /\ Merged(s, defaults[p].set) \in Sets
          /\ defaults[p].set.shared # FileValue => Merged(s, defaults[p].set).shared # FileValue
      BY OverValues, SomeSets, NoFileValue
    <2> QED BY <1>7, <2>1 DEF Import, Clean
  <1>8. ASSUME NEW p \in Page, CloseSettings(p) PROVE SetInv'
    BY <1>8, SomeSets, NoFileValue DEF CloseSettings, Clean
  <1>9. ASSUME NEW p \in Page, Reset(p) PROVE SetInv'
    BY <1>9, SomeSets, NoFileValue DEF Reset, Clean
  <1>10. ASSUME NEW p \in Page, SaveSettings(p) PROVE SetInv'
    BY <1>10, SomeSets, NoFileValue DEF SaveSettings, Clean
  <1>11. ASSUME NEW p \in Page, saved' = Stored(post[p])
         PROVE  saved' \in Sets /\ (saved'.shared = FileValue => behind # {})
    BY <1>11 DEF Stored, Sets, Clean, FileSets
  <1>12. ASSUME NEW p \in Page, Saved(p) PROVE SetInv'
    <2>1. /\ saved' = Stored(post[p]) /\ local' = [local EXCEPT ![p] = Nothing]
          /\ post' = [post EXCEPT ![p] = Nothing]
          /\ UNCHANGED <<file, copy, defaults, cfg, beforeImport, behind>>
      BY <1>12 DEF Saved
    <2>2. saved' \in Sets /\ (saved'.shared = FileValue => behind # {})
      BY <1>11, <2>1, Zenon
    <2>3. SetType'
      BY <2>1, <2>2, SomeSets
    <2> QED BY <2>1, <2>2, <2>3, NoFileValue DEF Clean
  <1>13. ASSUME NEW p \in Page, NEW written \in BOOLEAN, SavedLocal(p, written) PROVE SetInv'
    <2>1. /\ saved' = Stored(post[p]) \/ saved' = saved
          /\ local' = [local EXCEPT ![p] = cfg[p]] /\ post' = [post EXCEPT ![p] = Nothing]
          /\ UNCHANGED <<file, copy, defaults, cfg, beforeImport, behind>>
      BY <1>13 DEF SavedLocal
    <2>2. saved' \in Sets /\ (saved'.shared = FileValue => behind # {})
      <3>1. CASE saved' = Stored(post[p])
        BY <1>11, <3>1, Zenon
      <3>2. CASE saved' = saved
        BY <3>2
      <3> QED BY <2>1, <3>1, <3>2
    <2>3. SetType'
      BY <2>1, <2>2, SomeSets
    <2> QED BY <2>1, <2>2, <2>3, NoFileValue DEF Clean
  <1>14. CASE FileChanges
    BY <1>14 DEF FileChanges, FileSets, Clean
  <1>15. CASE LookAgain
    BY <1>15 DEF LookAgain, FileSets, Clean
  <1> HIDE DEF SetInv, SetType
  <1> QED BY <1>1, <1>2, <1>3, <1>4, <1>5, <1>6, <1>7, <1>8, <1>9, <1>10, <1>12, <1>13,
             <1>14, <1>15 DEF SetNext

(* At the start no node's own set has a file's value.                      *)
LEMMA OwnInvInit == SetInit => OwnInv
  <1> SUFFICES ASSUME SetInit PROVE OwnInv
    OBVIOUS
  <1>1. SetType
    BY SetInvInit DEF SetInv
  <1>2. saved.own # FileValue
    BY NoFileValue DEF SetInit
  <1>3. Merged(Config.set, Builtins).own # FileValue
    BY <1>1, <1>2, ConfigSets, OverValues, SomeSets, NoFileValue
  <1>4. [Config EXCEPT !.set = Merged(@, Builtins)].set = Merged(Config.set, Builtins)
    BY <1>1, ConfigSets
  <1>5. ASSUME NEW p \in Page PROVE CleanOwn(p)
    BY <1>3, <1>4, NoFileValue DEF SetInit, CleanOwn
  <1> QED BY <1>2, <1>5 DEF OwnInv

(* Only ownSet puts a file's value into a node's own set.                  *)
LEMMA OwnInvNext ==
    ASSUME SetInv, OwnInv, SetNext
    PROVE  OwnInv'
  <1> USE DEF SetInv, SetType, OwnInv
  <1>1. ASSUME NEW p \in Page, NEW c \in {Config, NoConfig}, LoadConfig(p, c)
        PROVE  OwnInv'
    <2>1. c \in [set : Sets, managed : BOOLEAN] /\ (saved.own # FileValue => c.set.own # FileValue)
      <3>1. NoConfig \in [set : Sets, managed : BOOLEAN] /\ NoConfig.set.own # FileValue
        BY SomeSets, NoFileValue DEF NoConfig
      <3> QED BY <3>1, ConfigSets
    <2> DEFINE d == Merged(c.set, Builtins)
    <2>2. d \in Sets /\ (saved.own # FileValue => d.own # FileValue)
      BY <2>1, OverValues, SomeSets, NoFileValue
    <2>3. [c EXCEPT !.set = Merged(@, Builtins)] = [set |-> d, managed |-> c.managed]
      BY <2>1
    <2>4. /\ Merged(local[p], d) \in Sets
          /\ local[p].own # FileValue /\ d.own # FileValue => Merged(local[p], d).own # FileValue
      BY <2>2, OverValues
    <2>5. Loaded(p, c).own = Merged(local[p], d).own
      <3> HIDE DEF d
      <3>1. \/ Loaded(p, c) = [Merged(local[p], d) EXCEPT !.shared = d.shared]
            \/ Loaded(p, c) = Merged(local[p], d)
        BY DEF Loaded, d
      <3> QED BY <2>4, <3>1 DEF Sets
    <2>6. /\ defaults' = [defaults EXCEPT ![p] = [set |-> d, managed |-> c.managed]]
          /\ cfg' = [cfg EXCEPT ![p] = Loaded(p, c)]
          /\ beforeImport' = [beforeImport EXCEPT ![p] = Nothing]
          /\ UNCHANGED <<saved, local, post, copied>>
      BY <1>1, <2>3 DEF LoadConfig
    <2> HIDE DEF d
    <2> QED BY <2>2, <2>4, <2>5, <2>6, NoFileValue DEF CleanOwn
  <1>2. ASSUME NEW p \in Page, NEW v \in Own, SetValue(p, v) PROVE OwnInv'
    BY <1>2 DEF SetValue, OtherVars, Sets, CleanOwn
  <1>3. ASSUME NEW p \in Page, NEW v \in Own, SetOwn(p, v) PROVE OwnInv'
    BY <1>3, ValuesAssumption DEF SetOwn, OtherVars, Sets, CleanOwn
  <1>4. ASSUME NEW p \in Page, OwnSet(p) PROVE OwnInv'
    BY <1>4 DEF OwnSet, Sets, CleanOwn
  <1>5. ASSUME NEW p \in Page, ResetOwn(p) PROVE OwnInv'
    BY <1>5, ValuesAssumption DEF ResetOwn, OtherVars, Sets, CleanOwn
  <1>6. ASSUME NEW s \in Choices, OtherSaves(s) PROVE OwnInv'
    BY <1>6, SomeSets, NoFileValue DEF OtherSaves, Stored, Sets, CleanOwn
  <1>7. ASSUME NEW p \in Page, NEW s \in Imported, Import(p, s) PROVE OwnInv'
    <2>1. defaults[p].set.own # FileValue => Merged(s, defaults[p].set).own # FileValue
      BY OverValues, SomeSets, NoFileValue
    <2> QED BY <1>7, <2>1 DEF Import, CleanOwn
  <1>8. ASSUME NEW p \in Page, CloseSettings(p) PROVE OwnInv'
    BY <1>8, NoFileValue DEF CloseSettings, CleanOwn
  <1>9. ASSUME NEW p \in Page, Reset(p) PROVE OwnInv'
    BY <1>9, NoFileValue DEF Reset, CleanOwn
  <1>10. ASSUME NEW p \in Page, SaveSettings(p) PROVE OwnInv'
    BY <1>10, NoFileValue DEF SaveSettings, CleanOwn
  <1>11. ASSUME NEW p \in Page, Saved(p) \/ \E written \in BOOLEAN : SavedLocal(p, written)
         PROVE  OwnInv'
    <2>1. /\ saved' = Stored(post[p]) \/ saved' = saved
          /\ local' = [local EXCEPT ![p] = Nothing] \/ local' = [local EXCEPT ![p] = cfg[p]]
          /\ post' = [post EXCEPT ![p] = Nothing]
          /\ UNCHANGED <<defaults, cfg, beforeImport, copied>>
      BY <1>11 DEF Saved, SavedLocal
    <2>2. Stored(post[p]).own = post[p].own
      BY DEF Stored, Sets
    <2> QED BY <2>1, <2>2, NoFileValue DEF CleanOwn
  <1>12. CASE FileChanges \/ LookAgain
    BY <1>12 DEF FileChanges, LookAgain, CleanOwn
  <1> HIDE DEF SetInv, SetType, OwnInv
  <1> QED BY <1>1, <1>2, <1>3, <1>4, <1>5, <1>6, <1>7, <1>8, <1>9, <1>10, <1>11, <1>12 DEF SetNext

(* What the hub saves never came from a file in conf.d (server.js:992),    *)
(* but for the two exceptions: a page had the file's value from before the *)
(* hub saw it removed, or ownSet copied it into a node's own set.          *)
THEOREM SavedIsAlwaysOwn == Spec => []SavedIsOwn
  <1>1. Init => SetInv /\ OwnInv
    BY SetInvInit, OwnInvInit DEF Init
  <1>2. SetInv /\ OwnInv /\ [Next]_vars => (SetInv /\ OwnInv)'
    <2> SUFFICES ASSUME SetInv, OwnInv, [Next]_vars PROVE (SetInv /\ OwnInv)'
      OBVIOUS
    <2>1. CASE UNCHANGED setVars
      BY <2>1 DEF SetInv, SetType, Clean, OwnInv, CleanOwn, setVars
    <2> QED BY <2>1, SetInvNext, OwnInvNext DEF Next, vars
  <1>3. SetInv /\ OwnInv => SavedIsOwn
    BY DEF SetInv, OwnInv, SavedIsOwn
  <1> QED BY <1>1, <1>2, <1>3, PTL DEF Spec

-----------------------------------------------------------------------------
(* The alerts window.                                                      *)

CallRec ==
    [op : {"load", "save", "test", "mute", "status"}, sent : SUBSET Nat, served : BOOLEAN,
     ok : BOOLEAN, got : SUBSET Nat, newest : BOOLEAN]

EditType ==
    /\ tab \in Tab /\ dirty \in BOOLEAN /\ overlapped \in BOOLEAN
    /\ rows \in SUBSET Nat /\ stored \in SUBSET Nat /\ keep \in SUBSET Nat
    /\ made \in Nat
    /\ call \in [Call -> {Free} \cup CallRec]

(* A call that is not free is a whole record.                              *)
LEMMA CallFields ==
    ASSUME EditType, NEW c \in Call
    PROVE  /\ call[c] # Free => call[c] \in CallRec
           /\ call[c] = Free => call[c].op = "none"
           /\ call[c] \in CallRec => call[c] # Free
  BY DEF EditType, Free, CallRec

(* A call that starts is a whole record.                                   *)
LEMMA AskedRec ==
    ASSUME NEW what \in {"load", "save", "test", "mute", "status"}, NEW sent \in SUBSET Nat
    PROVE  /\ Asked(what, sent) \in CallRec
           /\ Asked(what, sent).op = what /\ Asked(what, sent).sent = sent
           /\ Asked(what, sent).served = FALSE /\ Asked(what, sent).newest = TRUE
  BY DEF Asked, CallRec

(* The calls after one started: it, and the others, which at most stop     *)
(* being the newest.                                                       *)
LEMMA Begun ==
    ASSUME EditType, NEW c \in Call, NEW what \in {"load", "save", "test", "mute", "status"},
           NEW sent \in SUBSET Nat, Begin(c, what, sent)
    PROVE  /\ call' \in [Call -> {Free} \cup CallRec]
           /\ overlapped' \in BOOLEAN
           /\ call'[c] = Asked(what, sent)
           /\ \A d \in Call \ {c} : call[d] = Free => call'[d] = Free
           /\ \A d \in Call \ {c} : call[d] # Free =>
                /\ call'[d].op = call[d].op /\ call'[d].served = call[d].served
                /\ call'[d].ok = call[d].ok /\ call'[d].got = call[d].got
                /\ what = "load" => call'[d].newest = FALSE
                /\ what # "load" => call'[d] = call[d]
           /\ ~overlapped' => ~overlapped /\ \A d \in Call \ {c} : call[d] = Free
  <1>1. \A d \in Call : call'[d] = IF d = c THEN Asked(what, sent)
                                   ELSE IF what = "load" /\ call[d] # Free THEN [call[d] EXCEPT !.newest = FALSE]
                                   ELSE call[d]
    BY DEF Begin
  <1>2. DOMAIN call' = Call
    BY DEF Begin
  <1>3. \A d \in Call : call[d] # Free => [call[d] EXCEPT !.newest = FALSE] \in CallRec
    BY CallFields DEF CallRec
  <1>4. call' \in [Call -> {Free} \cup CallRec]
    <2>1. \A d \in Call : call'[d] \in {Free} \cup CallRec
      <3>1. Asked(what, sent) \in CallRec
        BY AskedRec
      <3>2. \A d \in Call : call[d] \in {Free} \cup CallRec
        BY DEF EditType
      <3> QED BY <1>1, <1>3, <3>1, <3>2
    <2>2. call' = [d \in Call |-> call'[d]]
      BY DEF Begin
    <2> QED BY <2>1, <2>2
  <1>5. \A d \in Call \ {c} : call[d] # Free =>
                /\ call'[d].op = call[d].op /\ call'[d].served = call[d].served
                /\ call'[d].ok = call[d].ok /\ call'[d].got = call[d].got
                /\ what = "load" => call'[d].newest = FALSE
                /\ what # "load" => call'[d] = call[d]
    BY <1>1, CallFields DEF CallRec
  <1>6. ~overlapped' => ~overlapped /\ \A d \in Call \ {c} : call[d] = Free
    BY DEF Begin, Running
  <1>7. overlapped' \in BOOLEAN
    BY DEF Begin, EditType
  <1> QED BY <1>1, <1>4, <1>5, <1>6, <1>7

(* The hub's answer, or that there is none, changes nothing else of a call.*)
LEMMA Answered ==
    ASSUME EditType, NEW c \in Call, call[c] # Free, NEW good \in BOOLEAN, NEW data \in SUBSET Nat,
           call' = [call EXCEPT ![c].served = TRUE, ![c].ok = good, ![c].got = data]
    PROVE  /\ call' \in [Call -> {Free} \cup CallRec]
           /\ call'[c] # Free
           /\ call'[c].op = call[c].op /\ call'[c].sent = call[c].sent /\ call'[c].newest = call[c].newest
           /\ call'[c].served = TRUE /\ call'[c].ok = good /\ call'[c].got = data
           /\ \A d \in Call \ {c} : call'[d] = call[d]
  <1> DEFINE r == [call[c] EXCEPT !.served = TRUE, !.ok = good, !.got = data]
  <1>1. call[c] \in CallRec
    BY CallFields
  <1>2. r \in CallRec /\ r # Free
    BY <1>1 DEF CallRec, Free
  <1>3. call' = [call EXCEPT ![c] = r]
    BY DEF EditType
  <1>4. /\ r.op = call[c].op /\ r.sent = call[c].sent /\ r.newest = call[c].newest
        /\ r.served = TRUE /\ r.ok = good /\ r.got = data
    BY <1>1 DEF CallRec
  <1> HIDE DEF r
  <1> QED BY <1>2, <1>3, <1>4 DEF EditType

(* A call that ends leaves its place free.                                 *)
LEMMA Ends ==
    ASSUME EditType, NEW c \in Call, Over(c)
    PROVE  /\ call' \in [Call -> {Free} \cup CallRec] /\ overlapped' = overlapped
           /\ call'[c] = Free /\ \A d \in Call \ {c} : call'[d] = call[d]
  BY DEF Over, EditType


(* Every step of the alerts window keeps the types.                        *)
LEMMA EditTypeNext ==
    ASSUME EditType, EditNext
    PROVE  EditType'
  <1>0. {} \in SUBSET Nat /\ rows \in SUBSET Nat /\ {made + 1} \in SUBSET Nat
    BY DEF EditType
  <1>1. ASSUME NEW c \in Call, OpenTab(c) PROVE EditType'
    <2>1. Begin(c, "load", {}) /\ UNCHANGED <<tab, rows, dirty, stored, made, keep>>
      BY <1>1 DEF OpenTab
    <2>2. call' \in [Call -> {Free} \cup CallRec] /\ overlapped' \in BOOLEAN
      BY <1>0, <2>1, Begun
    <2> QED BY <2>1, <2>2 DEF EditType
  <1>2. ASSUME NEW c \in Call, Save(c) PROVE EditType'
    <2>1. Begin(c, "save", rows) /\ UNCHANGED <<tab, rows, stored, made, keep>>
          /\ dirty' = IF tab = "channels" THEN FALSE ELSE dirty
      BY <1>2 DEF Save
    <2>2. call' \in [Call -> {Free} \cup CallRec] /\ overlapped' \in BOOLEAN
      BY <1>0, <2>1, Begun
    <2> QED BY <2>1, <2>2 DEF EditType
  <1>3. ASSUME NEW c \in Call, Revert(c) PROVE EditType'
    <2>1. Begin(c, "load", {}) /\ UNCHANGED <<tab, rows, stored, made>> /\ dirty' = FALSE /\ keep' = {}
      BY <1>3 DEF Revert
    <2>2. call' \in [Call -> {Free} \cup CallRec] /\ overlapped' \in BOOLEAN
      BY <1>0, <2>1, Begun
    <2> QED BY <2>1, <2>2 DEF EditType
  <1>4. ASSUME NEW c \in Call, Test(c) PROVE EditType'
    <2>1. Begin(c, "test", {}) /\ UNCHANGED <<tab, rows, dirty, stored, made, keep>>
      BY <1>4 DEF Test
    <2>2. call' \in [Call -> {Free} \cup CallRec] /\ overlapped' \in BOOLEAN
      BY <1>0, <2>1, Begun
    <2> QED BY <2>1, <2>2 DEF EditType
  <1>5. ASSUME NEW c \in Call, Mute(c) PROVE EditType'
    <2>1. Begin(c, "mute", {made + 1}) /\ UNCHANGED <<tab, rows, dirty, stored, keep>> /\ made' = made + 1
      BY <1>5 DEF Mute
    <2>2. call' \in [Call -> {Free} \cup CallRec] /\ overlapped' \in BOOLEAN
      BY <1>0, <2>1, Begun
    <2> QED BY <2>1, <2>2 DEF EditType
  <1>6. ASSUME NEW c \in Call, Serve(c) PROVE EditType'
    <2>1. call[c] \in CallRec
      BY <1>6, CallFields DEF Serve
    <2>2. stored' \in SUBSET Nat
      <3>1. call[c].sent \in SUBSET Nat
        BY <2>1 DEF CallRec
      <3>2. stored' = IF call[c].op = "save" THEN call[c].sent
                      ELSE IF call[c].op = "mute" THEN stored \cup call[c].sent ELSE stored
        BY <1>6 DEF Serve
      <3> QED BY <3>1, <3>2 DEF EditType
    <2>3. call' \in [Call -> {Free} \cup CallRec]
      BY <1>6, <2>2, Answered DEF Serve
    <2> QED BY <1>6, <2>2, <2>3 DEF Serve, EditType
  <1>7. ASSUME NEW c \in Call, Fail(c) PROVE EditType'
    <2>1. call' \in [Call -> {Free} \cup CallRec]
      BY <1>7, <1>0, Answered DEF Fail
    <2> QED BY <1>7, <2>1 DEF Fail, EditType
  <1>8. ASSUME NEW c \in Call, LoadAnswered(c) PROVE EditType'
    <2>1. call[c].got \in SUBSET Nat
      BY <1>8, CallFields DEF LoadAnswered, Ended, CallRec
    <2>2. call' \in [Call -> {Free} \cup CallRec] /\ overlapped' = overlapped
      BY <1>8, Ends DEF LoadAnswered
    <2> QED BY <1>8, <2>1, <2>2 DEF LoadAnswered, EditType
  <1>9. ASSUME NEW c \in Call, SaveAnswered(c) PROVE EditType'
    <2>1. dirty' \in BOOLEAN /\ UNCHANGED <<tab, rows, stored, made, keep>>
      BY <1>9 DEF SaveAnswered, EditType
    <2>2. Over(c) \/ Begin(c, "status", {}) \/ Begin(c, "load", {})
      BY <1>9 DEF SaveAnswered
    <2>3. call' \in [Call -> {Free} \cup CallRec] /\ overlapped' \in BOOLEAN
      <3>1. CASE Over(c)
        BY <3>1, Ends DEF EditType
      <3>2. CASE Begin(c, "status", {})
        BY <3>2, <1>0, Begun
      <3>3. CASE Begin(c, "load", {})
        BY <3>3, <1>0, Begun
      <3> QED BY <2>2, <3>1, <3>2, <3>3
    <2> QED BY <2>1, <2>3 DEF EditType
  <1>10. ASSUME NEW c \in Call, TestAnswered(c) PROVE EditType'
    <2>1. Begin(c, "status", {}) /\ UNCHANGED <<tab, rows, dirty, stored, made, keep>>
      BY <1>10 DEF TestAnswered
    <2>2. call' \in [Call -> {Free} \cup CallRec] /\ overlapped' \in BOOLEAN
      BY <1>0, <2>1, Begun
    <2> QED BY <2>1, <2>2 DEF EditType
  <1>11. ASSUME NEW c \in Call, StatusAnswered(c) PROVE EditType'
    <2>1. UNCHANGED <<tab, rows, dirty, stored, made, keep>> /\ (Over(c) \/ Begin(c, "load", {}))
      BY <1>11 DEF StatusAnswered
    <2>2. call' \in [Call -> {Free} \cup CallRec] /\ overlapped' \in BOOLEAN
      <3>1. CASE Over(c)
        BY <3>1, Ends DEF EditType
      <3>2. CASE Begin(c, "load", {})
        BY <3>2, <1>0, Begun
      <3> QED BY <2>1, <3>1, <3>2
    <2> QED BY <2>1, <2>2 DEF EditType
  <1>12. ASSUME NEW c \in Call, MuteAnswered(c) PROVE EditType'
    <2>1. Begin(c, "load", {}) /\ UNCHANGED <<tab, rows, dirty, stored, made, keep>>
      BY <1>12 DEF MuteAnswered
    <2>2. call' \in [Call -> {Free} \cup CallRec] /\ overlapped' \in BOOLEAN
      BY <1>0, <2>1, Begun
    <2> QED BY <2>1, <2>2 DEF EditType
  <1>13. CASE Edit
    BY <1>13 DEF Edit, EditType
  <1>14. CASE HubMoves
    BY <1>14 DEF HubMoves, EditType
  <1> QED BY <1>1, <1>2, <1>3, <1>4, <1>5, <1>6, <1>7, <1>8, <1>9, <1>10, <1>11, <1>12, <1>13, <1>14
          DEF EditNext

(* Edits, while no two calls overlapped.  Clean rows are what the hub has, *)
(* unless they are being saved; a load brings them all; a save sends them  *)
(* all, but for those made since a save of the channels started.           *)
Kept ==
    /\ \A c, d \in Call : call[c] # Free /\ call[d] # Free => c = d
    /\ \A c \in Call : (call[c].op = "mute" => tab = "list") /\ (call[c].op = "save" => tab # "list")
    /\ keep \subseteq rows /\ (tab = "list" => keep = {})
    /\ ~dirty /\ (tab = "rules" \/ \A c \in Call : call[c].op # "save") => keep \subseteq stored
    /\ \A c \in Call : call[c].op = "load" =>
            keep \subseteq stored /\ (call[c].served /\ call[c].ok => keep \subseteq call[c].got)
    /\ \A c \in Call : call[c].op = "save" =>
            /\ ~dirty \/ tab = "rules" => keep \subseteq call[c].sent
            /\ call[c].served /\ call[c].ok => stored = call[c].sent

(* What is left to show when a call starts: no other call is under way.    *)
LEMMA KeptBegun ==
    ASSUME EditType, NEW c \in Call, NEW what \in {"load", "save", "test", "mute", "status"},
           NEW sent \in SUBSET Nat, Begin(c, what, sent), ~overlapped',
           keep' \subseteq rows', tab' = "list" => keep' = {},
           ~dirty' /\ (tab' = "rules" \/ what # "save") => keep' \subseteq stored',
           what = "load" => keep' \subseteq stored',
           what = "save" => tab' # "list" /\ keep' \subseteq sent, what = "mute" => tab' = "list"
    PROVE  Kept'
  <1>1. call'[c] = Asked(what, sent) /\ \A d \in Call \ {c} : call'[d] = Free
    BY DEF Begin, Running
  <1>2. call'[c].op = what /\ call'[c].sent = sent /\ call'[c].served = FALSE
    BY <1>1 DEF Asked
  <1>3. \A d \in Call \ {c} : call'[d].op = "none"
    BY <1>1 DEF Free
  <1> QED BY <1>1, <1>2, <1>3 DEF Kept

(* And when the one call that was under way has ended.                     *)
LEMMA KeptEnds ==
    ASSUME EditType, Kept, NEW c \in Call, call[c] # Free, Over(c),
           keep' \subseteq rows', tab' = "list" => keep' = {},
           ~dirty' => keep' \subseteq stored'
    PROVE  Kept'
  <1>1. \A d \in Call : call'[d] = Free
    BY Ends DEF Kept
  <1>2. \A d \in Call : call'[d].op = "none"
    BY <1>1 DEF Free
  <1> QED BY <1>1, <1>2 DEF Kept

(* Every step of the alerts window keeps the edits.                        *)
LEMMA KeptNext ==
    ASSUME EditType, ~overlapped => Kept, EditNext, ~overlapped'
    PROVE  Kept'
  <1>0. {} \in SUBSET Nat /\ rows \in SUBSET Nat /\ {made + 1} \in SUBSET Nat
    BY DEF EditType
  <1>a. ASSUME NEW c \in Call, NEW what \in {"load", "save", "test", "mute", "status"},
               NEW sent \in SUBSET Nat, Begin(c, what, sent)
        PROVE  Kept /\ \A d \in Call \ {c} : call[d] = Free
    BY <1>a, Begun
  <1>1. ASSUME NEW c \in Call, OpenTab(c) PROVE Kept'
    <2>1. Begin(c, "load", {}) /\ UNCHANGED <<tab, rows, dirty, stored, made, keep>> /\ ~dirty /\ call[c] = Free
      BY <1>1 DEF OpenTab
    <2>2. Kept /\ \A d \in Call : call[d].op # "save"
      BY <2>1, <1>0, <1>a DEF Free
    <2>3. keep \subseteq stored /\ keep \subseteq rows /\ (tab = "list" => keep = {})
      BY <2>1, <2>2 DEF Kept
    <2> QED BY <1>0, <2>1, <2>3, KeptBegun
  <1>2. ASSUME NEW c \in Call, Save(c) PROVE Kept'
    <2>1. Begin(c, "save", rows) /\ UNCHANGED <<tab, rows, stored, made, keep>> /\ call[c] = Free
          /\ dirty' = (IF tab = "channels" THEN FALSE ELSE dirty) /\ tab # "list"
      BY <1>2 DEF Save
    <2>2. Kept /\ \A d \in Call : call[d].op # "save"
      BY <2>1, <1>0, <1>a DEF Free
    <2>3. keep \subseteq rows /\ (tab = "list" => keep = {}) /\ (tab = "rules" /\ ~dirty => keep \subseteq stored)
      BY <2>2 DEF Kept
    <2> QED BY <1>0, <2>1, <2>3, KeptBegun
  <1>3. ASSUME NEW c \in Call, Revert(c) PROVE Kept'
    <2>1. Begin(c, "load", {}) /\ keep' = {}
      BY <1>3 DEF Revert
    <2> QED BY <1>0, <2>1, KeptBegun
  <1>4. ASSUME NEW c \in Call, Test(c) PROVE Kept'
    <2>1. Begin(c, "test", {}) /\ UNCHANGED <<tab, rows, dirty, stored, made, keep>> /\ ~dirty /\ call[c] = Free
      BY <1>4 DEF Test
    <2>2. Kept /\ \A d \in Call : call[d].op # "save"
      BY <2>1, <1>0, <1>a DEF Free
    <2>3. keep \subseteq stored /\ keep \subseteq rows /\ (tab = "list" => keep = {})
      BY <2>1, <2>2 DEF Kept
    <2> QED BY <1>0, <2>1, <2>3, KeptBegun
  <1>5. ASSUME NEW c \in Call, Mute(c) PROVE Kept'
    <2>1. Begin(c, "mute", {made + 1}) /\ UNCHANGED <<tab, rows, dirty, stored, keep>> /\ tab = "list"
      BY <1>5 DEF Mute
    <2>2. keep = {}
      BY <2>1, <1>0, <1>a DEF Kept
    <2> QED BY <1>0, <2>1, <2>2, KeptBegun
  <1>6. ASSUME NEW c \in Call, Serve(c) PROVE Kept'
    <2>1. Kept /\ UNCHANGED <<tab, rows, dirty, made, keep, overlapped>> /\ call[c] # Free
      BY <1>6 DEF Serve
    <2>2. stored' = IF call[c].op = "save" THEN call[c].sent
                    ELSE IF call[c].op = "mute" THEN stored \cup call[c].sent ELSE stored
      BY <1>6 DEF Serve
    <2>3. call[c].sent \in SUBSET Nat
      BY <2>1, CallFields DEF CallRec
    <2>4. stored' \in SUBSET Nat
      BY <2>2, <2>3 DEF EditType
    <2>5. /\ call'[c].op = call[c].op /\ call'[c].sent = call[c].sent /\ call'[c].got = stored'
          /\ \A d \in Call \ {c} : call'[d] = call[d]
      <3>1. call' = [call EXCEPT ![c].served = TRUE, ![c].ok = TRUE, ![c].got = stored']
        BY <1>6 DEF Serve
      <3> QED BY <2>1, <2>4, <3>1, Answered
    <2>6. \A d \in Call \ {c} : call[d] = Free /\ call'[d] = Free /\ call[d].op = "none" /\ call'[d].op = "none"
      BY <2>1, <2>5 DEF Kept, Free
    <2>7. CASE call[c].op = "save"
      <3>1. stored' = call[c].sent /\ (~dirty \/ tab = "rules" => keep \subseteq call[c].sent)
        BY <2>1, <2>2, <2>7 DEF Kept
      <3> QED BY <2>1, <2>5, <2>6, <2>7, <3>1 DEF Kept
    <2>8. CASE call[c].op # "save"
      <3>1. stored \subseteq stored'
        BY <2>2, <2>8
      <3> QED BY <2>1, <2>5, <2>6, <2>8, <3>1 DEF Kept
    <2> QED BY <2>7, <2>8
  <1>7. ASSUME NEW c \in Call, Fail(c) PROVE Kept'
    <2>1. Kept /\ UNCHANGED <<tab, rows, dirty, stored, made, keep, overlapped>> /\ call[c] # Free
      BY <1>7 DEF Fail
    <2>2. /\ call'[c].op = call[c].op /\ call'[c].sent = call[c].sent /\ call'[c].ok = FALSE
          /\ \A d \in Call \ {c} : call'[d] = call[d]
      BY <1>7, <1>0, Answered DEF Fail
    <2>3. \A d \in Call \ {c} : call[d] = Free /\ call'[d] = Free /\ call[d].op = "none" /\ call'[d].op = "none"
      BY <2>1, <2>2 DEF Kept, Free
    <2> QED BY <2>1, <2>2, <2>3 DEF Kept
  <1>8. ASSUME NEW c \in Call, LoadAnswered(c) PROVE Kept'
    <2>1. Over(c) /\ UNCHANGED <<tab, stored, made, keep, overlapped>> /\ Ended(c) /\ call[c].op = "load"
      BY <1>8 DEF LoadAnswered, Over
    <2>2. Kept /\ call[c] # Free /\ call[c].served
      BY <2>1 DEF Ended
    <2>3. keep \subseteq stored /\ keep \subseteq rows /\ (tab = "list" => keep = {})
          /\ (call[c].ok => keep \subseteq call[c].got)
      BY <2>1, <2>2 DEF Kept
    <2>4. rows' = rows \/ (call[c].ok /\ rows' = call[c].got)
      BY <1>8 DEF LoadAnswered, Drawn
    <2> QED BY <2>1, <2>2, <2>3, <2>4, KeptEnds
  <1>9. ASSUME NEW c \in Call, SaveAnswered(c) PROVE Kept'
    <2>1. UNCHANGED <<tab, rows, stored, made, keep>> /\ Ended(c) /\ call[c].op = "save"
      BY <1>9 DEF SaveAnswered
    <2>2. call[c] # Free /\ call[c].served
      BY <2>1 DEF Ended
    <2>3. CASE ~call[c].ok
      <3>1. dirty' = (dirty \/ tab = "channels") /\ Over(c)
        BY <1>9, <2>3 DEF SaveAnswered
      <3>2. Kept
        BY <3>1 DEF Over
      <3>3. keep \subseteq rows /\ (tab = "list" => keep = {})
        BY <3>2 DEF Kept
      <3>4. ~dirty' => keep \subseteq stored
        BY <3>1, <3>2 DEF Kept, EditType, Tab
      <3> QED BY <2>1, <2>2, <3>1, <3>2, <3>3, <3>4, KeptEnds
    <2>4. CASE call[c].ok
      <3>1. /\ dirty' = IF tab = "rules" THEN FALSE ELSE dirty
            /\ Begin(c, IF dirty' THEN "status" ELSE "load", {})
        BY <1>9, <2>4 DEF SaveAnswered
      <3>2. Kept
        BY <3>1, <1>0, <1>a
      <3>3. keep \subseteq rows /\ (tab = "list" => keep = {}) /\ stored = call[c].sent
            /\ (~dirty \/ tab = "rules" => keep \subseteq stored)
        BY <2>1, <2>2, <2>4, <3>2 DEF Kept
      <3>4. CASE dirty'
        <4>1. Begin(c, "status", {})
          BY <3>1, <3>4
        <4> QED BY <1>0, <2>1, <3>3, <3>4, <4>1, KeptBegun
      <3>5. CASE ~dirty'
        <4>1. Begin(c, "load", {}) /\ keep \subseteq stored
          BY <3>1, <3>3, <3>5
        <4> QED BY <1>0, <2>1, <3>3, <4>1, KeptBegun
      <3> QED BY <3>4, <3>5
    <2> QED BY <2>3, <2>4
  <1>10. ASSUME NEW c \in Call, TestAnswered(c) PROVE Kept'
    <2>1. Begin(c, "status", {}) /\ UNCHANGED <<tab, rows, dirty, stored, made, keep>> /\ call[c].op = "test"
      BY <1>10 DEF TestAnswered
    <2>2. Kept /\ \A d \in Call : call[d].op # "save"
      BY <2>1, <1>0, <1>a DEF Free
    <2>3. keep \subseteq rows /\ (tab = "list" => keep = {}) /\ (~dirty => keep \subseteq stored)
      BY <2>2 DEF Kept
    <2> QED BY <1>0, <2>1, <2>3, KeptBegun
  <1>11. ASSUME NEW c \in Call, StatusAnswered(c) PROVE Kept'
    <2>1. UNCHANGED <<tab, rows, dirty, stored, made, keep>> /\ Ended(c) /\ call[c].op = "status"
      BY <1>11 DEF StatusAnswered
    <2>2. CASE dirty
      <3>1. Over(c) /\ call[c] # Free
        BY <1>11, <2>2 DEF StatusAnswered, Ended
      <3>2. Kept
        BY <3>1 DEF Over
      <3>3. keep \subseteq rows /\ (tab = "list" => keep = {})
        BY <3>2 DEF Kept
      <3> QED BY <2>1, <2>2, <3>1, <3>2, <3>3, KeptEnds
    <2>3. CASE ~dirty
      <3>1. Begin(c, "load", {})
        BY <1>11, <2>3 DEF StatusAnswered
      <3>2. Kept /\ \A d \in Call : call[d].op # "save"
        BY <2>1, <3>1, <1>0, <1>a DEF Free
      <3>3. keep \subseteq rows /\ (tab = "list" => keep = {}) /\ keep \subseteq stored
        BY <2>3, <3>2 DEF Kept
      <3> QED BY <1>0, <2>1, <3>1, <3>3, KeptBegun
    <2> QED BY <2>2, <2>3
  <1>12. ASSUME NEW c \in Call, MuteAnswered(c) PROVE Kept'
    <2>1. Begin(c, "load", {}) /\ UNCHANGED <<tab, rows, dirty, stored, made, keep>> /\ call[c].op = "mute"
      BY <1>12 DEF MuteAnswered
    <2>2. tab = "list" /\ keep = {}
      BY <2>1, <1>0, <1>a DEF Kept
    <2> QED BY <1>0, <2>1, <2>2, KeptBegun
  <1>13. CASE Edit
    <2>1. Kept /\ UNCHANGED <<tab, call, stored, overlapped>> /\ dirty' = TRUE /\ rows' = rows \cup {made'}
          /\ tab # "list"
      BY <1>13 DEF Edit
    <2>2. CASE keep' = keep
      BY <2>1, <2>2 DEF Kept
    <2>3. CASE keep' # keep
      <3>1. keep' = keep \cup {made'} /\ \A c \in Call : call[c] # Free => tab = "channels" /\ call[c].op = "save"
        BY <1>13, <2>3 DEF Edit, Running
      <3>2. \A c \in Call : call[c].op = "load" => FALSE
        BY <3>1 DEF Free
      <3>3. \A c \in Call : call[c].op = "save" => tab # "rules"
        BY <3>1 DEF Free
      <3> QED BY <2>1, <3>1, <3>2, <3>3 DEF Kept
    <2> QED BY <2>2, <2>3
  <1>14. CASE HubMoves
    <2>1. Kept /\ UNCHANGED <<tab, rows, dirty, call, keep, overlapped>> /\ tab = "list"
      BY <1>14 DEF HubMoves
    <2>2. stored' = stored \cup {made'} /\ keep = {} /\ \A c \in Call : call[c].op # "save"
      BY <1>14, <2>1 DEF HubMoves, Kept
    <2> QED BY <2>1, <2>2 DEF Kept
  <1> QED BY <1>1, <1>2, <1>3, <1>4, <1>5, <1>6, <1>7, <1>8, <1>9, <1>10, <1>11, <1>12, <1>13, <1>14
          DEF EditNext

(* The list, in whatever order calls are served: what it shows and what    *)
(* any load brings is in the hub, only one load is the newest, and once    *)
(* that one was served it has all the list shows.                          *)
Newest(c) == call[c].op = "load" /\ call[c].newest
Brings(c) == call[c].op = "load" /\ call[c].served /\ call[c].ok

ListInv ==
    tab = "list" =>
        /\ \A c \in Call : call[c].op \in {"none", "load", "mute"}
        /\ rows \subseteq stored
        /\ \A c, d \in Call : Newest(c) /\ Newest(d) => c = d
        /\ \A c \in Call : Brings(c) => call[c].got \subseteq stored
        /\ \A c \in Call : Brings(c) /\ Newest(c) => rows \subseteq call[c].got

(* A load or a mute starts: it has brought nothing yet, and a load is the  *)
(* newest.                                                                 *)
LEMMA ListBegun ==
    ASSUME EditType, ListInv, NEW c \in Call, NEW what \in {"load", "mute"},
           NEW sent \in SUBSET Nat, Begin(c, what, sent), UNCHANGED <<tab, rows, stored>>,
           tab = "list"
    PROVE  ListInv'
  <1>1. call'[c].op = what /\ call'[c].served = FALSE
    BY DEF Begin, Asked
  <1>2. ASSUME NEW d \in Call \ {c}
        PROVE  /\ call'[d].op = call[d].op
               /\ Brings(d)' => Brings(d) /\ call'[d].got = call[d].got
               /\ Newest(d)' => Newest(d) /\ what # "load"
    <2>1. call'[d] = IF what = "load" /\ call[d] # Free THEN [call[d] EXCEPT !.newest = FALSE] ELSE call[d]
      BY DEF Begin
    <2>2. CASE call[d] = Free
      BY <2>1, <2>2 DEF Free, Brings, Newest
    <2>3. CASE call[d] # Free
      <3>1. call[d] \in CallRec
        BY <2>3, CallFields
      <3>2. /\ call'[d].op = call[d].op /\ call'[d].served = call[d].served
            /\ call'[d].ok = call[d].ok /\ call'[d].got = call[d].got
            /\ what = "load" => call'[d].newest = FALSE
            /\ what # "load" => call'[d].newest = call[d].newest
        BY <2>1, <2>3, <3>1 DEF CallRec
      <3> QED BY <3>2 DEF Brings, Newest
    <2> QED BY <2>2, <2>3
  <1>3. \A d \in Call : call'[d].op \in {"none", "load", "mute"}
    BY <1>1, <1>2 DEF ListInv
  <1>4. \A d, e \in Call : Newest(d)' /\ Newest(e)' => d = e
    <2>1. what = "mute" => ~Newest(c)'
      BY <1>1 DEF Newest
    <2> QED BY <1>2, <2>1 DEF ListInv
  <1>5. ~Brings(c)'
    BY <1>1 DEF Brings
  <1>6. \A d \in Call : Brings(d)' => call'[d].got \subseteq stored
    BY <1>2, <1>5 DEF ListInv
  <1>7. \A d \in Call : Brings(d)' /\ Newest(d)' => rows \subseteq call'[d].got
    BY <1>2, <1>5 DEF ListInv
  <1> QED BY <1>3, <1>4, <1>6, <1>7 DEF ListInv

(* A call is served, or is known to have failed.                           *)
LEMMA ListServed ==
    ASSUME EditType, ListInv, NEW c \in Call, call[c] # Free, NEW good \in BOOLEAN,
           NEW data \in SUBSET Nat,
           call' = [call EXCEPT ![c].served = TRUE, ![c].ok = good, ![c].got = data],
           good => data = stored', stored \subseteq stored',
           UNCHANGED <<tab, rows>>, tab = "list"
    PROVE  ListInv'
  <1>1. /\ call'[c].op = call[c].op /\ call'[c].newest = call[c].newest
        /\ call'[c].ok = good /\ call'[c].got = data
        /\ \A d \in Call \ {c} : call'[d] = call[d]
    BY Answered
  <1>2. \A d \in Call : call'[d].op = call[d].op /\ (Newest(d)' <=> Newest(d))
    BY <1>1 DEF Newest
  <1>3. \A d \in Call \ {c} : (Brings(d)' <=> Brings(d)) /\ call'[d].got = call[d].got
    BY <1>1 DEF Brings
  <1>4. Brings(c)' => call'[c].got = stored'
    BY <1>1 DEF Brings
  <1> QED BY <1>2, <1>3, <1>4 DEF ListInv

(* Every step of the alerts window keeps the list's invariant.             *)
LEMMA ListInvNext ==
    ASSUME EditType, ListInv, EditNext
    PROVE  ListInv'
  <1> SUFFICES ASSUME tab' = "list" PROVE ListInv'
    BY DEF ListInv
  <1>0. tab = "list" /\ {} \in SUBSET Nat /\ {made + 1} \in SUBSET Nat
    <2>1. {} \in SUBSET Nat /\ {made + 1} \in SUBSET Nat
      BY DEF EditType
    <2> QED
      BY <2>1, Zenon DEF EditNext, OpenTab, Save, Revert, Test, Mute, Serve, Fail, LoadAnswered,
             SaveAnswered, TestAnswered, StatusAnswered, MuteAnswered, Edit, HubMoves
  <1>1. ASSUME NEW c \in Call, OpenTab(c) PROVE ListInv'
    BY <1>0, <1>1, ListBegun DEF OpenTab
  <1>2. ASSUME NEW c \in Call, Save(c) \/ Revert(c) \/ Test(c) PROVE ListInv'
    BY <1>0, <1>2 DEF Save, Revert, Test
  <1>3. ASSUME NEW c \in Call, Mute(c) PROVE ListInv'
    BY <1>0, <1>3, ListBegun DEF Mute
  <1>4. ASSUME NEW c \in Call, Serve(c) PROVE ListInv'
    <2>1. call[c] # Free /\ call[c] \in CallRec /\ call[c].op # "save"
      BY <1>0, <1>4, CallFields DEF Serve, ListInv
    <2>2. stored' = stored \/ stored' = stored \cup call[c].sent
      BY <1>4, <2>1 DEF Serve
    <2>3. stored' \in SUBSET Nat
      BY <2>1, <2>2 DEF CallRec, EditType
    <2>4. call' = [call EXCEPT ![c].served = TRUE, ![c].ok = TRUE, ![c].got = stored'] /\ UNCHANGED <<tab, rows>>
      BY <1>4 DEF Serve
    <2>5. stored \subseteq stored'
      BY <2>2
    <2> QED BY <1>0, <2>1, <2>3, <2>4, <2>5, ListServed
  <1>5. ASSUME NEW c \in Call, Fail(c) PROVE ListInv'
    <2>1. call' = [call EXCEPT ![c].served = TRUE, ![c].ok = FALSE, ![c].got = {}]
          /\ UNCHANGED <<tab, rows, stored>> /\ call[c] # Free
      BY <1>5 DEF Fail
    <2> QED BY <1>0, <2>1, ListServed
  <1>6. ASSUME NEW c \in Call, LoadAnswered(c) PROVE ListInv'
    <2>1. /\ Over(c) /\ stored' = stored /\ tab' = tab /\ call[c].op = "load" /\ call[c].served
          /\ rows' = rows \/ (call[c].ok /\ call[c].newest /\ rows' = call[c].got)
      BY <1>0, <1>6 DEF LoadAnswered, Ended, Drawn
    <2>2. call'[c] = Free /\ \A d \in Call \ {c} : call'[d] = call[d]
      BY <2>1, Ends
    <2>3. call'[c].op = "none"
      BY <2>2 DEF Free
    <2>4. ~Newest(c)' /\ ~Brings(c)'
      BY <2>3 DEF Newest, Brings
    <2>5. \A d \in Call \ {c} : (Newest(d)' <=> Newest(d)) /\ (Brings(d)' <=> Brings(d)) /\ call'[d].got = call[d].got
      BY <2>2 DEF Newest, Brings
    <2>6. CASE rows' = rows
      BY <1>0, <2>1, <2>2, <2>3, <2>4, <2>5, <2>6 DEF ListInv
    <2>7. CASE call[c].ok /\ call[c].newest /\ rows' = call[c].got
      <3>1. Newest(c) /\ Brings(c)
        BY <2>1, <2>7 DEF Newest, Brings
      <3>2. rows' \subseteq stored /\ \A d \in Call : ~Newest(d)'
        BY <1>0, <2>4, <2>5, <2>7, <3>1 DEF ListInv
      <3> QED BY <1>0, <2>1, <2>2, <2>3, <2>4, <2>5, <3>2 DEF ListInv
    <2> QED BY <2>1, <2>6, <2>7
  <1>7. ASSUME NEW c \in Call, SaveAnswered(c) \/ TestAnswered(c) \/ StatusAnswered(c) PROVE ListInv'
    BY <1>0, <1>7 DEF SaveAnswered, TestAnswered, StatusAnswered, ListInv
  <1>8. ASSUME NEW c \in Call, MuteAnswered(c) PROVE ListInv'
    BY <1>0, <1>8, ListBegun DEF MuteAnswered
  <1>9. CASE Edit
    BY <1>0, <1>9 DEF Edit
  <1>10. CASE HubMoves
    <2>1. UNCHANGED <<tab, rows, call>> /\ stored \subseteq stored'
      BY <1>10 DEF HubMoves
    <2> QED BY <2>1 DEF ListInv, Newest, Brings
  <1> QED BY <1>1, <1>2, <1>3, <1>4, <1>5, <1>6, <1>7, <1>8, <1>9, <1>10 DEF EditNext

-----------------------------------------------------------------------------
EditInv == EditType /\ (~overlapped => Kept) /\ ListInv

(* The inductive invariant of the alerts window.                           *)
LEMMA EditInvariant == Spec => []EditInv
  <1>1. Init => EditInv
    <2> SUFFICES ASSUME Init PROVE EditInv
      OBVIOUS
    <2>1. EditType
      BY DEF Init, EditInit, EditType
    <2>2. /\ rows = {} /\ keep = {} /\ stored = {}
          /\ \A c \in Call : call[c] = Free /\ call[c].op = "none"
      BY DEF Init, EditInit, Free
    <2>3. Kept
      BY <2>2 DEF Kept
    <2>4. ListInv
      BY <2>2 DEF ListInv, Newest, Brings
    <2> QED BY <2>1, <2>3, <2>4 DEF EditInv
  <1>2. EditInv /\ [Next]_vars => EditInv'
    <2> SUFFICES ASSUME EditInv, [Next]_vars PROVE EditInv'
      OBVIOUS
    <2>1. CASE EditNext
      BY <2>1, EditTypeNext, KeptNext, ListInvNext DEF EditInv
    <2>2. CASE UNCHANGED editVars
      BY <2>2 DEF EditInv, EditType, Kept, ListInv, Newest, Brings, editVars
    <2> QED BY <2>1, <2>2 DEF Next, vars
  <1> QED BY <1>1, <1>2, PTL DEF Spec

(* An edit stays in the editor until the hub has it or the person takes it *)
(* back, also one made while the channels are saved and one whose save     *)
(* failed, as long as no two calls overlapped (alerts.js:396).             *)
THEOREM EditsAreKept == Spec => []EditsKept
  <1>1. EditInv => EditsKept
    BY DEF EditInv, Kept, EditsKept
  <1> QED BY <1>1, EditInvariant, PTL

(* The list never goes back to what it showed before a newer answer, with  *)
(* any number of calls under way, in any order (alertsSeq, alerts.js:83).  *)
THEOREM ListOnlyGrows == Spec => ListNeverGoesBack
  <1>1. EditInv /\ [Next]_vars => [tab = "list" => rows \subseteq rows']_editVars
    <2> SUFFICES ASSUME EditInv, EditNext, tab = "list" PROVE rows \subseteq rows'
      BY DEF Next, vars, editVars
    <2>1. ASSUME NEW c \in Call, LoadAnswered(c) PROVE rows \subseteq rows'
      <3>1. CASE Drawn(c)
        <4>1. Brings(c) /\ Newest(c) /\ rows' = call[c].got
          BY <2>1, <3>1 DEF LoadAnswered, Ended, Drawn, Brings, Newest
        <4> QED BY <4>1 DEF EditInv, ListInv
      <3>2. CASE ~Drawn(c)
        BY <2>1, <3>2 DEF LoadAnswered
      <3> QED BY <3>1, <3>2
    <2> QED BY <2>1 DEF EditNext, OpenTab, Save, Revert, Test, Mute, Serve, Fail,
                        SaveAnswered, TestAnswered, StatusAnswered, MuteAnswered, Edit, HubMoves
  <1> QED BY <1>1, EditInvariant, PTL DEF Spec, ListNeverGoesBack

-----------------------------------------------------------------------------
(* The view of a node.                                                     *)

LoadRec == [at : {"list", "points"}, node : Node, newest : BOOLEAN]

ViewType ==
    /\ known \in BOOLEAN /\ current \in Node \cup {None} /\ asked \in BOOLEAN /\ unlisted \in BOOLEAN
    /\ hist \in [node : Node \cup {None}, recent : BOOLEAN]
    /\ load \in [HistLoad -> {NoLoad} \cup LoadRec]

(* A load that can still draw: none started after it.                      *)
Latest(l) == load[l] # NoLoad /\ load[l].newest

(* Only one load is the latest.  Unless a list of series failed, a chart   *)
(* is of the node histState names; the latest load brings points of that   *)
(* node, or still lists, and then a chart of another node is gone already. *)
ChartInv ==
    /\ current # None => known
    /\ asked => Shown # None
    /\ \A l, m \in HistLoad : Latest(l) /\ Latest(m) => l = m
    /\ ~unlisted =>
         /\ chart \in {None, hist.node}
         /\ asked => chart \in {None, Shown}
         /\ \A l \in HistLoad : Latest(l) =>
              /\ load[l].at = "points" => load[l].node = hist.node
              /\ load[l].at = "list" => load[l].node = hist.node \/ chart = None

(* A load that is under way is a whole record.                             *)
LEMMA LoadFields ==
    ASSUME ViewType, NEW l \in HistLoad
    PROVE  /\ load[l] # NoLoad => load[l] \in LoadRec
           /\ load[l].at \in {"list", "points"} => load[l] # NoLoad
           /\ load[l] \in LoadRec => load[l] # NoLoad
  BY DEF ViewType, NoLoad, LoadRec

(* A route keeps what was asked only where it stays on the same node; the  *)
(* page forgets no list of nodes.                                          *)
LEMMA RouteStep ==
    ASSUME ViewType, ChartInv, NEW h, NEW k \in BOOLEAN, Route(h, k), k => known', known => known',
           known' \in BOOLEAN, UNCHANGED <<hist, load, chart, unlisted>>
    PROVE  ViewType' /\ ChartInv'
  <1>1. current' \in Node \cup {None} /\ (current' # None => known')
    BY DEF Route, RouteFor
  <1>2. asked' = FALSE \/ (asked' = asked /\ current' = current)
    BY DEF Route
  <1>3. ViewType'
    BY <1>1, <1>2 DEF ViewType
  <1>4. asked' => asked /\ current' = current /\ Shown' = Shown
    <2> SUFFICES ASSUME asked' PROVE asked /\ current' = current /\ Shown' = Shown
      OBVIOUS
    <2>1. asked /\ current' = current
      BY <1>2
    <2>2. known
      BY <2>1, NodesAssumption DEF ChartInv, Shown
    <2> QED BY <2>1, <2>2 DEF Shown
  <1>5. ChartInv'
    BY <1>1, <1>4 DEF ChartInv, Latest
  <1> QED BY <1>3, <1>5

(* A step of the page that is not about the history.                       *)
LEMMA NotHistory ==
    ASSUME ViewType, ChartInv, UNCHANGED <<known, current, hist, load, chart, asked, unlisted>>
    PROVE  ViewType' /\ ChartInv'
  BY DEF ViewType, ChartInv, Latest, Shown

(* A load of the history starts.                                           *)
LEMMA LoadStarts ==
    ASSUME ViewType, ChartInv, NEW l \in HistLoad, NEW force \in BOOLEAN, LoadHistory(l, force)
    PROVE  ViewType' /\ ChartInv'
  <1>1. /\ Shown # None /\ asked' = TRUE /\ UNCHANGED <<known, current, unlisted>>
        /\ hist' = [hist EXCEPT !.recent = TRUE]
        /\ chart' = IF Shown # hist.node THEN None ELSE chart
    BY DEF LoadHistory, pageVars
  <1>2. Shown \in Node /\ Shown' = Shown
    BY <1>1, NodesAssumption DEF ViewType, Shown
  <1>3. load'[l] = [at |-> "list", node |-> Shown, newest |-> TRUE] /\ load'[l] \in LoadRec
    BY <1>2 DEF LoadHistory, LoadRec
  <1>4. ASSUME NEW m \in HistLoad, m # l
        PROVE  load'[m] \in {NoLoad} \cup LoadRec /\ ~Latest(m)'
    <2>1. load'[m] = IF load[m] # NoLoad THEN [load[m] EXCEPT !.newest = FALSE] ELSE NoLoad
      BY <1>4 DEF LoadHistory
    <2>2. CASE load[m] = NoLoad
      BY <2>1, <2>2 DEF Latest
    <2>3. CASE load[m] # NoLoad
      <3>1. load[m] \in LoadRec
        BY <2>3, LoadFields
      <3>2. load'[m] \in LoadRec /\ load'[m].newest = FALSE
        BY <2>1, <2>3, <3>1 DEF LoadRec
      <3> QED BY <3>2 DEF Latest
    <2> QED BY <2>2, <2>3
  <1>5. ViewType'
    <2>1. load' = [m \in HistLoad |-> load'[m]]
      BY DEF LoadHistory
    <2>2. load' \in [HistLoad -> {NoLoad} \cup LoadRec]
      BY <1>3, <1>4, <2>1
    <2> QED BY <1>1, <2>2 DEF ViewType
  <1>6. hist'.node = hist.node
    BY <1>1 DEF ViewType
  <1>7. ChartInv'
    BY <1>1, <1>2, <1>3, <1>4, <1>6 DEF ChartInv
  <1> QED BY <1>5, <1>7

(* The list of series comes, or does not.                                  *)
LEMMA ListedStep ==
    ASSUME ViewType, ChartInv, NEW l \in HistLoad, NEW ok \in BOOLEAN, Listed(l, ok)
    PROVE  ViewType' /\ ChartInv'
  <1>1. UNCHANGED <<known, current, chart, asked>> /\ load[l].at = "list" /\ Shown' = Shown
    BY DEF Listed, pageVars, Shown
  <1>2. load[l] \in LoadRec
    BY <1>1, LoadFields DEF ViewType
  <1>3. CASE Stale(l)
    <2>1. load' = [load EXCEPT ![l] = NoLoad] /\ UNCHANGED <<hist, unlisted>>
      BY <1>3 DEF Listed
    <2>2. ViewType'
      BY <1>1, <2>1 DEF ViewType
    <2>3. \A m \in HistLoad : Latest(m)' => Latest(m) /\ load'[m] = load[m]
      BY <2>1 DEF Latest, ViewType
    <2> QED BY <1>1, <2>1, <2>2, <2>3 DEF ChartInv
  <1>4. CASE ~Stale(l)
    <2> DEFINE r == [load[l] EXCEPT !.at = "points"]
    <2>1. /\ load' = [load EXCEPT ![l] = r] /\ unlisted' = (unlisted \/ (~ok /\ hist.node # Shown))
          /\ hist' = IF ok THEN [hist EXCEPT !.node = Shown] ELSE hist
      BY <1>4 DEF Listed, ViewType
    <2>2. load[l].newest /\ load[l].node = Shown /\ Latest(l)
      BY <1>2, <1>4, LoadFields DEF Stale, Latest
    <2>3. r \in LoadRec /\ r.at = "points" /\ r.node = load[l].node /\ r.newest = load[l].newest
      BY <1>2 DEF LoadRec
    <2> HIDE DEF r
    <2>4. Shown \in Node
      BY <1>2, <2>2 DEF LoadRec
    <2>5. ViewType'
      BY <1>1, <2>1, <2>3, <2>4 DEF ViewType
    <2>6. load'[l] = r /\ \A m \in HistLoad \ {l} : load'[m] = load[m]
      BY <2>1 DEF ViewType
    <2>7. \A m \in HistLoad : Latest(m)' => m = l
      BY <2>2, <2>6 DEF ChartInv, Latest
    <2>8. ~unlisted' => ~unlisted /\ hist'.node = Shown
      BY <2>1 DEF ViewType
    <2>9. ~unlisted' => chart \in {None, Shown}
      BY <1>1, <2>2, <2>8 DEF ChartInv
    <2> QED BY <1>1, <2>2, <2>3, <2>5, <2>6, <2>7, <2>8, <2>9 DEF ChartInv
  <1> QED BY <1>3, <1>4

(* The points come.                                                        *)
LEMMA PointsStep ==
    ASSUME ViewType, ChartInv, NEW l \in HistLoad, Points(l)
    PROVE  ViewType' /\ ChartInv'
  <1>1. /\ UNCHANGED <<known, current, hist, asked, unlisted>> /\ load[l].at = "points" /\ Shown' = Shown
        /\ load' = [load EXCEPT ![l] = NoLoad]
        /\ chart' = IF Stale(l) THEN chart ELSE load[l].node
    BY DEF Points, pageVars, Shown
  <1>2. load[l] # NoLoad
    BY <1>1, LoadFields
  <1>3. ViewType'
    BY <1>1 DEF ViewType
  <1>4. \A m \in HistLoad : Latest(m)' => Latest(m) /\ load'[m] = load[m] /\ m # l
    BY <1>1 DEF Latest, ViewType
  <1>5. CASE Stale(l)
    BY <1>1, <1>3, <1>4, <1>5 DEF ChartInv
  <1>6. CASE ~Stale(l)
    <2>1. Latest(l) /\ load[l].node = Shown
      BY <1>2, <1>6 DEF Stale, Latest
    <2>2. \A m \in HistLoad : ~Latest(m)'
      BY <1>4, <2>1 DEF ChartInv
    <2>3. chart' = Shown /\ (~unlisted => Shown = hist.node)
      BY <1>1, <1>6, <2>1 DEF ChartInv
    <2> QED BY <1>1, <1>3, <2>2, <2>3 DEF ChartInv
  <1> QED BY <1>5, <1>6

(* Every step of the view keeps the invariant.                             *)
LEMMA ChartInvNext ==
    ASSUME ViewType, ChartInv, ViewNext
    PROVE  ViewType' /\ ChartInv'
  <1>1. ASSUME NEW nodesFirst \in BOOLEAN, RefreshNow(nodesFirst) \/ Waited(nodesFirst)
        PROVE  ViewType' /\ ChartInv'
    BY <1>1, NotHistory DEF RefreshNow, Waited, pageVars, histVars
  <1>2. ASSUME NEW h \in {None, "fleet"} \cup Node, NEW nodesFirst \in BOOLEAN, Open(h, nodesFirst)
        PROVE  ViewType' /\ ChartInv'
    <2>1. Route(h, known) /\ UNCHANGED <<known, hist, load, chart, unlisted>>
      BY <1>2 DEF Open
    <2>2. known \in BOOLEAN
      BY DEF ViewType
    <2> QED BY <2>1, <2>2, RouteStep
  <1>3. ASSUME NEW ok \in BOOLEAN, LoadNodes(ok) PROVE ViewType' /\ ChartInv'
    <2>1. known' = (known \/ ok) /\ UNCHANGED <<hist, load, chart, unlisted>> /\ known \in BOOLEAN
      BY <1>3 DEF LoadNodes, ViewType
    <2>2. known' \in BOOLEAN /\ (known => known') /\ (ok => known')
      BY <2>1
    <2>3. CASE ok /\ ~known /\ hash = None
      <3>1. Route(hash, TRUE)
        BY <1>3, <2>3 DEF LoadNodes
      <3> QED BY <2>1, <2>2, <2>3, <3>1, RouteStep
    <2>4. CASE ~(ok /\ ~known /\ hash = None)
      <3>1. UNCHANGED <<view, current, lastData, asked>>
        BY <1>3, <2>4 DEF LoadNodes
      <3>2. ViewType'
        BY <2>1, <2>2, <3>1 DEF ViewType
      <3>3. asked => Shown' = Shown
        BY <2>1, <3>1, NodesAssumption DEF ChartInv, Shown
      <3>4. current' # None => known'
        BY <2>2, <3>1 DEF ChartInv
      <3> QED BY <2>1, <3>1, <3>2, <3>3, <3>4 DEF ChartInv, Latest
    <2> QED BY <2>3, <2>4
  <1>4. ASSUME NEW ok \in BOOLEAN, Fetched(ok) PROVE ViewType' /\ ChartInv'
    BY <1>4, NotHistory DEF Fetched, pageVars
  <1>5. CASE Woken
    BY <1>5, NotHistory DEF Woken, pageVars, histVars
  <1>6. ASSUME NEW n \in Node, Publish(n) PROVE ViewType' /\ ChartInv'
    BY <1>6, NotHistory DEF Publish, pageVars, histVars
  <1>7. ASSUME NEW l \in HistLoad, ShowHistory(l) \/ ChooseSeries(l) PROVE ViewType' /\ ChartInv'
    <2>1. LoadHistory(l, FALSE) \/ LoadHistory(l, TRUE)
      BY <1>7 DEF ShowHistory, ChooseSeries
    <2> QED BY <2>1, LoadStarts
  <1>8. CASE ShowNothingNew
    <2>1. /\ UNCHANGED <<known, current, hist, load, chart, unlisted>> /\ Shown' = Shown
          /\ Shown = None \/ Shown = hist.node
          /\ asked' = (asked \/ Shown # None)
      BY <1>8 DEF ShowNothingNew, pageVars, Shown
    <2>2. ViewType'
      BY <2>1 DEF ViewType
    <2> QED BY <2>1, <2>2 DEF ChartInv, Latest
  <1>9. CASE MinutePasses
    <2>1. UNCHANGED <<known, current, load, chart, asked, unlisted>> /\ hist' = [hist EXCEPT !.recent = FALSE]
      BY <1>9 DEF MinutePasses, pageVars
    <2>2. hist'.node = hist.node /\ ViewType'
      BY <2>1 DEF ViewType
    <2>3. Shown' = Shown
      BY <2>1 DEF Shown
    <2> QED BY <2>1, <2>2, <2>3 DEF ChartInv, Latest
  <1> QED BY <1>1, <1>2, <1>3, <1>4, <1>5, <1>6, <1>7, <1>8, <1>9, ListedStep, PointsStep DEF ViewNext

(* Once the history of an opened node was asked for, its chart is that     *)
(* node's or empty, with any number of loads under way and whichever       *)
(* answers come late, unless a list of series failed (history.js:107-110). *)
THEOREM ChartIsAlwaysOwn == Spec => []ChartIsOwn
  <1>1. Init => ViewType /\ ChartInv
    <2> SUFFICES ASSUME Init PROVE ViewType /\ ChartInv
      OBVIOUS
    <2>1. current = RouteFor(hash, known).node /\ known \in BOOLEAN
      BY DEF Init, ViewInit
    <2>2. current \in Node \cup {None} /\ (current # None => known)
      BY <2>1 DEF RouteFor
    <2>3. /\ hist = [node |-> None, recent |-> FALSE] /\ load = [l \in HistLoad |-> NoLoad]
          /\ chart = None /\ asked = FALSE /\ unlisted = FALSE
      BY DEF Init, ViewInit
    <2>4. ViewType
      BY <2>1, <2>2, <2>3 DEF ViewType
    <2> QED BY <2>2, <2>3, <2>4 DEF ChartInv, Latest
  <1>2. (ViewType /\ ChartInv) /\ [Next]_vars => (ViewType /\ ChartInv)'
    <2> SUFFICES ASSUME ViewType, ChartInv, [Next]_vars PROVE ViewType' /\ ChartInv'
      OBVIOUS
    <2>1. CASE UNCHANGED viewVars
      BY <2>1, NotHistory DEF viewVars
    <2> QED BY <2>1, ChartInvNext DEF Next, vars
  <1>3. ChartInv => ChartIsOwn
    BY DEF ChartInv, ChartIsOwn
  <1> QED BY <1>1, <1>2, <1>3, PTL DEF Spec
=============================================================================
