----------------------------- MODULE AuthProofs -----------------------------
(***************************************************************************)
(* Theorems about login, sessions and bans, for any number of clients and  *)
(* of requests at once, and any limit of wrong passwords.                  *)
(***************************************************************************)
EXTENDS Console, FiniteSetTheorems, TLAPS

-----------------------------------------------------------------------------
(* Types.  What a request carries follows from where it is.                *)

Peer == Addr \cup {NoAddr}

AuthReq ==
    {Idle}
    \cup [at : {"body"}, kind : Kind, ip : Peer, wl : BOOLEAN, pass : Int]
    \cup [at : {"check"}, kind : Kind, ip : Peer, wl : BOOLEAN, right : BOOLEAN, gen : Nat]
    \cup [at : {"slow"}, ip : Peer, wl : BOOLEAN]
    \cup [at : {"hash"}, gen : Nat]

AuthType ==
    /\ fails \in [Addr -> Nat] /\ tried \in [Addr -> Nat]
    /\ bans \subseteq Addr
    /\ login \in [pass : Nat, gen : Nat]
    /\ req \in [Slot -> AuthReq]
    /\ ctl \in Nat \cup {-1}
    /\ cookies \subseteq [gen : Nat, made : Nat]
    /\ changes \in Nat /\ crossed \in BOOLEAN
    /\ spared \subseteq Addr

(* The fields of a request, by where it is.                                *)
LEMMA ReqFields ==
    ASSUME NEW r \in AuthReq
    PROVE  /\ r.at \in {"idle", "body", "check", "slow", "hash"}
           /\ r.at = "body" => r.kind \in Kind /\ r.pass \in Int
           /\ r.at = "check" => r.kind \in Kind /\ r.right \in BOOLEAN /\ r.gen \in Nat
           /\ r.at \in {"body", "check", "slow"} => r.ip \in Peer /\ r.wl \in BOOLEAN
           /\ r.at = "hash" => r.gen \in Nat
           /\ r.at = "idle" => r = Idle
  BY DEF AuthReq, Idle

(* The requests the steps make are requests.                               *)
LEMMA ReqKinds ==
    ASSUME NEW r \in AuthReq, NEW l \in [pass : Nat, gen : Nat]
    PROVE  /\ Idle \in AuthReq /\ Idle.at = "idle"
           /\ r.at = "body" => Checking(r, l) \in AuthReq
           /\ r.at = "check" => Slowed(r) \in AuthReq /\ Hashing(r) \in AuthReq
  <1>1. r.at = "body" => Checking(r, l) \in AuthReq
    BY ReqFields DEF AuthReq, Checking
  <1>2. r.at = "check" => Slowed(r) \in AuthReq
    BY ReqFields DEF AuthReq, Slowed
  <1>3. r.at = "check" => Hashing(r) \in AuthReq
    BY ReqFields DEF AuthReq, Hashing
  <1> QED BY <1>1, <1>2, <1>3 DEF AuthReq, Idle

(* The address of a client and whether it is on the whitelist.             *)
LEMMA ArriveReq ==
    ASSUME NEW kind \in Kind, NEW peer \in Peer, NEW forwarded \in Peer, NEW pass \in Int
    PROVE  LET c == Client(peer, forwarded)
           IN  Waiting(kind, c.ip, Whitelisted(c), pass) \in AuthReq
  BY DEF AuthReq, Waiting, Client, Whitelisted, Peer

(* Counting a wrong password keeps the counters and bans well formed       *)
(* (recordFail, server.js).                                                *)
LEMMA RecordFailType ==
    ASSUME AuthType, NEW ip \in Peer, RecordFail(ip)
    PROVE  fails' \in [Addr -> Nat] /\ bans' \subseteq Addr
  BY DEF AuthType, RecordFail, Peer

(* Counting that breaks does too, and spares no more than its address      *)
(* besides those that lost a count or a ban (recordFail, server.js).       *)
LEMMA BreaksType ==
    ASSUME AuthType, NEW s \in Slot, CountBreaks(s)
    PROVE  /\ fails' \in [Addr -> Nat] /\ bans' \subseteq Addr
           /\ req[s].ip \in Addr
           /\ \E U \in SUBSET Addr : Spare(U)
  <1>1. req[s].ip \in Addr
    BY ReqFields DEF CountBreaks, AuthType, Peer
  <1>2. [fails EXCEPT ![req[s].ip] = @ + 1] \in [Addr -> Nat] /\ NoFails \in [Addr -> Nat]
    BY <1>1 DEF AuthType, NoFails
  <1>3. fails' \in [Addr -> Nat] /\ bans' \subseteq Addr
    BY <1>1, <1>2 DEF CountBreaks, AuthType
  <1>4. Spare({req[s].ip}) \/ Spare({})
    BY DEF CountBreaks
  <1> QED BY <1>1, <1>3, <1>4

(* Every step of the login part keeps the types.                           *)
LEMMA AuthTypeNext ==
    ASSUME AuthType, AuthNext
    PROVE  AuthType'
  <1> USE DEF AuthType
  <1>1. ASSUME NEW s \in Slot, NEW kind \in Kind, NEW peer \in Peer, NEW forwarded \in Peer,
               NEW pass \in {Wrong, login.pass}, Arrive(s, kind, peer, forwarded, pass)
        PROVE  AuthType'
    <2>1. pass \in Int
      BY DEF Wrong
    <2> QED BY <1>1, <2>1, ArriveReq DEF Arrive
  <1>2. ASSUME NEW s \in Slot, ReadBody(s) PROVE AuthType'
    BY <1>2, ReqKinds DEF ReadBody
  <1>3. ASSUME NEW s \in Slot, LoginOk(s) PROVE AuthType'
    <2>1. fails' \in [Addr -> Nat] /\ tried' \in [Addr -> Nat] /\ spared' \subseteq Addr
      BY <1>3 DEF LoginOk, ClearFails, StartOver
    <2>2. req' \in [Slot -> AuthReq]
      BY <1>3, ReqKinds DEF LoginOk, End
    <2>3. cookies' \subseteq [gen : Nat, made : Nat]
      BY <1>3 DEF LoginOk, Cookie
    <2>4. UNCHANGED <<bans, login, ctl, changes, crossed>>
      BY <1>3 DEF LoginOk
    <2> QED BY <2>1, <2>2, <2>3, <2>4
  <1>4. ASSUME NEW s \in Slot, CheckFails(s) PROVE AuthType'
    <2>1. tried' \in [Addr -> Nat]
      <3>1. req[s].ip \in Peer
        BY <1>4, ReqFields DEF CheckFails
      <3>2. tried' = tried \/ (req[s].ip # NoAddr /\ tried' = [tried EXCEPT ![req[s].ip] = @ + 1])
        BY <1>4, Zenon DEF CheckFails
      <3> QED BY <3>1, <3>2 DEF Peer
    <2>2. req' \in [Slot -> AuthReq]
      BY <1>4, ReqKinds DEF CheckFails
    <2> QED BY <1>4, <2>1, <2>2 DEF CheckFails
  <1>5. ASSUME NEW s \in Slot, Counted(s) PROVE AuthType'
    <2>1. fails' \in [Addr -> Nat] /\ bans' \subseteq Addr
      BY <1>5, RecordFailType, ReqFields DEF Counted
    <2> QED BY <1>5, <2>1, ReqKinds DEF Counted, End
  <1>6. ASSUME NEW s \in Slot, AccountOk(s) PROVE AuthType'
    BY <1>6, ReqKinds DEF AccountOk, Changing
  <1>7. ASSUME NEW s \in Slot, AccountSaved(s) PROVE AuthType'
    <2>1. req[s].gen \in Nat
      BY <1>7, ReqFields DEF AccountSaved
    <2>2. login' \in [pass : Nat, gen : Nat] /\ changes' \in Nat
      BY <1>7, <2>1 DEF AccountSaved
    <2> QED BY <1>7, <2>2, ReqKinds DEF AccountSaved, End, Cookie
  <1>8. ASSUME NEW s \in Slot, Dropped(s) PROVE AuthType'
    BY <1>8, ReqKinds DEF Dropped, End
  <1>9. ASSUME NEW k \in cookies, SessionEnds(k) PROVE AuthType'
    BY <1>9 DEF SessionEnds
  <1>10. ASSUME NEW ip \in Addr, BanEnds(ip) PROVE AuthType'
    BY <1>10 DEF BanEnds, Lift, StartOver
  <1>11. ASSUME NEW ip \in Addr, CtlWhitelist(ip) PROVE AuthType'
    BY <1>11 DEF CtlWhitelist, Lift, StartOver
  <1>12. CASE CtlPasswdReads
    BY <1>12 DEF CtlPasswdReads, Changing
  <1>13. CASE CtlPasswdWrites
    BY <1>13 DEF CtlPasswdWrites
  <1>14. ASSUME NEW s \in Slot, CountBreaks(s) PROVE AuthType'
    <2>1. /\ fails' \in [Addr -> Nat] /\ bans' \subseteq Addr
          /\ req[s].ip \in Addr
          /\ \E U \in SUBSET Addr : Spare(U)
      BY <1>14, BreaksType
    <2>2. req' \in [Slot -> AuthReq]
      BY <1>14, ReqKinds DEF CountBreaks, End
    <2>3. spared' \subseteq Addr
      BY <2>1 DEF Spare
    <2> QED BY <1>14, <2>1, <2>2, <2>3 DEF CountBreaks
  <1>15. ASSUME NEW s \in Slot, ClearBreaks(s) PROVE AuthType'
    <2>1. fails' \in [Addr -> Nat]
      BY <1>15 DEF ClearBreaks, NoFails
    <2>2. req' \in [Slot -> AuthReq]
      BY <1>15, ReqKinds DEF ClearBreaks, End
    <2>3. spared' \subseteq Addr
      BY <1>15 DEF ClearBreaks, Spare
    <2> QED BY <1>15, <2>1, <2>2, <2>3 DEF ClearBreaks
  <1>16. ASSUME NEW gone \in SUBSET bans, BansLost(gone) PROVE AuthType'
    BY <1>16 DEF BansLost, Spare
  <1>17. CASE HubStops
    <2>1. spared' \subseteq Addr
      BY <1>17 DEF HubStops, Spare
    <2> QED BY <1>17, <2>1 DEF HubStops, AuthReq
  <1> HIDE DEF AuthType
  <1> QED BY <1>1, <1>2, <1>3, <1>4, <1>5, <1>6, <1>7, <1>8, <1>9, <1>10, <1>11, <1>12, <1>13,
             <1>14, <1>15, <1>16, <1>17
          DEF AuthNext, Peer

-----------------------------------------------------------------------------
(* Sessions.                                                               *)

(* While no two changes of the login overlapped: one change at most is     *)
(* under way, it goes one generation above the login's, and a cookie of    *)
(* the login's generation was made after the last change.  No cookie is    *)
(* ahead of the login, so the next generation is one no cookie has yet.    *)
HashReq(s) == req[s].at = "hash"

OneChange ==
    /\ \A s \in Slot : HashReq(s) => req[s].gen = login.gen /\ ctl = -1
    /\ \A s, t \in Slot : HashReq(s) /\ HashReq(t) => s = t
    /\ ctl # -1 => ctl = login.gen + 1

CookiesBehind ==
    \A k \in cookies : k.gen <= login.gen /\ (k.gen = login.gen => k.made = changes)

SessionInv == ~crossed => OneChange /\ CookiesBehind

(* A step of a request that is no change of the login, before or after,    *)
(* and leaves login, cookies and changes alone.                            *)
LEMMA NoChangeStep ==
    ASSUME AuthType, SessionInv,
           NEW s \in Slot, NEW r \in AuthReq, r.at # "hash",
           req' = [req EXCEPT ![s] = r],
           UNCHANGED <<login, ctl, changes, crossed>>,
           \A k \in cookies' : k \in cookies \/ (k.gen = login.gen /\ k.made = changes)
    PROVE  SessionInv'
  <1> SUFFICES ASSUME ~crossed PROVE OneChange' /\ CookiesBehind'
    BY DEF SessionInv
  <1>1. \A t \in Slot : req'[t] = req[t] \/ req'[t].at # "hash"
    BY DEF AuthType
  <1>2. OneChange /\ CookiesBehind
    BY DEF SessionInv
  <1>3. OneChange'
    BY <1>1, <1>2 DEF OneChange, HashReq
  <1>4. CookiesBehind'
    BY <1>2 DEF CookiesBehind, AuthType
  <1> QED BY <1>3, <1>4

(* Every step of the login part keeps the sessions' invariant.             *)
LEMMA SessionNext ==
    ASSUME AuthType, SessionInv, AuthNext
    PROVE  SessionInv'
  <1>1. ASSUME NEW s \in Slot, NEW kind \in Kind, NEW peer \in Peer, NEW forwarded \in Peer,
               NEW pass \in {Wrong, login.pass}, Arrive(s, kind, peer, forwarded, pass)
        PROVE  SessionInv'
    <2> DEFINE c == Client(peer, forwarded)
               r == Waiting(kind, c.ip, Whitelisted(c), pass)
    <2>1. pass \in Int
      BY DEF Wrong, AuthType
    <2>2. r \in AuthReq /\ r.at # "hash"
      BY <2>1, ArriveReq DEF Waiting
    <2>3. req' = [req EXCEPT ![s] = r] /\ UNCHANGED <<login, ctl, changes, crossed, cookies>>
      BY <1>1 DEF Arrive
    <2> HIDE DEF r
    <2> QED BY <2>2, <2>3, NoChangeStep
  <1>2. ASSUME NEW s \in Slot, ReadBody(s) PROVE SessionInv'
    <2> DEFINE r == Checking(req[s], login)
    <2>1. r \in AuthReq /\ r.at # "hash"
      BY <1>2, ReqKinds DEF ReadBody, AuthType, Checking
    <2>2. req' = [req EXCEPT ![s] = r] /\ UNCHANGED <<login, ctl, changes, crossed, cookies>>
      BY <1>2 DEF ReadBody
    <2> HIDE DEF r
    <2> QED BY <2>1, <2>2, NoChangeStep
  <1>3. ASSUME NEW s \in Slot, LoginOk(s) PROVE SessionInv'
    <2>1. req' = [req EXCEPT ![s] = Idle] /\ UNCHANGED <<login, ctl, changes, crossed>>
      BY <1>3 DEF LoginOk, End
    <2>2. cookies' = cookies \cup {[gen |-> login.gen, made |-> changes]}
      BY <1>3 DEF LoginOk, Cookie
    <2>3. Idle \in AuthReq /\ Idle.at # "hash"
      BY DEF AuthReq, Idle
    <2>4. \A k \in cookies' : k \in cookies \/ (k.gen = login.gen /\ k.made = changes)
      BY <2>2
    <2> QED BY <2>1, <2>3, <2>4, NoChangeStep
  <1>4. ASSUME NEW s \in Slot, CheckFails(s) PROVE SessionInv'
    <2> DEFINE r == Slowed(req[s])
    <2>1. r \in AuthReq /\ r.at # "hash"
      BY <1>4, ReqKinds DEF CheckFails, AuthType, Slowed
    <2>2. req' = [req EXCEPT ![s] = r] /\ UNCHANGED <<login, ctl, changes, crossed, cookies>>
      BY <1>4 DEF CheckFails
    <2> HIDE DEF r
    <2> QED BY <2>1, <2>2, NoChangeStep
  <1>5. ASSUME NEW s \in Slot, Counted(s) \/ Dropped(s) \/ CountBreaks(s) \/ ClearBreaks(s)
        PROVE  SessionInv'
    <2>1. req' = [req EXCEPT ![s] = Idle] /\ UNCHANGED <<login, ctl, changes, crossed, cookies>>
      BY <1>5 DEF Counted, Dropped, CountBreaks, ClearBreaks, End
    <2> QED BY <2>1, ReqKinds, NoChangeStep DEF AuthType
  <1>6. ASSUME NEW s \in Slot, AccountOk(s) PROVE SessionInv'
    <2> SUFFICES ASSUME ~crossed' PROVE OneChange' /\ CookiesBehind'
      BY DEF SessionInv
    <2>1. ~crossed /\ ~Changing /\ req[s].gen = login.gen
      BY <1>6 DEF AccountOk
    <2>2. OneChange /\ CookiesBehind
      BY <2>1 DEF SessionInv
    <2>3. req' = [req EXCEPT ![s] = Hashing(req[s])] /\ UNCHANGED <<login, ctl, changes, cookies>>
      BY <1>6 DEF AccountOk
    <2>4. ctl = -1 /\ \A t \in Slot : req[t].at # "hash"
      BY <2>1 DEF Changing, AuthType
    <2>5. OneChange'
      BY <2>1, <2>3, <2>4 DEF OneChange, HashReq, Hashing, AuthType
    <2>6. CookiesBehind'
      BY <2>2, <2>3 DEF CookiesBehind
    <2> QED BY <2>5, <2>6
  <1>7. ASSUME NEW s \in Slot, AccountSaved(s) PROVE SessionInv'
    <2> SUFFICES ASSUME ~crossed' PROVE OneChange' /\ CookiesBehind'
      BY DEF SessionInv
    <2>1. OneChange /\ CookiesBehind
      BY <1>7 DEF AccountSaved, SessionInv
    <2>2. HashReq(s) /\ req[s].gen = login.gen /\ ctl = -1
      BY <1>7, <2>1 DEF AccountSaved, OneChange, HashReq
    <2>3. login'.gen = login.gen + 1 /\ changes' = changes + 1 /\ ctl' = -1
      BY <1>7, <2>2 DEF AccountSaved
    <2>4. req' = [req EXCEPT ![s] = Idle]
      BY <1>7 DEF AccountSaved, End
    <2>5. cookies' = cookies \cup {[gen |-> login.gen + 1, made |-> changes + 1]}
      BY <1>7, <2>3 DEF AccountSaved, Cookie
    <2>6. OneChange'
      <3>1. \A t \in Slot : req'[t].at # "hash"
        BY <2>1, <2>2, <2>4 DEF OneChange, HashReq, AuthType, Idle
      <3> QED BY <2>3, <3>1 DEF OneChange, HashReq
    <2>7. CookiesBehind'
      <3> SUFFICES ASSUME NEW k \in cookies'
                   PROVE  k.gen <= login'.gen /\ (k.gen = login'.gen => k.made = changes')
        BY DEF CookiesBehind
      <3>1. CASE k \in cookies
        BY <3>1, <2>1, <2>3 DEF CookiesBehind, AuthType
      <3>2. CASE k = [gen |-> login.gen + 1, made |-> changes + 1]
        BY <3>2, <2>3 DEF AuthType
      <3> QED BY <3>1, <3>2, <2>5
    <2> QED BY <2>6, <2>7
  <1>8. ASSUME NEW k \in cookies, SessionEnds(k) PROVE SessionInv'
    BY <1>8 DEF SessionEnds, SessionInv, OneChange, HashReq, CookiesBehind
  <1>9. ASSUME NEW ip \in Addr, BanEnds(ip) \/ CtlWhitelist(ip) PROVE SessionInv'
    BY <1>9 DEF BanEnds, CtlWhitelist, SessionInv, OneChange, HashReq, CookiesBehind
  <1>10. CASE CtlPasswdReads
    <2> SUFFICES ASSUME ~crossed' PROVE OneChange' /\ CookiesBehind'
      BY DEF SessionInv
    <2>1. ~crossed /\ ~Changing /\ ctl' = login.gen + 1 /\ UNCHANGED <<login, req, changes, cookies>>
      BY <1>10 DEF CtlPasswdReads
    <2>2. OneChange /\ CookiesBehind
      BY <2>1 DEF SessionInv
    <2>3. \A t \in Slot : req[t].at # "hash"
      BY <2>1 DEF Changing
    <2>4. OneChange'
      BY <2>1, <2>3 DEF OneChange, HashReq
    <2>5. CookiesBehind'
      BY <2>1, <2>2 DEF CookiesBehind
    <2> QED BY <2>4, <2>5
  <1>11. CASE CtlPasswdWrites
    <2> SUFFICES ASSUME ~crossed' PROVE OneChange' /\ CookiesBehind'
      BY DEF SessionInv
    <2>1. OneChange /\ CookiesBehind
      BY <1>11 DEF CtlPasswdWrites, SessionInv
    <2>2. ctl # -1 /\ ctl = login.gen + 1
      BY <1>11, <2>1 DEF CtlPasswdWrites, OneChange
    <2>3. login'.gen = login.gen + 1 /\ changes' = changes + 1 /\ ctl' = -1 /\ UNCHANGED <<req, cookies>>
      BY <1>11, <2>2 DEF CtlPasswdWrites
    <2>4. OneChange'
      BY <2>1, <2>2, <2>3 DEF OneChange, HashReq
    <2>5. CookiesBehind'
      BY <2>1, <2>3 DEF CookiesBehind, AuthType
    <2> QED BY <2>4, <2>5
  <1>12. ASSUME NEW gone \in SUBSET bans, BansLost(gone) PROVE SessionInv'
    BY <1>12 DEF BansLost, SessionInv, OneChange, HashReq, CookiesBehind
  <1>13. CASE HubStops
    BY <1>13 DEF HubStops, SessionInv, OneChange, HashReq, CookiesBehind, Idle
  <1> QED BY <1>1, <1>2, <1>3, <1>4, <1>5, <1>6, <1>7, <1>8, <1>9, <1>10, <1>11, <1>12, <1>13
          DEF AuthNext, Peer

-----------------------------------------------------------------------------
(* Wrong passwords.                                                        *)

(* A request whose wrong password was checked and is not counted yet, and  *)
(* one that may still have a password checked.                             *)
IsSlow(r, a) == r.at = "slow" /\ ~r.wl /\ r.ip = a
IsPending(r, a) == r.at \in {"body", "check"} /\ ~r.wl /\ r.ip = a

Slow(a) == {s \in Slot : IsSlow(req[s], a)}
Pending(a) == {s \in Slot : IsPending(req[s], a)}

(* Before the ban, each wrong password is counted or waits to be counted;  *)
(* once an address is banned no new request of it is let in, so that only  *)
(* those that are pending can add to what was tried.  An address that was  *)
(* spared is left out.                                                     *)
Within(a) ==
    /\ a \notin bans => /\ tried[a] <= fails[a] + Cardinality(Slow(a))
                        /\ tried[a] <= MaxFails - 1 + Cardinality(Slow(a))
    /\ a \in bans => tried[a] + Cardinality(Pending(a)) <= MaxFails - 1 + Cardinality(Slot)

TriesInv == \A a \in Addr \ spared : Within(a)

(* The two sets of requests are finite, and together no more than Slot.    *)
LEMMA SlotCounts ==
    ASSUME NEW a
    PROVE  /\ IsFiniteSet(Slow(a)) /\ IsFiniteSet(Pending(a))
           /\ Cardinality(Slow(a)) \in Nat /\ Cardinality(Pending(a)) \in Nat /\ Cardinality(Slot) \in Nat
           /\ Cardinality(Slow(a)) + Cardinality(Pending(a)) <= Cardinality(Slot)
  <1>1. Slow(a) \subseteq Slot /\ Pending(a) \subseteq Slot /\ Slow(a) \cap Pending(a) = {}
    BY DEF Slow, Pending, IsSlow, IsPending
  <1>2. IsFiniteSet(Slow(a)) /\ IsFiniteSet(Pending(a)) /\ IsFiniteSet(Slot)
    BY <1>1, SlotsAssumption, FS_Subset
  <1>3. Cardinality(Slow(a)) \in Nat /\ Cardinality(Pending(a)) \in Nat /\ Cardinality(Slot) \in Nat
    BY <1>2, FS_CardinalityType
  <1>4. Cardinality(Slow(a) \cup Pending(a)) = Cardinality(Slow(a)) + Cardinality(Pending(a)) - Cardinality({})
    BY <1>1, <1>2, FS_Union
  <1>5. Cardinality(Slow(a) \cup Pending(a)) <= Cardinality(Slot)
    BY <1>1, <1>2, FS_Subset
  <1> QED BY <1>2, <1>3, <1>4, <1>5, FS_EmptySet

(* A set that gains or loses one slot, or stays, as the slot is in it      *)
(* before and after.                                                       *)
LEMMA OneSlot ==
    ASSUME NEW S, IsFiniteSet(S), NEW s, NEW before \in BOOLEAN, NEW after \in BOOLEAN,
           before <=> s \in S,
           NEW T, T = IF after THEN S \cup {s} ELSE S \ {s}
    PROVE  Cardinality(T) = Cardinality(S) + (IF after THEN 1 ELSE 0) - (IF before THEN 1 ELSE 0)
  <1>1. Cardinality(S) \in Nat
    BY FS_CardinalityType
  <1>2. Cardinality(S \cup {s}) = IF s \in S THEN Cardinality(S) ELSE Cardinality(S) + 1
    BY FS_AddElement
  <1>3. Cardinality(S \ {s}) = IF s \in S THEN Cardinality(S) - 1 ELSE Cardinality(S)
    BY FS_RemoveElement
  <1> QED BY <1>1, <1>2, <1>3

(* How a step of one request changes the two counts.                       *)
LEMMA CountStep ==
    ASSUME AuthType, NEW a, NEW s \in Slot, NEW r \in AuthReq,
           req' = [req EXCEPT ![s] = r]
    PROVE  /\ Cardinality(Slow(a))' = Cardinality(Slow(a))
                  + (IF IsSlow(r, a) THEN 1 ELSE 0) - (IF IsSlow(req[s], a) THEN 1 ELSE 0)
           /\ Cardinality(Pending(a))' = Cardinality(Pending(a))
                  + (IF IsPending(r, a) THEN 1 ELSE 0) - (IF IsPending(req[s], a) THEN 1 ELSE 0)
  <1>1. \A t \in Slot : req'[t] = IF t = s THEN r ELSE req[t]
    BY DEF AuthType
  <1>2. Slow(a)' = IF IsSlow(r, a) THEN Slow(a) \cup {s} ELSE Slow(a) \ {s}
    BY <1>1 DEF Slow
  <1>3. Pending(a)' = IF IsPending(r, a) THEN Pending(a) \cup {s} ELSE Pending(a) \ {s}
    BY <1>1 DEF Pending
  <1>4. (IsSlow(req[s], a) <=> s \in Slow(a)) /\ (IsPending(req[s], a) <=> s \in Pending(a))
    BY DEF Slow, Pending
  <1>5. /\ IsSlow(r, a) \in BOOLEAN /\ IsSlow(req[s], a) \in BOOLEAN
        /\ IsPending(r, a) \in BOOLEAN /\ IsPending(req[s], a) \in BOOLEAN
    BY DEF IsSlow, IsPending
  <1>6. IsFiniteSet(Slow(a)) /\ IsFiniteSet(Pending(a))
    BY SlotCounts
  <1> QED BY <1>2, <1>3, <1>4, <1>5, <1>6, OneSlot

(* A step that leaves tries, counters and bans alone, checks no password   *)
(* wrong, and lets no request of a banned address in.                      *)
LEMMA NoTry ==
    ASSUME AuthType, TriesInv, NEW s \in Slot, NEW r \in AuthReq,
           req' = [req EXCEPT ![s] = r], UNCHANGED <<fails, tried, bans, spared>>,
           req[s].at # "slow", r.at # "slow",
           \A a \in bans : IsPending(r, a) => IsPending(req[s], a)
    PROVE  TriesInv'
  <1> SUFFICES ASSUME NEW a \in Addr \ spared'
               PROVE  /\ a \notin bans' => /\ tried'[a] <= fails'[a] + Cardinality(Slow(a))'
                                           /\ tried'[a] <= MaxFails - 1 + Cardinality(Slow(a))'
                      /\ a \in bans' => tried'[a] + Cardinality(Pending(a))' <= MaxFails - 1 + Cardinality(Slot)
    BY DEF TriesInv, Within
  <1>1. /\ a \notin bans => /\ tried[a] <= fails[a] + Cardinality(Slow(a))
                            /\ tried[a] <= MaxFails - 1 + Cardinality(Slow(a))
        /\ a \in bans => tried[a] + Cardinality(Pending(a)) <= MaxFails - 1 + Cardinality(Slot)
    BY DEF TriesInv, Within
  <1>2. Cardinality(Slow(a)) \in Nat /\ Cardinality(Pending(a)) \in Nat /\ Cardinality(Slot) \in Nat
    BY SlotCounts
  <1>3. /\ Cardinality(Slow(a))' = Cardinality(Slow(a))
              + (IF IsSlow(r, a) THEN 1 ELSE 0) - (IF IsSlow(req[s], a) THEN 1 ELSE 0)
        /\ Cardinality(Pending(a))' = Cardinality(Pending(a))
              + (IF IsPending(r, a) THEN 1 ELSE 0) - (IF IsPending(req[s], a) THEN 1 ELSE 0)
    BY CountStep
  <1>4. ~IsSlow(r, a) /\ ~IsSlow(req[s], a)
    BY DEF IsSlow
  <1>5. tried[a] \in Nat /\ fails[a] \in Nat /\ MaxFails \in Nat
    BY FailsAssumption DEF AuthType
  <1> QED BY <1>1, <1>2, <1>3, <1>4, <1>5

(* A step in which the tries of one address start again (a right password, *)
(* or a lifted ban).                                                       *)
LEMMA TriesCleared ==
    ASSUME AuthType, TriesInv, NEW b \in Addr,
           tried' = [tried EXCEPT ![b] = 0], spared' = spared \ {b},
           \A a \in Addr : fails'[a] = fails[a] \/ (a = b /\ fails'[a] = 0),
           bans' \in {bans, bans \ {b}},
           \A a \in Addr : Cardinality(Slow(a))' = Cardinality(Slow(a)),
           \A a \in Addr : Cardinality(Pending(a))' <= Cardinality(Pending(a)),
           \A a \in Addr : Cardinality(Pending(a))' \in Int
    PROVE  TriesInv'
  <1> SUFFICES ASSUME NEW a \in Addr \ spared'
               PROVE  /\ a \notin bans' => /\ tried'[a] <= fails'[a] + Cardinality(Slow(a))'
                                           /\ tried'[a] <= MaxFails - 1 + Cardinality(Slow(a))'
                      /\ a \in bans' => tried'[a] + Cardinality(Pending(a))' <= MaxFails - 1 + Cardinality(Slot)
    BY DEF TriesInv, Within
  <1>1. a # b =>
        /\ a \notin bans => /\ tried[a] <= fails[a] + Cardinality(Slow(a))
                            /\ tried[a] <= MaxFails - 1 + Cardinality(Slow(a))
        /\ a \in bans => tried[a] + Cardinality(Pending(a)) <= MaxFails - 1 + Cardinality(Slot)
    BY DEF TriesInv, Within
  <1>2. /\ Cardinality(Slow(a)) \in Nat /\ Cardinality(Pending(a)) \in Nat /\ Cardinality(Slot) \in Nat
        /\ Cardinality(Slow(a)) + Cardinality(Pending(a)) <= Cardinality(Slot)
    BY SlotCounts
  <1>3. tried[a] \in Nat /\ fails[a] \in Nat /\ MaxFails \in Nat \ {0}
    BY FailsAssumption DEF AuthType
  <1>4. tried'[a] = IF a = b THEN 0 ELSE tried[a]
    BY DEF AuthType
  <1>5. a # b => (a \in bans' <=> a \in bans)
    OBVIOUS
  <1>6. CASE a = b
    BY <1>6, <1>1, <1>2, <1>3, <1>4
  <1>7. CASE a # b
    BY <1>7, <1>1, <1>2, <1>3, <1>4, <1>5
  <1> QED BY <1>6, <1>7

(* A wrong password is checked: one more try, and either one more request  *)
(* to be counted or one fewer that is pending.                             *)
LEMMA TryStep ==
    ASSUME AuthType, TriesInv, NEW s \in Slot, CheckFails(s)
    PROVE  TriesInv'
  <1> SUFFICES ASSUME NEW a \in Addr \ spared'
               PROVE  /\ a \notin bans' => /\ tried'[a] <= fails'[a] + Cardinality(Slow(a))'
                                           /\ tried'[a] <= MaxFails - 1 + Cardinality(Slow(a))'
                      /\ a \in bans' => tried'[a] + Cardinality(Pending(a))' <= MaxFails - 1 + Cardinality(Slot)
    BY DEF TriesInv, Within
  <1> DEFINE r == Slowed(req[s])
  <1>1. /\ a \notin bans => /\ tried[a] <= fails[a] + Cardinality(Slow(a))
                            /\ tried[a] <= MaxFails - 1 + Cardinality(Slow(a))
        /\ a \in bans => tried[a] + Cardinality(Pending(a)) <= MaxFails - 1 + Cardinality(Slot)
    BY DEF TriesInv, Within, CheckFails
  <1>2. /\ Cardinality(Slow(a)) \in Nat /\ Cardinality(Pending(a)) \in Nat /\ Cardinality(Slot) \in Nat
    BY SlotCounts
  <1>3. tried[a] \in Nat /\ fails[a] \in Nat /\ MaxFails \in Nat \ {0}
    BY FailsAssumption DEF AuthType
  <1>4. r \in AuthReq /\ req' = [req EXCEPT ![s] = r] /\ UNCHANGED <<fails, bans>>
    BY ReqKinds DEF CheckFails, AuthType
  <1>5. /\ req[s].at = "check" /\ req[s].wl \in BOOLEAN /\ req[s].ip \in Peer
        /\ r.at = "slow" /\ r.wl = req[s].wl /\ r.ip = req[s].ip
    BY ReqFields DEF CheckFails, AuthType, Slowed
  <1>6. ~IsSlow(req[s], a) /\ ~IsPending(r, a)
    BY <1>5 DEF IsSlow, IsPending
  <1>7. (IsSlow(r, a) <=> ~req[s].wl /\ req[s].ip = a) /\ (IsPending(req[s], a) <=> ~req[s].wl /\ req[s].ip = a)
    BY <1>5 DEF IsSlow, IsPending
  <1>8. tried'[a] = IF ~req[s].wl /\ req[s].ip = a THEN tried[a] + 1 ELSE tried[a]
    <2>1. a # NoAddr
      BY FailsAssumption
    <2>2. CASE req[s].wl
      BY <2>2 DEF CheckFails
    <2>3. CASE ~req[s].wl
      BY <2>1, <2>3 DEF CheckFails, AuthType
    <2> QED BY <2>2, <2>3
  <1> HIDE DEF r
  <1>9. /\ Cardinality(Slow(a))' = Cardinality(Slow(a))
              + (IF IsSlow(r, a) THEN 1 ELSE 0) - (IF IsSlow(req[s], a) THEN 1 ELSE 0)
        /\ Cardinality(Pending(a))' = Cardinality(Pending(a))
              + (IF IsPending(r, a) THEN 1 ELSE 0) - (IF IsPending(req[s], a) THEN 1 ELSE 0)
    BY <1>4, CountStep
  <1> QED BY <1>1, <1>2, <1>3, <1>4, <1>6, <1>7, <1>8, <1>9

(* 800 ms later it is counted, or bans the address (recordFail).           *)
LEMMA CountedStep ==
    ASSUME AuthType, TriesInv, NEW s \in Slot, Counted(s)
    PROVE  TriesInv'
  <1> SUFFICES ASSUME NEW a \in Addr \ spared'
               PROVE  /\ a \notin bans' => /\ tried'[a] <= fails'[a] + Cardinality(Slow(a))'
                                           /\ tried'[a] <= MaxFails - 1 + Cardinality(Slow(a))'
                      /\ a \in bans' => tried'[a] + Cardinality(Pending(a))' <= MaxFails - 1 + Cardinality(Slot)
    BY DEF TriesInv, Within
  <1>1. /\ a \notin bans => /\ tried[a] <= fails[a] + Cardinality(Slow(a))
                            /\ tried[a] <= MaxFails - 1 + Cardinality(Slow(a))
        /\ a \in bans => tried[a] + Cardinality(Pending(a)) <= MaxFails - 1 + Cardinality(Slot)
    BY DEF TriesInv, Within, Counted
  <1>2. /\ Cardinality(Slow(a)) \in Nat /\ Cardinality(Pending(a)) \in Nat /\ Cardinality(Slot) \in Nat
        /\ Cardinality(Slow(a)) + Cardinality(Pending(a)) <= Cardinality(Slot)
    BY SlotCounts
  <1>3. tried[a] \in Nat /\ fails[a] \in Nat /\ MaxFails \in Nat \ {0} /\ a # NoAddr
    BY FailsAssumption DEF AuthType
  <1>4. Idle \in AuthReq /\ req' = [req EXCEPT ![s] = Idle] /\ UNCHANGED tried
    BY DEF Counted, End, AuthReq
  <1>5. req[s].at = "slow" /\ req[s].wl \in BOOLEAN /\ req[s].ip \in Peer
    BY ReqFields DEF Counted, AuthType
  <1>6. /\ ~IsSlow(Idle, a) /\ ~IsPending(Idle, a) /\ ~IsPending(req[s], a)
        /\ IsSlow(req[s], a) <=> ~req[s].wl /\ req[s].ip = a
    BY <1>5 DEF IsSlow, IsPending, Idle
  <1>7. /\ Cardinality(Slow(a))' = Cardinality(Slow(a))
              + (IF IsSlow(Idle, a) THEN 1 ELSE 0) - (IF IsSlow(req[s], a) THEN 1 ELSE 0)
        /\ Cardinality(Pending(a))' = Cardinality(Pending(a))
              + (IF IsPending(Idle, a) THEN 1 ELSE 0) - (IF IsPending(req[s], a) THEN 1 ELSE 0)
    BY <1>4, CountStep
  <1>8. CASE req[s].wl \/ req[s].ip # a
    <2>1. fails'[a] = fails[a] /\ (a \in bans' <=> a \in bans)
      <3>1. CASE req[s].wl
        BY <3>1 DEF Counted
      <3>2. CASE ~req[s].wl /\ req[s].ip # a
        <4>1. RecordFail(req[s].ip)
          BY <3>2 DEF Counted
        <4> QED BY <3>2, <4>1 DEF RecordFail, AuthType
      <3> QED BY <1>8, <3>1, <3>2
    <2> QED BY <1>1, <1>2, <1>3, <1>4, <1>6, <1>7, <1>8, <2>1
  <1>9. CASE ~req[s].wl /\ req[s].ip = a
    <2>1. RecordFail(a)
      BY <1>9 DEF Counted
    <2>2. CASE fails[a] + 1 >= MaxFails
      <3>1. a \in bans'
        BY <2>1, <2>2, <1>3 DEF RecordFail
      <3> QED BY <1>1, <1>2, <1>3, <1>4, <1>6, <1>7, <3>1
    <2>3. CASE ~(fails[a] + 1 >= MaxFails)
      <3>1. bans' = bans /\ fails'[a] = fails[a] + 1
        BY <2>1, <2>3, <1>3 DEF RecordFail, AuthType
      <3> QED BY <1>1, <1>2, <1>3, <1>4, <1>6, <1>7, <1>9, <2>3, <3>1
    <2> QED BY <2>2, <2>3
  <1> QED BY <1>8, <1>9, <1>5

(* A right password ends a request and clears its address; the request was *)
(* not one that waited to be counted.                                      *)
LEMMA LoginStep ==
    ASSUME AuthType, TriesInv, NEW s \in Slot, LoginOk(s)
    PROVE  TriesInv'
  <1>1. Idle \in AuthReq /\ Idle.at # "slow" /\ \A a : ~IsPending(Idle, a)
    BY DEF AuthReq, Idle, IsPending
  <1>2. req' = [req EXCEPT ![s] = Idle] /\ UNCHANGED bans /\ req[s].at # "slow" /\ ClearFails(req[s].ip)
    BY DEF LoginOk, End
  <1>3. req[s].ip \in Peer
    BY ReqFields DEF LoginOk, AuthType
  <1>4. CASE req[s].ip = NoAddr
    <2>1. UNCHANGED <<fails, tried, spared>>
      BY <1>2, <1>4 DEF ClearFails
    <2> QED BY <1>1, <1>2, <2>1, NoTry
  <1>5. CASE req[s].ip # NoAddr
    <2> DEFINE b == req[s].ip
    <2>1. /\ b \in Addr /\ tried' = [tried EXCEPT ![b] = 0] /\ fails' = [fails EXCEPT ![b] = 0]
          /\ spared' = spared \ {b}
      BY <1>2, <1>3, <1>5 DEF ClearFails, StartOver, Peer
    <2>2. \A a \in Addr : fails'[a] = fails[a] \/ (a = b /\ fails'[a] = 0)
      BY <2>1 DEF AuthType
    <2>3. ASSUME NEW a \in Addr
          PROVE  /\ Cardinality(Slow(a))' = Cardinality(Slow(a))
                 /\ Cardinality(Pending(a))' <= Cardinality(Pending(a))
                 /\ Cardinality(Pending(a))' \in Int
      <3>1. /\ Cardinality(Slow(a))' = Cardinality(Slow(a))
                  + (IF IsSlow(Idle, a) THEN 1 ELSE 0) - (IF IsSlow(req[s], a) THEN 1 ELSE 0)
            /\ Cardinality(Pending(a))' = Cardinality(Pending(a))
                  + (IF IsPending(Idle, a) THEN 1 ELSE 0) - (IF IsPending(req[s], a) THEN 1 ELSE 0)
        BY <1>1, <1>2, CountStep
      <3>2. ~IsSlow(Idle, a) /\ ~IsSlow(req[s], a) /\ ~IsPending(Idle, a)
        BY <1>1, <1>2 DEF IsSlow
      <3>3. Cardinality(Slow(a)) \in Nat /\ Cardinality(Pending(a)) \in Nat
        BY SlotCounts
      <3> QED BY <3>1, <3>2, <3>3
    <2> HIDE DEF b
    <2> QED BY <1>2, <2>1, <2>2, <2>3, TriesCleared
  <1> QED BY <1>4, <1>5

(* A ban that ends, or is lifted with the whitelist.                       *)
LEMMA LiftStep ==
    ASSUME AuthType, TriesInv, NEW ip \in Addr, Lift(ip), UNCHANGED <<fails, req>>
    PROVE  TriesInv'
  <1>1. /\ tried' = [tried EXCEPT ![ip] = 0] /\ spared' = spared \ {ip}
        /\ bans' \in {bans, bans \ {ip}}
    BY DEF Lift, StartOver
  <1>2. ASSUME NEW a \in Addr
        PROVE  /\ Cardinality(Slow(a))' = Cardinality(Slow(a))
               /\ Cardinality(Pending(a))' <= Cardinality(Pending(a))
               /\ Cardinality(Pending(a))' \in Int
    <2>1. Slow(a)' = Slow(a) /\ Pending(a)' = Pending(a)
      BY DEF Slow, Pending
    <2>2. Cardinality(Slow(a)) \in Nat /\ Cardinality(Pending(a)) \in Nat
      BY SlotCounts
    <2> QED BY <2>1, <2>2
  <1> QED BY <1>1, <1>2, TriesCleared

(* A step that touches no request and no counter.                          *)
LEMMA TriesStutter ==
    ASSUME TriesInv, UNCHANGED <<fails, bans, tried, req, spared>>
    PROVE  TriesInv'
  BY DEF TriesInv, Within, Slow, Pending

(* Something broke: an address that is not spared by it has its count and  *)
(* its requests that wait for it as before, or is banned.                  *)
LEMMA SparedStep ==
    ASSUME AuthType, TriesInv, NEW U, Spare(U), UNCHANGED tried, fails' \in [Addr -> Nat],
           \A a \in Addr : Cardinality(Pending(a))' \in Int
                           /\ Cardinality(Pending(a))' <= Cardinality(Pending(a)),
           \A a \in Addr : a \notin U \cup bans' => Cardinality(Slow(a))' = Cardinality(Slow(a))
    PROVE  TriesInv'
  <1> SUFFICES ASSUME NEW a \in Addr \ spared'
               PROVE  /\ a \notin bans' => /\ tried'[a] <= fails'[a] + Cardinality(Slow(a))'
                                           /\ tried'[a] <= MaxFails - 1 + Cardinality(Slow(a))'
                      /\ a \in bans' => tried'[a] + Cardinality(Pending(a))' <= MaxFails - 1 + Cardinality(Slot)
    BY DEF TriesInv, Within
  <1>1. a \notin spared /\ a \notin bans \ bans' /\ (a \notin bans' => a \notin U /\ ~(fails'[a] < fails[a]))
    BY DEF Spare
  <1>2. /\ a \notin bans => /\ tried[a] <= fails[a] + Cardinality(Slow(a))
                            /\ tried[a] <= MaxFails - 1 + Cardinality(Slow(a))
        /\ a \in bans => tried[a] + Cardinality(Pending(a)) <= MaxFails - 1 + Cardinality(Slot)
    BY <1>1 DEF TriesInv, Within
  <1>3. /\ Cardinality(Slow(a)) \in Nat /\ Cardinality(Pending(a)) \in Nat /\ Cardinality(Slot) \in Nat
        /\ Cardinality(Slow(a)) + Cardinality(Pending(a)) <= Cardinality(Slot)
    BY SlotCounts
  <1>4. /\ tried[a] \in Nat /\ fails[a] \in Nat /\ fails'[a] \in Nat /\ MaxFails \in Nat
        /\ Cardinality(Pending(a))' \in Int /\ Cardinality(Pending(a))' <= Cardinality(Pending(a))
    BY FailsAssumption DEF AuthType
  <1>5. CASE a \in bans'
    BY <1>1, <1>2, <1>3, <1>4, <1>5
  <1>6. CASE a \notin bans'
    <2>1. Cardinality(Slow(a))' = Cardinality(Slow(a))
      BY <1>1, <1>6
    <2> QED BY <1>1, <1>2, <1>3, <1>4, <1>6, <2>1
  <1> QED BY <1>5, <1>6

(* Counting or clearing breaks: the request ends, and its address is       *)
(* spared or banned if its try waited to be counted.                       *)
LEMMA BreakStep ==
    ASSUME AuthType, TriesInv, NEW s \in Slot, CountBreaks(s) \/ ClearBreaks(s)
    PROVE  TriesInv'
  <1>1. Idle \in AuthReq /\ req' = [req EXCEPT ![s] = Idle] /\ UNCHANGED tried
    BY DEF CountBreaks, ClearBreaks, End, AuthReq
  <1>2. fails' \in [Addr -> Nat]
    <2>1. CASE CountBreaks(s)
      BY <2>1, BreaksType
    <2>2. CASE ClearBreaks(s)
      BY <2>2 DEF ClearBreaks, NoFails, AuthType
    <2> QED BY <2>1, <2>2
  <1>3. PICK U : Spare(U) /\ \A a \in Addr : a \notin U \cup bans' => ~IsSlow(req[s], a)
    <2>1. CASE CountBreaks(s)
      <3>1. \A a \in Addr : IsSlow(req[s], a) => a = req[s].ip
        BY DEF IsSlow
      <3>2. Spare({req[s].ip}) \/ (Spare({}) /\ req[s].ip \in bans')
        BY <2>1 DEF CountBreaks
      <3> QED BY <3>1, <3>2
    <2>2. CASE ClearBreaks(s)
      BY <2>2 DEF ClearBreaks, IsSlow
    <2> QED BY <2>1, <2>2
  <1>4. ASSUME NEW a \in Addr
        PROVE  /\ Cardinality(Pending(a))' \in Int
               /\ Cardinality(Pending(a))' <= Cardinality(Pending(a))
               /\ a \notin U \cup bans' => Cardinality(Slow(a))' = Cardinality(Slow(a))
    <2>1. /\ Cardinality(Slow(a))' = Cardinality(Slow(a))
                + (IF IsSlow(Idle, a) THEN 1 ELSE 0) - (IF IsSlow(req[s], a) THEN 1 ELSE 0)
          /\ Cardinality(Pending(a))' = Cardinality(Pending(a))
                + (IF IsPending(Idle, a) THEN 1 ELSE 0) - (IF IsPending(req[s], a) THEN 1 ELSE 0)
      BY <1>1, CountStep
    <2>2. ~IsSlow(Idle, a) /\ ~IsPending(Idle, a)
      BY DEF IsSlow, IsPending, Idle
    <2>3. Cardinality(Slow(a)) \in Nat /\ Cardinality(Pending(a)) \in Nat
      BY SlotCounts
    <2> QED BY <1>3, <2>1, <2>2, <2>3
  <1> QED BY <1>1, <1>2, <1>3, <1>4, SparedStep

(* Bans are lost, or the hub stops: it has no requests then, and spares    *)
(* the addresses of those that waited to be counted.                       *)
LEMMA LossStep ==
    ASSUME AuthType, TriesInv, HubStops \/ \E gone \in SUBSET bans : BansLost(gone)
    PROVE  TriesInv'
  <1>0. fails' \in [Addr -> Nat] /\ UNCHANGED tried
    BY DEF HubStops, BansLost, AuthType
  <1>1. CASE HubStops
    <2> DEFINE U == {a \in Addr : \E s \in Slot : req[s].at = "slow" /\ ~req[s].wl /\ req[s].ip = a}
    <2>1. Spare(U)
      BY <1>1 DEF HubStops
    <2>2. ASSUME NEW a \in Addr
          PROVE  Slow(a)' = {} /\ Pending(a)' = {} /\ (a \notin U => Slow(a) = {})
      BY <1>1 DEF HubStops, Slow, Pending, IsSlow, IsPending, Idle
    <2> HIDE DEF U
    <2>3. ASSUME NEW a \in Addr
          PROVE  /\ Cardinality(Pending(a))' \in Int
                 /\ Cardinality(Pending(a))' <= Cardinality(Pending(a))
                 /\ a \notin U \cup bans' => Cardinality(Slow(a))' = Cardinality(Slow(a))
      <3>1. Cardinality(Pending(a)) \in Nat
        BY SlotCounts
      <3> QED BY <2>2, <3>1, FS_EmptySet
    <2> QED BY <1>0, <2>1, <2>3, SparedStep
  <1>2. CASE \E gone \in SUBSET bans : BansLost(gone)
    <2>1. Spare({}) /\ UNCHANGED req
      BY <1>2 DEF BansLost
    <2>2. ASSUME NEW a \in Addr
          PROVE  /\ Cardinality(Pending(a))' \in Int
                 /\ Cardinality(Pending(a))' <= Cardinality(Pending(a))
                 /\ Cardinality(Slow(a))' = Cardinality(Slow(a))
      <3>1. Slow(a)' = Slow(a) /\ Pending(a)' = Pending(a)
        BY <2>1 DEF Slow, Pending
      <3>2. Cardinality(Pending(a)) \in Nat
        BY SlotCounts
      <3> QED BY <3>1, <3>2
    <2> QED BY <1>0, <2>1, <2>2, SparedStep
  <1> QED BY <1>1, <1>2

(* Every step of the login part keeps the invariant of the tries.          *)
LEMMA TriesNext ==
    ASSUME AuthType, TriesInv, AuthNext
    PROVE  TriesInv'
  <1>1. ASSUME NEW s \in Slot, NEW kind \in Kind, NEW peer \in Peer, NEW forwarded \in Peer,
               NEW pass \in {Wrong, login.pass}, Arrive(s, kind, peer, forwarded, pass)
        PROVE  TriesInv'
    <2> DEFINE c == Client(peer, forwarded)
               r == Waiting(kind, c.ip, Whitelisted(c), pass)
    <2>1. pass \in Int
      BY DEF Wrong, AuthType
    <2>2. r \in AuthReq /\ r.at # "slow"
      BY <2>1, ArriveReq DEF Waiting
    <2>3. req' = [req EXCEPT ![s] = r] /\ UNCHANGED <<fails, tried, bans, spared>> /\ req[s].at # "slow"
      BY <1>1 DEF Arrive, Idle
    <2>4. \A a \in bans : ~IsPending(r, a)
      BY <1>1 DEF Arrive, IsPending, Waiting
    <2> HIDE DEF r
    <2> QED BY <2>2, <2>3, <2>4, NoTry
  <1>2. ASSUME NEW s \in Slot, ReadBody(s) PROVE TriesInv'
    <2> DEFINE r == Checking(req[s], login)
    <2>1. r \in AuthReq /\ r.at # "slow"
      BY <1>2, ReqKinds DEF ReadBody, AuthType, Checking
    <2>2. req' = [req EXCEPT ![s] = r] /\ UNCHANGED <<fails, tried, bans, spared>> /\ req[s].at # "slow"
      BY <1>2 DEF ReadBody
    <2>3. \A a \in bans : IsPending(r, a) => IsPending(req[s], a)
      BY <1>2 DEF ReadBody, IsPending, Checking
    <2> HIDE DEF r
    <2> QED BY <2>1, <2>2, <2>3, NoTry
  <1>3. ASSUME NEW s \in Slot, AccountOk(s) PROVE TriesInv'
    <2> DEFINE r == Hashing(req[s])
    <2>1. r \in AuthReq /\ r.at = "hash"
      BY <1>3, ReqKinds DEF AccountOk, AuthType, Hashing
    <2>2. req' = [req EXCEPT ![s] = r] /\ UNCHANGED <<fails, tried, bans, spared>> /\ req[s].at # "slow"
      BY <1>3 DEF AccountOk
    <2>3. \A a \in bans : ~IsPending(r, a)
      BY <2>1 DEF IsPending
    <2> HIDE DEF r
    <2> QED BY <2>1, <2>2, <2>3, NoTry
  <1>4. ASSUME NEW s \in Slot, AccountSaved(s) \/ Dropped(s) PROVE TriesInv'
    <2>1. Idle \in AuthReq /\ Idle.at # "slow" /\ \A a : ~IsPending(Idle, a)
      BY DEF AuthReq, Idle, IsPending
    <2>2. req' = [req EXCEPT ![s] = Idle] /\ UNCHANGED <<fails, tried, bans, spared>> /\ req[s].at # "slow"
      BY <1>4 DEF AccountSaved, Dropped, End
    <2> QED BY <2>1, <2>2, NoTry
  <1>5. ASSUME NEW ip \in Addr, BanEnds(ip) \/ CtlWhitelist(ip) PROVE TriesInv'
    BY <1>5, LiftStep DEF BanEnds, CtlWhitelist
  <1>6. ASSUME NEW k \in cookies, SessionEnds(k) PROVE TriesInv'
    BY <1>6, TriesStutter DEF SessionEnds
  <1>7. CASE CtlPasswdReads \/ CtlPasswdWrites
    BY <1>7, TriesStutter DEF CtlPasswdReads, CtlPasswdWrites
  <1> QED BY <1>1, <1>2, <1>3, <1>4, <1>5, <1>6, <1>7, LoginStep, TryStep, CountedStep,
             BreakStep, LossStep
          DEF AuthNext, Peer

-----------------------------------------------------------------------------
(* The theorems.                                                           *)
AuthInv == AuthType /\ SessionInv /\ TriesInv

(* The inductive invariant holds in every behaviour of the whole.          *)
LEMMA AuthInvariant == Spec => []AuthInv
  <1>1. Init => AuthInv
    <2> SUFFICES ASSUME Init PROVE AuthInv
      OBVIOUS
    <2> USE DEF Init, AuthInit
    <2>1. AuthType
      BY DEF AuthType, AuthReq
    <2>2. SessionInv
      BY DEF SessionInv, OneChange, HashReq, CookiesBehind, Idle
    <2>3. TriesInv
      <3> SUFFICES ASSUME NEW a \in Addr
                   PROVE  /\ tried[a] <= fails[a] + Cardinality(Slow(a))
                          /\ tried[a] <= MaxFails - 1 + Cardinality(Slow(a))
        BY DEF TriesInv, Within
      <3>1. fails[a] = 0 /\ tried[a] = 0 /\ MaxFails \in Nat \ {0}
        BY FailsAssumption
      <3>2. Cardinality(Slow(a)) \in Nat
        BY SlotCounts
      <3> HIDE DEF Init, AuthInit
      <3> QED BY <3>1, <3>2
    <2> QED BY <2>1, <2>2, <2>3 DEF AuthInv
  <1>2. AuthInv /\ [Next]_vars => AuthInv'
    <2> SUFFICES ASSUME AuthInv, [Next]_vars PROVE AuthInv'
      OBVIOUS
    <2>1. CASE AuthNext
      BY <2>1, AuthTypeNext, SessionNext, TriesNext DEF AuthInv
    <2>2. CASE UNCHANGED authVars
      <3>1. AuthType'
        BY <2>2 DEF AuthInv, AuthType, authVars
      <3>2. SessionInv'
        BY <2>2 DEF AuthInv, SessionInv, OneChange, HashReq, CookiesBehind, authVars
      <3>3. TriesInv'
        BY <2>2, TriesStutter DEF AuthInv, authVars
      <3> QED BY <3>1, <3>2, <3>3 DEF AuthInv
    <2> QED BY <2>1, <2>2 DEF Next, vars
  <1> QED BY <1>1, <1>2, PTL DEF Spec

(* However the hub's requests interleave, an address gets at most MaxFails *)
(* - 1 wrong passwords checked, and one for each request served at once,   *)
(* before it is banned (recordFail, server.js:315); only an address whose  *)
(* count or ban a stop or a broken write met can get more.                 *)
THEOREM TriesAreBounded == Spec => []TriesBounded
  <1>1. AuthInv => TriesBounded
    <2> SUFFICES ASSUME AuthInv, NEW a \in Addr \ spared PROVE tried[a] <= MaxFails - 1 + Cardinality(Slot)
      BY DEF TriesBounded
    <2>1. /\ a \notin bans => tried[a] <= MaxFails - 1 + Cardinality(Slow(a))
          /\ a \in bans => tried[a] + Cardinality(Pending(a)) <= MaxFails - 1 + Cardinality(Slot)
      BY DEF AuthInv, TriesInv, Within
    <2>2. /\ Cardinality(Slow(a)) \in Nat /\ Cardinality(Pending(a)) \in Nat /\ Cardinality(Slot) \in Nat
          /\ Cardinality(Slow(a)) + Cardinality(Pending(a)) <= Cardinality(Slot)
      BY SlotCounts
    <2>3. tried[a] \in Nat /\ fails[a] \in Nat /\ MaxFails \in Nat
      BY FailsAssumption DEF AuthInv, AuthType
    <2> QED BY <2>1, <2>2, <2>3
  <1> QED BY <1>1, AuthInvariant, PTL

(* A change of the login ends every session made before it, also one that  *)
(* a login made while the change was being saved, as long as no two        *)
(* changes overlapped (the generation in admin.js:6).                      *)
THEOREM ChangeEndsAllSessions == Spec => []ChangeEndsSessions
  <1>1. AuthInv => ChangeEndsSessions
    BY DEF AuthInv, SessionInv, CookiesBehind, ChangeEndsSessions, Valid
  <1> QED BY <1>1, AuthInvariant, PTL
=============================================================================
