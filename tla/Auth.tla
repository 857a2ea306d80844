-------------------------------- MODULE Auth --------------------------------
(***************************************************************************)
(* Login, sessions and bans of the hub (src/hub/server.js, src/hub/lib/    *)
(* admin.js and clientip.js), with servitals-ctl's unban, whitelist and    *)
(* passwd.  A request waits in the middle: for its body, for the password  *)
(* check, and after a wrong password for 800 ms.  What it read before the  *)
(* wait may be old after it.                                               *)
(*                                                                         *)
(* The admin name and the password are one value, replaced by each change. *)
(***************************************************************************)
EXTENDS Integers, FiniteSets

CONSTANTS
    Slot,           \* requests the hub can be serving at once
    Addr,           \* client addresses
    Proxy,          \* the trusted proxy's address (TRUSTED_PROXIES)
    NoAddr,         \* an address that did not parse (null)
    MaxFails,       \* wrong passwords that ban an address (MAX_FAILS)
    Scenes          \* which clients call, who is on the whitelist at first, and
                    \* how often the login changes and writes break (bounds)

VARIABLES
    scene,          \* the scene of this behaviour
    fails,          \* fails.json: address -> wrong passwords counted
    bans,           \* bans.json: the banned addresses
    listed,         \* whitelist.txt
    login,          \* admin.json: the password, as the number of the change that set it, and gen
    req,            \* slot -> the request in it
    ctl,            \* the generation a servitals-ctl passwd is about to write, or -1
    cookies,        \* the session cookies given out
    tried,          \* history: address -> wrong passwords checked since it was last cleared
    changes,        \* history: changes of the login that ended
    crossed,        \* history: a change started before another one ended
    faults,         \* history: writes of the counters or bans that broke, and stops
    spared          \* history: addresses that lost a count or a ban to one of them

authVars == <<scene, fails, bans, listed, login, req, ctl, cookies, tried, changes, crossed,
              faults, spared>>

ASSUME FailsAssumption == MaxFails \in Nat \ {0} /\ Proxy \in Addr /\ NoAddr \notin Addr
ASSUME SlotsAssumption == IsFiniteSet(Slot)

Wrong == -1
Idle == [at |-> "idle"]
Kind == {"login", "account"}

(* A request: its kind, its address, whether that is on the whitelist, and *)
(* what it brings or has found out so far.                                 *)
Waiting(kind, ip, wl, pass) == [at |-> "body", kind |-> kind, ip |-> ip, wl |-> wl, pass |-> pass]
Checking(r, l) == [at |-> "check", kind |-> r.kind, ip |-> r.ip, wl |-> r.wl,
                   right |-> r.pass = l.pass, gen |-> l.gen]
Slowed(r) == [at |-> "slow", ip |-> r.ip, wl |-> r.wl]
Hashing(r) == [at |-> "hash", gen |-> r.gen]

-----------------------------------------------------------------------------
(* resolveClient: the forwarded address counts only behind our own proxy;  *)
(* the proxy's own address is never on the whitelist.                      *)
Client(peer, forwarded) ==
    IF peer = Proxy /\ forwarded # NoAddr
    THEN [ip |-> forwarded, proxyOnly |-> FALSE]
    ELSE [ip |-> peer, proxyOnly |-> peer = Proxy]

Whitelisted(c) == ~c.proxyOnly /\ c.ip \in listed

(* validCookie                                                             *)
Valid(cookie) == cookie.gen = login.gen

(* Variant: the ban comes one wrong password late.                         *)
RecordFailLate(ip) ==
    IF ip = NoAddr THEN UNCHANGED <<fails, bans>>
    ELSE IF fails[ip] + 1 > MaxFails
         THEN bans' = bans \cup {ip} /\ fails' = [fails EXCEPT ![ip] = 0]
         ELSE fails' = [fails EXCEPT ![ip] = @ + 1] /\ UNCHANGED bans

(* recordFail                                                              *)
RecordFail(ip) ==
    IF ip = NoAddr THEN UNCHANGED <<fails, bans>>
    ELSE IF fails[ip] + 1 >= MaxFails
         THEN bans' = bans \cup {ip} /\ fails' = [fails EXCEPT ![ip] = 0]
         ELSE fails' = [fails EXCEPT ![ip] = @ + 1] /\ UNCHANGED bans

(* Tries are counted from here on, and what an address was spared is past. *)
StartOver(ip) == tried' = [tried EXCEPT ![ip] = 0] /\ spared' = spared \ {ip}

(* clearFails; the count of tries starts again with it                     *)
ClearFails(ip) ==
    IF ip = NoAddr THEN UNCHANGED <<fails, tried, spared>>
    ELSE fails' = [fails EXCEPT ![ip] = 0] /\ StartOver(ip)

Lift(ip) == bans' = bans \ {ip} /\ StartOver(ip)

(* fails.json as it reads after a write that stopped half way: readJSON    *)
(* takes a file it cannot parse for an empty one.                          *)
NoFails == [a \in Addr |-> 0]

(* What broke spares the addresses whose try was not counted and those     *)
(* whose count is gone, unless they are banned, and those whose ban went.  *)
Spare(uncounted) ==
    /\ faults < scene.faults /\ faults' = faults + 1
    /\ spared' = spared \cup (bans \ bans')
                 \cup ((uncounted \cup {a \in Addr : fails'[a] < fails[a]}) \ bans')

(* makeCookie: from the login as it is now                                 *)
Cookie(l, n) == [gen |-> l.gen, made |-> n]

End(s) == [req EXCEPT ![s] = Idle]

-----------------------------------------------------------------------------
(* A login or a change of the login arrives: handle() looks at the ban and *)
(* at the cookie once, here.  A banned client gets its 403 and changes     *)
(* nothing.                                                                *)
Arrive(s, kind, peer, forwarded, pass) ==
    LET c == Client(peer, forwarded) IN
    /\ req[s] = Idle /\ peer \in scene.peers
    /\ Whitelisted(c) \/ c.ip \notin bans
    /\ kind = "account" => \E k \in cookies : Valid(k)
    /\ req' = [req EXCEPT ![s] = Waiting(kind, c.ip, Whitelisted(c), pass)]
    /\ UNCHANGED <<fails, bans, listed, login, ctl, cookies, tried, changes, crossed, faults, spared>>

(* The body is there: the login is read, and checkPass starts.             *)
ReadBody(s) ==
    /\ req[s].at = "body"
    /\ req' = [req EXCEPT ![s] = Checking(@, login)]
    /\ UNCHANGED <<fails, bans, listed, login, ctl, cookies, tried, changes, crossed, faults, spared>>

(* The right password: a cookie, for the login as it is by now.            *)
LoginOk(s) ==
    /\ req[s].at = "check" /\ req[s].kind = "login" /\ req[s].right
    /\ ClearFails(req[s].ip)
    /\ cookies' = cookies \cup {Cookie(login, changes)}
    /\ req' = End(s)
    /\ UNCHANGED <<bans, listed, login, ctl, changes, crossed, faults>>

(* A wrong one: 800 ms pass before it is counted.                          *)
CheckFails(s) ==
    /\ req[s].at = "check" /\ ~req[s].right
    /\ req' = [req EXCEPT ![s] = Slowed(@)]
    /\ tried' = IF req[s].wl \/ req[s].ip = NoAddr THEN tried
                ELSE [tried EXCEPT ![req[s].ip] = @ + 1]
    /\ UNCHANGED <<fails, bans, listed, login, ctl, cookies, changes, crossed, faults, spared>>

Counted(s) ==
    /\ req[s].at = "slow"
    /\ IF req[s].wl THEN UNCHANGED <<fails, bans>> ELSE RecordFail(req[s].ip)
    /\ req' = End(s)
    /\ UNCHANGED <<listed, login, ctl, cookies, tried, changes, crossed, faults, spared>>

(* recordFail throws at one of its three writes: the count, the ban, the   *)
(* count's end.  The client gets a 500.  A hub that stops inside recordFail *)
(* does this and then HubStops.                                            *)
CountBreaks(s) ==
    LET ip == req[s].ip
        counted == [fails EXCEPT ![ip] = @ + 1]
    IN
    /\ req[s].at = "slow" /\ ~req[s].wl /\ ip # NoAddr
    /\ \/ fails' \in {fails, NoFails} /\ UNCHANGED bans /\ Spare({ip})
       \/ counted[ip] >= MaxFails /\ fails' = counted /\ bans' \in {bans, {}} /\ Spare({ip})
       \/ counted[ip] >= MaxFails /\ fails' \in {counted, NoFails} /\ bans' = bans \cup {ip} /\ Spare({})
    /\ req' = End(s)
    /\ UNCHANGED <<listed, login, ctl, cookies, tried, changes, crossed>>

(* clearFails throws: the right password gives no cookie.                  *)
ClearBreaks(s) ==
    /\ req[s].at = "check" /\ req[s].kind = "login" /\ req[s].right
    /\ req[s].ip # NoAddr /\ fails[req[s].ip] > 0
    /\ fails' \in {fails, NoFails} /\ UNCHANGED bans /\ Spare({})
    /\ req' = End(s)
    /\ UNCHANGED <<listed, login, ctl, cookies, tried, changes, crossed>>

(* Bans go that did not end: banInfo's write stopped half way, or unban    *)
(* put bans.json back as it read it before the hub's last ban.             *)
BansLost(gone) ==
    /\ gone # {}
    /\ bans' = bans \ gone
    /\ UNCHANGED fails /\ Spare({})
    /\ UNCHANGED <<listed, login, req, ctl, cookies, tried, changes, crossed>>

(* The hub stops and starts again: its requests are gone, wrong passwords  *)
(* in their 800 ms uncounted.  Sessions stay, their secret is in a file.   *)
HubStops ==
    /\ req' = [s \in Slot |-> Idle]
    /\ UNCHANGED <<fails, bans>>
    /\ Spare({a \in Addr : \E s \in Slot : req[s].at = "slow" /\ ~req[s].wl /\ req[s].ip = a})
    /\ UNCHANGED <<listed, login, ctl, cookies, tried, changes, crossed>>

Changing == ctl >= 0 \/ \E s \in Slot : req[s].at = "hash"

(* /__ctl/account: the current password was right, the new one is hashed.  *)
AccountOk(s) ==
    /\ req[s].at = "check" /\ req[s].kind = "account" /\ req[s].right
    /\ req' = [req EXCEPT ![s] = Hashing(@)]
    /\ crossed' = (crossed \/ Changing \/ req[s].gen # login.gen)
    /\ UNCHANGED <<fails, bans, listed, login, ctl, cookies, tried, changes, faults, spared>>

(* Variant: the generation stays, so that the page stays logged in.        *)
AccountKeepsGen(s) ==
    /\ req[s].at = "hash" /\ changes < scene.changes
    /\ login' = [pass |-> changes + 1, gen |-> req[s].gen]
    /\ changes' = changes + 1
    /\ cookies' = cookies \cup {Cookie(login', changes')}
    /\ req' = End(s)
    /\ UNCHANGED <<fails, bans, listed, ctl, tried, crossed, faults, spared>>

(* ... and the login is saved, one generation above the one it read.       *)
AccountSaved(s) ==
    /\ req[s].at = "hash" /\ changes < scene.changes
    /\ login' = [pass |-> changes + 1, gen |-> req[s].gen + 1]
    /\ changes' = changes + 1
    /\ cookies' = cookies \cup {Cookie(login', changes')}
    /\ req' = End(s)
    /\ UNCHANGED <<fails, bans, listed, ctl, tried, crossed, faults, spared>>

(* The client goes away before its body is there, the new login is refused *)
(* (its form, or an old hash that needs a new password), or the save fails. *)
Dropped(s) ==
    /\ \/ req[s].at \in {"body", "hash"}
       \/ req[s].at = "check" /\ req[s].kind = "account" /\ req[s].right
    /\ req' = End(s)
    /\ UNCHANGED <<fails, bans, listed, login, ctl, cookies, tried, changes, crossed, faults, spared>>

-----------------------------------------------------------------------------
(* A session's time is over (exp), or a ban's (until).                     *)
SessionEnds(k) ==
    /\ k \in cookies
    /\ cookies' = cookies \ {k}
    /\ UNCHANGED <<fails, bans, listed, login, req, ctl, tried, changes, crossed, faults, spared>>

BanEnds(ip) ==
    /\ ip \in bans
    /\ Lift(ip)
    /\ UNCHANGED <<fails, listed, login, req, ctl, cookies, changes, crossed, faults>>

(* servitals-ctl whitelist, which also lifts the ban (unban alone is what  *)
(* BanEnds does)                                                           *)
CtlWhitelist(ip) ==
    /\ ip \notin listed
    /\ listed' = listed \cup {ip}
    /\ Lift(ip)
    /\ UNCHANGED <<fails, login, req, ctl, cookies, changes, crossed, faults>>

(* servitals-ctl passwd reads the generation, then replaces the file.      *)
CtlPasswdReads ==
    /\ ctl = -1 /\ changes < scene.changes
    /\ ctl' = login.gen + 1
    /\ crossed' = (crossed \/ Changing)
    /\ UNCHANGED <<fails, bans, listed, login, req, cookies, tried, changes, faults, spared>>

CtlPasswdWrites ==
    /\ ctl >= 0 /\ changes < scene.changes
    /\ ctl' = -1
    /\ login' = [pass |-> changes + 1, gen |-> ctl]
    /\ changes' = changes + 1
    /\ UNCHANGED <<fails, bans, listed, req, cookies, tried, crossed, faults, spared>>

-----------------------------------------------------------------------------
AuthInit ==
    /\ fails = [a \in Addr |-> 0] /\ tried = [a \in Addr |-> 0]
    /\ scene \in Scenes
    /\ bans = {} /\ listed = scene.listed /\ cookies = {}
    /\ login = [pass |-> 0, gen |-> 0]
    /\ req = [s \in Slot |-> Idle]
    /\ ctl = -1 /\ changes = 0 /\ crossed = FALSE
    /\ faults = 0 /\ spared = {}

AuthNext ==
    /\ UNCHANGED scene
    /\ \/ \E s \in Slot, kind \in Kind, peer \in Addr \cup {NoAddr}, forwarded \in Addr \cup {NoAddr},
             pass \in {Wrong, login.pass} : Arrive(s, kind, peer, forwarded, pass)
       \/ \E s \in Slot : \/ ReadBody(s) \/ LoginOk(s) \/ CheckFails(s) \/ Counted(s)
                          \/ CountBreaks(s) \/ ClearBreaks(s) \/ AccountOk(s) \/ AccountSaved(s) \/ Dropped(s)
       \/ \E k \in cookies : SessionEnds(k)
       \/ \E ip \in Addr : BanEnds(ip) \/ CtlWhitelist(ip)
       \/ \E gone \in SUBSET bans : BansLost(gone)
       \/ HubStops \/ CtlPasswdReads \/ CtlPasswdWrites

-----------------------------------------------------------------------------
(* An address gets at most MaxFails - 1 wrong passwords checked, and one   *)
(* more for each request the hub serves at once, before it is banned: the  *)
(* ban is looked at when a request arrives and written 800 ms after its    *)
(* password turned out wrong (recordFail, server.js:315).  A stop of the   *)
(* hub or a broken write loses no count and no ban but those it meets: an  *)
(* address so spared is left out until its count starts over.              *)
TriesBounded ==
    \A a \in Addr \ spared : tried[a] <= MaxFails - 1 + Cardinality(Slot)

(* A change of the login ends every session made before it (the generation *)
(* in admin.js:6), also one that a login made while the change was being   *)
(* saved.  Two changes at the same time can write the same generation;     *)
(* this says nothing of a hub on which that happened.                      *)
ChangeEndsSessions ==
    ~crossed => \A k \in cookies : Valid(k) => k.made = changes
=============================================================================
