------------------------------- MODULE Editor -------------------------------
(***************************************************************************)
(* The alerts window of the page (src/www/js/alerts.js): the list of       *)
(* alerts, the rule editor and the channel editor, against the hub's       *)
(* /__ctl/alerts endpoints.  A person goes on editing while a call is      *)
(* under way, calls overlap, and the hub may serve them in any order.      *)
(*                                                                         *)
(* What a tab shows is the set of changes that are in it: a person's       *)
(* edits, or for the list the alerts and mutes of the hub.                 *)
(***************************************************************************)
EXTENDS Naturals, FiniteSets

CONSTANTS
    Call,           \* calls of the page to the hub that can be under way at once
    MaxEdits        \* bound: changes

VARIABLES
    tab,            \* the tab that is open: "list", "rules" or "channels"
    rows,           \* what it shows
    dirty,          \* it has changes that were not sent
    call,           \* call -> what it asks, and the answer once the hub has served it
    stored,         \* what the hub has
    made,           \* history: changes made so far
    keep,           \* history: edits made at rest, or while only a save of channels ran
    overlapped      \* history: two calls were under way at once

editVars == <<tab, rows, dirty, call, stored, made, keep, overlapped>>

ASSUME EditsAssumption == MaxEdits \in Nat

Tab == {"list", "rules", "channels"}
Free == [op |-> "none"]
(* newest: no later call of loadAlerts has started (seq = alertsSeq)       *)
Asked(op, sent) == [op |-> op, sent |-> sent, served |-> FALSE, ok |-> FALSE, got |-> {}, newest |-> TRUE]

Running == {c \in Call : call[c] # Free}
Ended(c) == call[c] # Free /\ call[c].served

(* A call starts, in place of one that ended here or on its own.           *)
Begin(c, op, sent) ==
    /\ call' = [d \in Call |-> IF d = c THEN Asked(op, sent)
                               ELSE IF op = "load" /\ call[d] # Free THEN [call[d] EXCEPT !.newest = FALSE]
                               ELSE call[d]]
    /\ overlapped' = (overlapped \/ Running \ {c} # {})

Over(c) == call' = [call EXCEPT ![c] = Free] /\ UNCHANGED overlapped

-----------------------------------------------------------------------------
(* loadAlerts (also by the page's own ticks), loadRules and loadChannels   *)
(* when their tab is opened: with changes of its own a tab is only drawn.  *)
OpenTab(c) ==
    /\ call[c] = Free /\ ~dirty
    /\ Begin(c, "load", {})
    /\ UNCHANGED <<tab, rows, dirty, stored, made, keep>>

Edit ==
    /\ tab # "list" /\ made < MaxEdits
    /\ made' = made + 1
    /\ rows' = rows \cup {made'}
    /\ dirty' = TRUE
    /\ keep' = IF \A c \in Running : tab = "channels" /\ call[c].op = "save"
               THEN keep \cup {made'} ELSE keep
    /\ UNCHANGED <<tab, call, stored, overlapped>>

(* saveRules sends the rows and leaves them dirty; saveChannels takes them *)
(* as sent, and a change made from here on makes them dirty again.         *)
Save(c) ==
    /\ tab # "list" /\ call[c] = Free
    /\ Begin(c, "save", rows)
    /\ dirty' = IF tab = "channels" THEN FALSE ELSE dirty
    /\ UNCHANGED <<tab, rows, stored, made, keep>>

Revert(c) ==
    /\ tab # "list" /\ call[c] = Free
    /\ dirty' = FALSE
    /\ keep' = {}
    /\ Begin(c, "load", {})
    /\ UNCHANGED <<tab, rows, stored, made>>

(* testChannel: what is tested is what is saved                            *)
Test(c) ==
    /\ tab = "channels" /\ call[c] = Free /\ ~dirty
    /\ Begin(c, "test", {})
    /\ UNCHANGED <<tab, rows, dirty, stored, made, keep>>

(* muteAlert                                                               *)
Mute(c) ==
    /\ tab = "list" /\ call[c] = Free /\ made < MaxEdits
    /\ made' = made + 1
    /\ Begin(c, "mute", {made'})
    /\ UNCHANGED <<tab, rows, dirty, stored, keep>>

-----------------------------------------------------------------------------
(* The hub serves a call.                                                  *)
Serve(c) ==
    /\ call[c] # Free /\ ~call[c].served
    /\ stored' = CASE call[c].op = "save" -> call[c].sent
                   [] call[c].op = "mute" -> stored \cup call[c].sent
                   [] OTHER -> stored
    /\ call' = [call EXCEPT ![c].served = TRUE, ![c].ok = TRUE, ![c].got = stored']
    /\ UNCHANGED <<tab, rows, dirty, made, keep, overlapped>>

(* It refuses it, or the page gets no answer.                              *)
Fail(c) ==
    /\ call[c] # Free /\ (call[c].served => call[c].ok)
    /\ call' = [call EXCEPT ![c].served = TRUE, ![c].ok = FALSE, ![c].got = {}]
    /\ UNCHANGED <<tab, rows, dirty, stored, made, keep, overlapped>>

(* An alert starts or ends.                                                *)
HubMoves ==
    /\ tab = "list" /\ made < MaxEdits
    /\ made' = made + 1
    /\ stored' = stored \cup {made'}
    /\ UNCHANGED <<tab, rows, dirty, call, keep, overlapped>>

-----------------------------------------------------------------------------
(* Variant: the list draws whatever comes.                                 *)
DrawnAnyway(c) == call[c].ok

(* A late answer never draws over a newer one, in the list.  Where a load  *)
(* fails a line says so; the rows stay, and the next load draws them.      *)
Drawn(c) == call[c].ok /\ (tab = "list" => call[c].newest)

LoadAnswered(c) ==
    /\ Ended(c) /\ call[c].op = "load"
    /\ IF Drawn(c) THEN rows' = call[c].got /\ dirty' = FALSE ELSE UNCHANGED <<rows, dirty>>
    /\ Over(c)
    /\ UNCHANGED <<tab, stored, made, keep>>

(* Variant: the channels are clean when they are saved, not when sent.     *)
CleanWhenSaved(c) ==
    /\ Ended(c) /\ call[c].op = "save"
    /\ IF ~call[c].ok
       THEN dirty' = (dirty \/ tab = "channels") /\ Over(c)
       ELSE dirty' = FALSE /\ Begin(c, "load", {})
    /\ UNCHANGED <<tab, rows, stored, made, keep>>

(* saveRules and saveChannels go on: after a failure channels are dirty;   *)
(* else the editor loads what was saved, or with changes made meanwhile    *)
(* only the channels' status.                                              *)
SaveAnswered(c) ==
    /\ Ended(c) /\ call[c].op = "save"
    /\ IF ~call[c].ok
       THEN dirty' = (dirty \/ tab = "channels") /\ Over(c)
       ELSE /\ dirty' = IF tab = "rules" THEN FALSE ELSE dirty
            /\ Begin(c, IF dirty' THEN "status" ELSE "load", {})
    /\ UNCHANGED <<tab, rows, stored, made, keep>>

(* testChannel, then refreshStatus                                         *)
TestAnswered(c) ==
    /\ Ended(c) /\ call[c].op = "test"
    /\ Begin(c, "status", {})
    /\ UNCHANGED <<tab, rows, dirty, stored, made, keep>>

(* refreshStatus: without changes everything is loaded again.              *)
StatusAnswered(c) ==
    /\ Ended(c) /\ call[c].op = "status"
    /\ IF dirty THEN Over(c) ELSE Begin(c, "load", {})
    /\ UNCHANGED <<tab, rows, dirty, stored, made, keep>>

MuteAnswered(c) ==
    /\ Ended(c) /\ call[c].op = "mute"
    /\ Begin(c, "load", {})
    /\ UNCHANGED <<tab, rows, dirty, stored, made, keep>>

-----------------------------------------------------------------------------
EditInit ==
    /\ tab \in Tab
    /\ rows = {} /\ stored = {} /\ keep = {}
    /\ dirty = FALSE /\ overlapped = FALSE
    /\ call = [c \in Call |-> Free]
    /\ made = 0

EditNext ==
    \/ \E c \in Call : OpenTab(c) \/ Save(c) \/ Revert(c) \/ Test(c) \/ Mute(c)
    \/ \E c \in Call : Serve(c) \/ Fail(c)
    \/ \E c \in Call : \/ LoadAnswered(c) \/ SaveAnswered(c) \/ TestAnswered(c)
                       \/ StatusAnswered(c) \/ MuteAnswered(c)
    \/ Edit \/ HubMoves

-----------------------------------------------------------------------------
(* An edit stays in the editor until the hub has it or the person takes it *)
(* back, also one made while the channels are being saved ("edits made     *)
(* while it saved stay", alerts.js:396), and also when the save fails.  It *)
(* says nothing of an edit made while the editor loads, nor once two calls *)
(* overlapped: there edits can be lost.                                    *)
EditsKept == ~overlapped => keep \subseteq rows \cup stored

(* The list never goes back to what it showed before a newer answer        *)
(* (alertsSeq, alerts.js:83), in whatever order the hub and the network    *)
(* serve the calls.                                                        *)
ListNeverGoesBack == [][tab = "list" => rows \subseteq rows']_editVars
=============================================================================
