---------------------------- MODULE AlertStream ----------------------------
(***************************************************************************)
(* What the alert engine promises to whoever receives its events: for each *)
(* alert a start, then repeats at least Repeat apart, then one end.  An    *)
(* end is never passed on without its start, a start never twice.          *)
(***************************************************************************)
EXTENDS Integers

CONSTANTS
    Key,     \* the alerts
    Repeat   \* least time between two notices of one alert

VARIABLES
    clock,    \* the time
    event,    \* key -> the event passed on in the last step, "none" for none
    open,     \* key -> a start was passed on and no end yet
    openedAt  \* key -> time of the last start or repeat, 0 while not open

streamVars == <<clock, event, open, openedAt>>

Start(k) == /\ ~open[k]
            /\ event'[k] = "firing"
            /\ open'[k]
            /\ openedAt'[k] = clock

Again(k) == /\ open[k]
            /\ clock - openedAt[k] >= Repeat
            /\ event'[k] = "repeat"
            /\ open'[k]
            /\ openedAt'[k] = clock

Finish(k) == /\ open[k]
             /\ event'[k] = "resolved"
             /\ ~open'[k]
             /\ openedAt'[k] = 0

Still(k) == /\ event'[k] = "none"
            /\ open'[k] = open[k]
            /\ openedAt'[k] = openedAt[k]

Init == /\ clock = 0
        /\ event = [k \in Key |-> "none"]
        /\ open = [k \in Key |-> FALSE]
        /\ openedAt = [k \in Key |-> 0]

(* Several alerts can change in one step: a push judges every rule.        *)
Next == /\ clock' >= clock
        /\ \A k \in Key : Start(k) \/ Again(k) \/ Finish(k) \/ Still(k)

Spec == Init /\ [][Next]_streamVars
=============================================================================
