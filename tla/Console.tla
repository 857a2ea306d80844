------------------------------ MODULE Console -------------------------------
(***************************************************************************)
(* The hub as a person at a browser meets it: logging in, the settings,    *)
(* the alerts window and the view of a node.  The four parts have no state *)
(* in common, so a behaviour of the whole is one of each; each behaviour   *)
(* here is about one part, chosen at the start.                            *)
(***************************************************************************)
EXTENDS Auth, Settings, Editor, View

CONSTANT Parts      \* the parts to look at

VARIABLE part

Part == {"auth", "settings", "editor", "view"}
ASSUME PartsAssumption == Parts \subseteq Part

vars == <<part, authVars, setVars, editVars, viewVars>>

(* The parts not looked at stay in one of their initial states.            *)
Init ==
    /\ part \in Parts
    /\ AuthInit /\ SetInit /\ EditInit /\ ViewInit
    /\ part # "auth" => scene = CHOOSE s \in Scenes : TRUE
    /\ part # "settings" => file = Unset /\ saved = Nothing
    /\ part # "editor" => tab = "list"
    /\ part # "view" => hash = None /\ known /\ sample = [n \in Node |-> 1]

Next ==
    /\ UNCHANGED part
    /\ \/ part = "auth" /\ AuthNext /\ UNCHANGED <<setVars, editVars, viewVars>>
       \/ part = "settings" /\ SetNext /\ UNCHANGED <<authVars, editVars, viewVars>>
       \/ part = "editor" /\ EditNext /\ UNCHANGED <<authVars, setVars, viewVars>>
       \/ part = "view" /\ ViewNext /\ UNCHANGED <<authVars, setVars, editVars>>

Spec == Init /\ [][Next]_vars
=============================================================================
