----------------------------- MODULE MCConsole ------------------------------
(***************************************************************************)
(* A small instance of what a person at a browser meets: two requests at   *)
(* once and two addresses, one of them the proxy's; one page with the      *)
(* settings, and others that save; two calls of the alerts window; two     *)
(* nodes.                                                                  *)
(***************************************************************************)
EXTENDS Console, TLC

AllParts == Part
OnlyView == {"view"}
OnlyAuth == {"auth"}

(* Anyone calls and the login stays; or the login changes, and the clients *)
(* are on the whitelist; or writes of the counters break and the hub stops. *)
AllScenes == {[listed |-> {}, peers |-> Addr \cup {NoAddr}, changes |-> 0, faults |-> 0],
              [listed |-> Addr, peers |-> Addr \ {Proxy}, changes |-> 2, faults |-> 0],
              [listed |-> {Proxy}, peers |-> Addr \ {Proxy}, changes |-> 0, faults |-> 2]}

(* A behaviour is followed until no property says anything of what comes;  *)
(* a page has an import on the screen or a copy in its browser, not both.  *)
Covered ==
    /\ ~crossed /\ ~unlisted
    /\ \A p \in Page : beforeImport[p] = Nothing \/ local[p] = Nothing
=============================================================================
