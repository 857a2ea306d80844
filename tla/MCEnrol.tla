------------------------------ MODULE MCEnrol -------------------------------
(***************************************************************************)
(* A small instance of the node store with linking: the hub's own node and *)
(* two more, one request to link.  One time unit is far longer than a poll *)
(* interval; the ids of added nodes are alike.                             *)
(***************************************************************************)
EXTENDS Link, TLC

Both == {{"add", "rename", "revoke", "rotate"}, {"link", "rename", "revoke"}}
AddedIds == Permutations(Id \ {Local})
=============================================================================
