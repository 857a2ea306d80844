------------------------------ MODULE MCIngest ------------------------------
(***************************************************************************)
(* A small instance of the history: a fine tier of three minutes, a coarse *)
(* one of three times two, two series of which one can have a file.        *)
(***************************************************************************)
EXTENDS Ingest

SamplesOf == [f \in Fault |-> IF f \in {"disk", "clock", "names"} THEN 1 ELSE 2]
MinutesOf == [f \in Fault |-> CASE f = "host" -> 0 [] f = "names" -> 2
                                [] f \in {"clock", "back"} -> 6 [] OTHER -> 7]
=============================================================================
