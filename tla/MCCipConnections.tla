-------------------------- MODULE MCCipConnections --------------------------
(* Small instances of CipConnections with the connection points the         *)
(* application configures: the exclusive owner and the listen-only          *)
(* connections produce one input assembly, the input-only ones another.     *)
EXTENDS CipConnections, TLC

MCPoint == [k \in Kinds \ {"explicit"} |-> IF k = "input" THEN "switches" ELSE "leds"]

\* One owner, one listen-only, two input-only and two explicit connections.
MCKind == <<"owner", "listen", "input", "input", "explicit", "explicit">>
MCSlots == 1..6

Symmetric == Permutations(Originators) \cup Permutations(Serials)
=============================================================================
