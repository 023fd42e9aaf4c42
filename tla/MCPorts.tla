------------------------------ MODULE MCPorts -------------------------------
(* Bounds for checking Ports with TLC: two profiles, one of them with two  *)
(* ports on the same card.                                                 *)
EXTENDS Ports, TLC

CONSTANTS f1, f2, n1, n2, n3, c1, c2

MCProfiles == {f1, f2}
MCRunning == {f1}
MCNames == {n1, n2, n3}
MCProfileOf == [n \in MCNames |-> IF n = n3 THEN f2 ELSE f1]
MCAlias == [n \in MCNames |-> IF n = n3 THEN c2 ELSE c1]
(* The two ports of the first profile on different cards. *)
MCTwoCards == [n \in MCNames |-> IF n = n1 THEN c1 ELSE c2]
(* The two ports of the first profile are alike. *)
Symmetry == Permutations({n1, n2})
=============================================================================
