---------------------------- MODULE MCZoneServer ----------------------------
(* Instances of ZoneServer for TLC. *)
EXTENDS ZoneServer, TLC

\* No operator takes part.
NoOption == [c \in Controllers |-> nil]

ServerSymmetry == Permutations(Zones) \cup Permutations(Obj)
=============================================================================
