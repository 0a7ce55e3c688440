--------------------------- MODULE MCReplication ---------------------------
(* Instances of Replication for TLC. *)
EXTENDS Replication, TLC

\* No operator takes part.
NoOption == [c \in Controllers |-> nil]

ZoneSymmetry == Permutations(Zones)
=============================================================================
