----------------------------- MODULE MCOperator -----------------------------
(* Instances of Operator for TLC. *)
EXTENDS Operator, TLC

\* Instances without class and runtime options.
NoOption == [c \in Controllers |-> nil]

\* Instances sharded by an option: each one's value is its own name.
OwnName == [c \in Controllers |-> c]

ZoneSymmetry == Permutations(Zones)
=============================================================================
