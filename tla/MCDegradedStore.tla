--------------------------- MODULE MCDegradedStore ---------------------------
(* Instances of DegradedStore for TLC. *)
EXTENDS DegradedStore

CONSTANTS o1, o2, o3, o4, r1, r2

\* Two writes of one row, the others of another.
MCRow == [o \in Ops |-> IF o \in {o1, o2} THEN r1 ELSE r2]

=============================================================================
