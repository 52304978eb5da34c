--------------------------- MODULE MCWriterFaults ---------------------------
(***************************************************************************)
(* Model checking WriterFaults: a value takes two bytes, a tombstone one.  *)
(***************************************************************************)
EXTENDS WriterFaults, TLC

MCEntryLen == [v \in Values \cup {NoValue} |-> IF v = NoValue THEN 1 ELSE 2]

Symmetry == Permutations(Values)
=============================================================================
