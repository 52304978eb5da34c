------------------------------ MODULE MCBitcask ------------------------------
(***************************************************************************)
(* Constant values for model checking Bitcask.  A value's entry takes two  *)
(* bytes, or three for a large value, which does not fit in the BufWriter, *)
(* and a tombstone's one, so that a byte range read at the wrong place is  *)
(* never mistaken for an entry.                                            *)
(***************************************************************************)
EXTENDS BitcaskRefinement, TLC

CONSTANT LargeValues

MCEntryLen ==
  [v \in Values \cup {NoValue} |-> IF v = NoValue THEN 1 ELSE IF v \in LargeValues THEN 3 ELSE 2]

Symmetry == Permutations(Threads) \cup Permutations(Values \ LargeValues)
=============================================================================
