-------------------------- MODULE MCBitcaskRecovery --------------------------
(***************************************************************************)
(* Constant values for model checking BitcaskRecovery.                     *)
(***************************************************************************)
EXTENDS BitcaskRecovery, TLC

MCEntryLen == [v \in Values \cup {NoValue} |-> IF v = NoValue THEN 1 ELSE 2]

Symmetry == Permutations(Threads) \cup Permutations(Values)
=============================================================================
