--------------------------- MODULE MCBitcaskReopen ---------------------------
(***************************************************************************)
(* Model checking BitcaskReopen, with entries as in MCBitcask.             *)
(***************************************************************************)
EXTENDS BitcaskReopen

MCEntryLen == [v \in Values \cup {NoValue} |-> IF v = NoValue THEN 1 ELSE 2]
=============================================================================
