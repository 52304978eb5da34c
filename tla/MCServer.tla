------------------------------ MODULE MCServer ------------------------------
(***************************************************************************)
(* Model checking Server: more clients than permits.                       *)
(***************************************************************************)
EXTENDS Server
=============================================================================
