------------------------------ MODULE MCService ------------------------------
(***************************************************************************)
(* Model checking Service: a session that makes the calls of the client    *)
(* library, a del without keys among them, which cli.rs passes on, sends   *)
(* frames that are no commands, and gives up waiting; and one that sets    *)
(* one of the same keys meanwhile.                                         *)
(***************************************************************************)
EXTENDS Service, TLC

CONSTANTS k1, k2, v1, v2, s1, s2

GetOf(k)    == [op |-> "get", key |-> k]
SetOf(k, v) == [op |-> "set", key |-> k, val |-> v]
DelOf(ks)   == [op |-> "del", keys |-> ks]

Raw(items) == [op |-> "raw", frame |-> <<"array", items>>]

BadFrames == {Raw(<<Bulk("GET"), Bulk(k1), Bulk(k2)>>), Raw(<<Bulk("DEL"), Bulk(k1), Bulk(NotText)>>)}

MCCalls ==
  s1 :> {GetOf(k1), SetOf(k2, v1), DelOf(<<k1, k2>>), DelOf(<<>>)} \cup BadFrames
  @@ s2 :> {SetOf(k1, v2)}
=============================================================================
