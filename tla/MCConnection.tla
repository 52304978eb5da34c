---------------------------- MODULE MCConnection ----------------------------
(***************************************************************************)
(* Model checking Connection with the frames that client and server send:  *)
(* a command, the replies of SET and DEL, a value with CRLF inside, an     *)
(* empty value and null.                                                   *)
(***************************************************************************)
EXTENDS Connection

BulkString(bytes) == <<"bulk", bytes>>

SentFrames ==
  { <<"array", <<BulkString(<<71>>), BulkString(<<107>>)>>>>,
    <<"simple", <<79, 75>>>>, <<"integer", 12>>,
    BulkString(<<CR, LF, DOLLAR>>), BulkString(<<>>), <<"null", <<>>>> }
=============================================================================
