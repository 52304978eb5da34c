----------------------------- MODULE FrameBytes -----------------------------
(***************************************************************************)
(* Connection's read buffer while bytes of any kind arrive one at a time,  *)
(* until a frame or an error is found in it and for one byte more (a read  *)
(* may return more than the frame).                                        *)
(***************************************************************************)
EXTENDS Frame

CONSTANTS
  Alphabet,  \* the bytes that arrive
  MaxBuffer  \* bound of the model: bytes in the buffer

ASSUME AlphabetAssumption == Alphabet \subseteq 0..255 /\ MaxBuffer \in Nat

VARIABLE buffer

Init == buffer = <<>>

\* read_buf appends a byte.
Receive(b) ==
  /\ Len(buffer) < MaxBuffer
  /\ buffer # <<>> => ParseFrame(Front(buffer)).st \in {"incomplete", "panic"}
  /\ buffer' = Append(buffer, b)

Next == \E b \in Alphabet : Receive(b)

Spec == Init /\ [][Next]_buffer

-----------------------------------------------------------------------------
(* Properties *)

\* Frame::check and Frame::parse walk over the same bytes: a frame that
\* both accept ends for parse where check said, inside the buffer.
\* Connection::parse_frame discards what check measured, so otherwise the
\* next frame would start in the middle of something.
AgreeOnLength ==
  LET check == Check(buffer, 0)
      frame == Parse(buffer, 0)
  IN  check.st = "ok" /\ frame.st = "ok" => check.pos = frame.pos /\ frame.pos <= Len(buffer)

\* What has been made of a buffer does not depend on how the bytes were
\* divided into reads: a frame found in it is the one found when more bytes
\* are there, and an error stays one.
DecidedStays ==
  [][LET before == ParseFrame(buffer)
     IN  before.st \in {"ok", "error"} => ParseFrame(buffer') = before]_buffer

\* The number that is written at p of the buffer.
Written(p) ==
  LET start == IF At(buffer, p) \in {PLUS, MINUS} THEN p + 1 ELSE p
      stop  == Min({i \in start..Len(buffer) : i = Len(buffer) \/ ~IsDigit(At(buffer, i))})
      val[i \in start..stop] == IF i = start THEN 0 ELSE 10 * val[i - 1] + At(buffer, i - 1) - 48
  IN  IF At(buffer, p) = MINUS THEN -val[stop] ELSE val[stop]

ExactFrom(positions) ==
  \A p \in positions : LET int == GetInteger(buffer, p) IN int.st = "ok" => int.val = Written(p)

\* An integer near the start of the buffer is read exactly or refused: the
\* digits that are added up unchecked cannot overflow (frame.rs:183).
IntegersExact == ExactFrom(0..(Len(buffer) - 1) \cap 0..(MaxSafeDigits - 1))
=============================================================================
