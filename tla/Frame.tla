-------------------------------- MODULE Frame --------------------------------
(***************************************************************************)
(* The RESP frames of src/src/net/frame.rs and how connection.rs writes    *)
(* and recognises them.  A buffer is a sequence of bytes and the cursor    *)
(* into it counts from 0, as std::io::Cursor does.                         *)
(*                                                                         *)
(* A frame is a pair of its kind and its content.  An i64 has IntBits bits *)
(* here, and MaxSafeDigits digits always fit, as 18 do in 64 bits.  The    *)
(* arithmetic is that of a release build: what is not checked wraps.       *)
(***************************************************************************)
EXTENDS Integers, Sequences, FiniteSets, SequencesExt, FiniteSetsExt

CONSTANTS
  IntBits,       \* bits of an i64
  MaxSafeDigits  \* max_safe_digits of get_integer

ASSUME IntAssumption == /\ IntBits \in Nat \ {0}
                        /\ MaxSafeDigits \in Nat /\ 10^MaxSafeDigits <= 2^(IntBits - 1)

CR     == 13
LF     == 10
PLUS   == 43
MINUS  == 45
COLON  == 58
DOLLAR == 36
STAR   == 42
CRLF   == <<CR, LF>>

IntMin  == -(2^(IntBits - 1))
IntMax  == 2^(IntBits - 1) - 1
InRange(n) == n \in IntMin..IntMax
Wrap(n) == ((n - IntMin) % 2^IntBits) + IntMin

\* What a read of the cursor results in: a value and where the cursor is
\* then, or an error.  "panic" is an index out of bounds.
Ok(v, p)   == [st |-> "ok", val |-> v, pos |-> p]
Failed(st) == [st |-> st, val |-> "none", pos |-> 0]
Incomplete == Failed("incomplete")
Bad        == Failed("error")

\* r? and then F(r).  TLC evaluates r once for the set.
Try(r, F(_)) == CHOOSE x \in {IF y.st = "ok" THEN F(y) ELSE y : y \in {r}} : TRUE

\* The byte at cursor position i.
At(buf, i) == buf[i + 1]

-----------------------------------------------------------------------------
(* Lines and integers *)

\* Mutant of LineEnd: the search goes backwards.
LastLineEnd(stops) == Max(stops)

\* Where the loop of get_line stops.
LineEnd(stops) == Min(stops)

\* get_line: up to a '\r' that is not the last byte; what follows it is
\* skipped unseen.
GetLine(buf, p) ==
  LET stops == {i \in p..(Len(buf) - 2) : At(buf, i) \in {CR, LF}}
      i     == LineEnd(stops)
  IN  IF stops = {} THEN Incomplete
      ELSE IF At(buf, i) = LF THEN Bad
      ELSE Ok(SubSeq(buf, p + 1, i), i + 2)

IsDigit(b) == b \in 48..57

\* Mutant of Unchecked: every digit is.
AlwaysUnchecked(start, i) == TRUE

\* The digit at i is read by the first loop of get_integer, which stops at
\* position max_safe_digits of the buffer if it starts before.
Unchecked(start, i) == start > MaxSafeDigits \/ i < MaxSafeDigits

\* num * 10 + d, or - d for a negative number; "none" once a checked
\* operation has overflowed.
NextNum(num, d, unchecked) ==
  IF num = {} THEN {}
  ELSE LET n == CHOOSE n \in num : TRUE
       IN  IF unchecked THEN {Wrap(10 * n + d)}
           ELSE IF InRange(10 * n) /\ InRange(10 * n + d) THEN {10 * n + d}
           ELSE {}

\* The number that the digits in start..stop-1 make, as an Option: {} or {n}.
Digits(buf, start, stop, sign) ==
  LET num[i \in start..stop] ==
        IF i = start THEN {0}
        ELSE NextNum(num[i - 1], sign * (At(buf, i - 1) - 48), Unchecked(start, i - 1))
  IN  num[stop]

\* get_integer: a sign, digits and '\r', and one more byte skipped unseen.
\* The last byte of the buffer is not looked at.  Behind a sign that ends the
\* buffer the first digit is read out of bounds.
GetInteger(buf, p) ==
  IF p >= Len(buf) THEN Incomplete
  ELSE LET start == IF At(buf, p) \in {PLUS, MINUS} THEN p + 1 ELSE p
           end   == Len(buf) - 1
           stop  == Min({i \in start..end : i = end \/ ~IsDigit(At(buf, i))})
           num   == Digits(buf, start, stop, IF At(buf, p) = MINUS THEN -1 ELSE 1)
       IN  IF start > end THEN Failed("panic")
           ELSE IF stop = end THEN Incomplete
           ELSE IF stop = start \/ At(buf, stop) # CR \/ num = {} THEN Bad
           ELSE Ok(CHOOSE n \in num : TRUE, stop + 2)

\* get_byte and peek_byte
HasByte(buf, p) == p < Len(buf)

Skip(buf, p, n) == IF Len(buf) - p < n THEN Incomplete ELSE Ok("none", p + n)

-----------------------------------------------------------------------------
(* Frame::check and Frame::parse *)

\* Mutant of NullLength: the '\n' is left behind.
NullLengthShort == 3

\* check takes "$-" for a null frame and skips "-1\r\n" without looking.
NullLength == 4

RECURSIVE Check(_, _), CheckItems(_, _, _)

CheckItems(buf, p, n) ==
  IF n <= 0 THEN Ok("none", p)
  ELSE Try(Check(buf, p), LAMBDA item : CheckItems(buf, item.pos, n - 1))

Check(buf, p) ==
  IF ~HasByte(buf, p) THEN Incomplete
  ELSE CASE At(buf, p) \in {PLUS, MINUS} -> GetLine(buf, p + 1)
         [] At(buf, p) = COLON -> GetInteger(buf, p + 1)
         [] At(buf, p) = DOLLAR ->
              IF ~HasByte(buf, p + 1) THEN Incomplete
              ELSE IF At(buf, p + 1) = MINUS THEN Skip(buf, p + 1, NullLength)
              ELSE Try(GetInteger(buf, p + 1), LAMBDA n :
                       IF n.val < 0 THEN Bad ELSE Skip(buf, n.pos, n.val + 2))
         [] At(buf, p) = STAR ->
              Try(GetInteger(buf, p + 1), LAMBDA n : CheckItems(buf, n.pos, n.val))
         [] OTHER -> Bad

\* Bytes that are part of no UTF-8 string.
NotUtf8 == {255}

\* A line as a String.
Text(kind, line) ==
  Try(line, LAMBDA l : IF Range(l.val) \cap NotUtf8 # {} THEN Bad ELSE Ok(<<kind, l.val>>, l.pos))

\* "$-": only "-1" stands for null.
Null(line) ==
  Try(line, LAMBDA l : IF l.val = <<MINUS, 49>> THEN Ok(<<"null", <<>>>>, l.pos) ELSE Bad)

\* A bulk string whose length has been read.
Bulk(buf, n) ==
  IF n.val < 0 THEN Bad
  ELSE IF n.val + 2 > Len(buf) - n.pos THEN Incomplete
  ELSE Ok(<<"bulk", SubSeq(buf, n.pos + 1, n.pos + n.val)>>, n.pos + n.val + 2)

RECURSIVE Parse(_, _), ParseItems(_, _, _, _)

ParseItems(buf, p, n, items) ==
  IF n = 0 THEN Ok(<<"array", items>>, p)
  ELSE Try(Parse(buf, p), LAMBDA item : ParseItems(buf, item.pos, n - 1, Append(items, item.val)))

Parse(buf, p) ==
  IF ~HasByte(buf, p) THEN Incomplete
  ELSE CASE At(buf, p) = PLUS  -> Text("simple", GetLine(buf, p + 1))
         [] At(buf, p) = MINUS -> Text("error", GetLine(buf, p + 1))
         [] At(buf, p) = COLON ->
              Try(GetInteger(buf, p + 1), LAMBDA n : Ok(<<"integer", n.val>>, n.pos))
         [] At(buf, p) = DOLLAR ->
              IF ~HasByte(buf, p + 1) THEN Incomplete
              ELSE IF At(buf, p + 1) = MINUS THEN Null(GetLine(buf, p + 1))
              ELSE Try(GetInteger(buf, p + 1), LAMBDA n : Bulk(buf, n))
         [] At(buf, p) = STAR ->
              Try(GetInteger(buf, p + 1), LAMBDA n :
                  IF n.val < 0 THEN Bad ELSE ParseItems(buf, n.pos, n.val, <<>>))
         [] OTHER -> Bad

\* Connection::parse_frame: a frame with the length check found, "incomplete"
\* (Ok(None)), "error" or "panic".
ParseFrame(buf) ==
  Try(Check(buf, 0), LAMBDA check :
      IF Parse(buf, 0).st = "incomplete" THEN Bad
      ELSE Try(Parse(buf, 0), LAMBDA frame : Ok(frame.val, check.pos)))

-----------------------------------------------------------------------------
(* Connection::write_frame *)

\* write_decimal
RECURSIVE Decimal(_)
Decimal(n) ==
  IF n < 0 THEN <<MINUS>> \o Decimal(-n)
  ELSE IF n < 10 THEN <<48 + n>>
  ELSE Decimal(n \div 10) \o <<48 + (n % 10)>>

\* write_single_value
EncodeSingle(f) ==
  CASE f[1] = "simple"  -> <<PLUS>> \o f[2] \o CRLF
    [] f[1] = "error"   -> <<MINUS>> \o f[2] \o CRLF
    [] f[1] = "integer" -> <<COLON>> \o Decimal(f[2]) \o CRLF
    [] f[1] = "null"    -> <<DOLLAR, MINUS, 49>> \o CRLF
    [] f[1] = "bulk"    -> <<DOLLAR>> \o Decimal(Len(f[2])) \o CRLF \o f[2] \o CRLF

\* write_array, and write_frame's choice; arrays do not nest.
Encode(f) ==
  IF f[1] = "array"
  THEN <<STAR>> \o Decimal(Len(f[2])) \o CRLF
         \o FlattenSeq([i \in DOMAIN f[2] |-> EncodeSingle(f[2][i])])
  ELSE EncodeSingle(f)
=============================================================================
