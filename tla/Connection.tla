----------------------------- MODULE Connection -----------------------------
(***************************************************************************)
(* One direction of a connection (src/src/net/connection.rs): one peer     *)
(* calls write_frame, the other calls read_frame again and again.  The     *)
(* bytes between them arrive in pieces of any size.  The writer closes its *)
(* end between frames, or the connection breaks and the bytes under way    *)
(* are cut off somewhere.                                                  *)
(***************************************************************************)
EXTENDS Frame

CONSTANTS
  Frames,    \* what is written
  MaxFrames  \* bound of the model: frames written

VARIABLES
  sent,     \* the frames written
  writer,   \* the writing end: "open", "closed" or "broken"
  wire,     \* bytes written and not yet read
  buffer,   \* Connection.buffer
  pc,       \* read_frame: about to "parse" the buffer or to "read" more
  got,      \* the frames returned
  outcome   \* "none", or what ended the reading: "eof" (Ok(None)), "reset",
            \* "error" (of the frame's encoding) or "panic"

cvars == <<sent, writer, wire, buffer, pc, got, outcome>>

Init ==
  /\ sent = <<>> /\ got = <<>>
  /\ writer = "open" /\ outcome = "none"
  /\ wire = <<>> /\ buffer = <<>>
  /\ pc = "parse"

-----------------------------------------------------------------------------
(* The writing end *)

\* write_frame, which flushes.
WriteFrame(f) ==
  /\ writer = "open" /\ Len(sent) < MaxFrames
  /\ sent' = Append(sent, f)
  /\ wire' = wire \o Encode(f)
  /\ UNCHANGED <<writer, buffer, pc, got, outcome>>

Close ==
  /\ writer = "open"
  /\ writer' = "closed"
  /\ UNCHANGED <<sent, wire, buffer, pc, got, outcome>>

\* The peer or the network fails, inside write_frame or after it.
Break ==
  /\ writer = "open"
  /\ writer' = "broken"
  /\ \E n \in 0..Len(wire) : wire' = SubSeq(wire, 1, n)
  /\ UNCHANGED <<sent, buffer, pc, got, outcome>>

-----------------------------------------------------------------------------
(* read_frame *)

\* Mutant of Discarded: what follows the frame goes with it.
DiscardedAll(len) == <<>>

\* The buffer without the frame's len bytes.
Discarded(len) == SubSeq(buffer, len + 1, Len(buffer))

\* Mutant of NeedsMore: read_frame parses again without reading.
NeedsNothing == "parse"

\* parse_frame returned Ok(None): read_buf is next.
NeedsMore == "read"

ParseBuffer ==
  /\ outcome = "none" /\ pc = "parse"
  /\ \E r \in {ParseFrame(buffer)} :
         CASE r.st = "ok" ->
                /\ got' = Append(got, r.val)
                /\ buffer' = Discarded(r.pos)
                /\ UNCHANGED <<pc, outcome>>
           [] r.st = "incomplete" -> pc' = NeedsMore /\ UNCHANGED <<buffer, got, outcome>>
           [] OTHER -> outcome' = r.st /\ UNCHANGED <<buffer, pc, got>>
  /\ UNCHANGED <<sent, writer, wire>>

\* read_buf returns some of the bytes that have arrived.
ReadSome ==
  /\ outcome = "none" /\ pc = "read"
  /\ \E n \in 1..Len(wire) :
       /\ buffer' = buffer \o SubSeq(wire, 1, n)
       /\ wire' = SubSeq(wire, n + 1, Len(wire))
  /\ pc' = "parse"
  /\ UNCHANGED <<sent, writer, got, outcome>>

\* read_buf returns 0.
ReadNothing ==
  /\ outcome = "none" /\ pc = "read"
  /\ wire = <<>> /\ writer # "open"
  /\ outcome' = IF buffer = <<>> THEN "eof" ELSE "reset"
  /\ UNCHANGED <<sent, writer, wire, buffer, pc, got>>

\* read_buf fails.
ReadFails ==
  /\ outcome = "none" /\ pc = "read"
  /\ wire = <<>> /\ writer = "broken"
  /\ outcome' = "reset"
  /\ UNCHANGED <<sent, writer, wire, buffer, pc, got>>

-----------------------------------------------------------------------------

Next ==
  \/ \E f \in Frames : WriteFrame(f)
  \/ Close \/ Break
  \/ ParseBuffer \/ ReadSome \/ ReadNothing \/ ReadFails

\* The reader keeps calling read_frame; bytes written arrive.
Fairness == WF_cvars(ParseBuffer) /\ WF_cvars(ReadSome \/ ReadNothing \/ ReadFails)

Spec == Init /\ [][Next]_cvars /\ Fairness

-----------------------------------------------------------------------------
(* Properties *)

Channel == INSTANCE FrameChannel

\* However the bytes are divided, read_frame returns the frames that were
\* written, whole, once and in order, and Ok(None) only when it has returned
\* them all or the connection broke.
RefinesFrameChannel == Channel!Spec

\* No frame gets stuck in the buffer: unless the connection breaks, every
\* frame written is returned, without waiting for the bytes of a next one,
\* and a reader whose peer has closed is told.
FramesArrive ==
  /\ \A n \in 1..MaxFrames : Len(sent) >= n ~> Len(got) >= n \/ writer = "broken"
  /\ writer # "open" ~> outcome # "none"
=============================================================================
