---------------------------- MODULE FrameChannel ----------------------------
(***************************************************************************)
(* What one direction of a Connection promises: frames come out whole,     *)
(* each once and in the order they went in.  The reader hears that the     *)
(* stream has ended only when it has every frame, unless the connection    *)
(* broke, which may lose the last ones.                                    *)
(***************************************************************************)
EXTENDS Naturals, Sequences

CONSTANTS Frames, MaxFrames

VARIABLES sent, got, writer, outcome

chvars == <<sent, got, writer, outcome>>

Init == sent = <<>> /\ got = <<>> /\ writer = "open" /\ outcome = "none"

Send(f) ==
  /\ writer = "open" /\ Len(sent) < MaxFrames
  /\ sent' = Append(sent, f)
  /\ UNCHANGED <<got, writer, outcome>>

End(how) ==
  /\ writer = "open"
  /\ writer' = how
  /\ UNCHANGED <<sent, got, outcome>>

Deliver ==
  /\ outcome = "none" /\ Len(got) < Len(sent)
  /\ got' = Append(got, sent[Len(got) + 1])
  /\ UNCHANGED <<sent, writer, outcome>>

EndOfStream ==
  /\ outcome = "none" /\ outcome' = "eof"
  /\ writer = "broken" \/ (writer = "closed" /\ got = sent)
  /\ UNCHANGED <<sent, got, writer>>

Reset ==
  /\ outcome = "none" /\ outcome' = "reset"
  /\ writer = "broken"
  /\ UNCHANGED <<sent, got, writer>>

Next ==
  \/ \E f \in Frames : Send(f)
  \/ End("closed") \/ End("broken")
  \/ Deliver \/ EndOfStream \/ Reset

Spec == Init /\ [][Next]_chvars
=============================================================================
