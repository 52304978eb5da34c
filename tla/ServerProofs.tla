---------------------------- MODULE ServerProofs ----------------------------
(***************************************************************************)
(* Proofs about Server for every set of clients, every max_connections and *)
(* every backoff: the type invariant, the account of the connection        *)
(* permits, and that the server outlives its handlers.                     *)
(***************************************************************************)
EXTENDS Server, FiniteSetTheorems, TLAPS

\* The permits the listener holds: the one it took for the connection it is
\* about to accept.
WithListener == IF lpc \in {"accept", "sleep"} THEN 1 ELSE 0

\* The permits are accounted for while the server runs; later the listener's
\* permit may be gone with its future, so that the account only bounds them.
PermitInv ==
  /\ IsFiniteSet(Handlers)
  /\ permits + WithListener + Cardinality(Handlers) <= MaxConnections
  /\ phase = "run" => permits + WithListener + Cardinality(Handlers) = MaxConnections

\* The Senders of shutdown_complete are those of the handlers, and the
\* listener's own for as long as its future lives.
SenderInv ==
  /\ lpc = "done" <=> phase # "run"
  /\ tx = Handlers \cup {l \in {"listener"} : phase = "run"}

IndInv == TypeOK /\ PermitInv /\ SenderInv

-----------------------------------------------------------------------------
(* Handlers: what changing one connection does to the set and its size *)

\* A connection that gains a handler (accept).
LEMMA HandlerAdded ==
  ASSUME TypeOK, IsFiniteSet(Handlers), NEW c \in Clients, c \notin Handlers,
         NEW s \in Serving, conn' = [conn EXCEPT ![c] = s]
  PROVE  /\ Handlers' = Handlers \cup {c}
         /\ IsFiniteSet(Handlers')
         /\ Cardinality(Handlers') = Cardinality(Handlers) + 1
<1>1. Handlers' = Handlers \cup {c}
  BY DEF Handlers, Serving, TypeOK
<1> QED
  BY <1>1, FS_AddElement

\* A connection whose handler is dropped.
LEMMA HandlerDropped ==
  ASSUME TypeOK, IsFiniteSet(Handlers), NEW c \in Handlers,
         conn' = [conn EXCEPT ![c] = "none"]
  PROVE  /\ Handlers' = Handlers \ {c}
         /\ IsFiniteSet(Handlers')
         /\ Cardinality(Handlers') = Cardinality(Handlers) - 1
<1>1. Handlers' = Handlers \ {c}
  BY DEF Handlers, Serving, TypeOK
<1> QED
  BY <1>1, FS_RemoveElement

\* A handler that goes from one of its states to another, or a connection
\* without one that waits in the backlog.
LEMMA HandlerKept ==
  ASSUME TypeOK, NEW c \in Clients,
         \/ c \in Handlers /\ \E s \in Serving : conn' = [conn EXCEPT ![c] = s]
         \/ c \notin Handlers /\ conn' = [conn EXCEPT ![c] = "backlog"]
         \/ conn' = conn
  PROVE  Handlers' = Handlers
BY DEF Handlers, Serving, TypeOK

\* Doubling a backoff of Width bits leaves one of Width bits.
LEMMA DoubledType ==
  ASSUME NEW b \in 0..(2^Width - 1)
  PROVE  Doubled(b) \in 0..(2^Width - 1)
BY BackoffAssumption DEF Doubled

-----------------------------------------------------------------------------
(* The steps *)

\* The server starts with all permits and the listener's Sender.
LEMMA InitEstablishes == Init => IndInv
<1> SUFFICES ASSUME Init PROVE IndInv
  OBVIOUS
<1>1. Handlers = {}
  BY DEF Init, Handlers, Serving
<1>2. TypeOK
  <2>1. /\ inbox \in [Clients -> Seq({"command", "garbage"})]
        /\ \A c \in Clients : Len(inbox[c]) <= MaxInbox
    BY LimitAssumption DEF Init
  <2>2. failing \in BOOLEAN /\ eof \in [Clients -> BOOLEAN]
    BY DEF Init
  <2> QED
    BY <2>1, <2>2, BackoffAssumption, LimitAssumption DEF Init, TypeOK
<1>3. PermitInv
  BY <1>1, FS_EmptySet, LimitAssumption DEF Init, PermitInv, WithListener
<1>4. SenderInv
  BY <1>1 DEF Init, SenderInv
<1> QED
  BY <1>2, <1>3, <1>4 DEF IndInv

\* The end of a handler, on whatever path: its permit and its Sender go with it.
LEMMA DropStep ==
  ASSUME IndInv, NEW c \in Handlers, Drop(c)
  PROVE  IndInv'
<1> USE DEF IndInv, Drop, PermitReleased
<1>1. /\ Handlers' = Handlers \ {c}
      /\ IsFiniteSet(Handlers')
      /\ Cardinality(Handlers') = Cardinality(Handlers) - 1
  BY HandlerDropped DEF PermitInv
<1>2. Cardinality(Handlers) \in Nat /\ Cardinality(Handlers') \in Nat
  BY <1>1, FS_CardinalityType DEF PermitInv
<1>3. c \in Clients /\ c # "listener"
  BY ClientsAssumption DEF Handlers, Serving
<1>4. WithListener' = WithListener /\ WithListener \in {0, 1}
  BY DEF WithListener
<1>5. permits' \in 0..MaxConnections
  BY <1>1, <1>2, <1>4, LimitAssumption DEF PermitInv, TypeOK
<1>6. TypeOK'
  BY <1>3, <1>5, LimitAssumption DEF TypeOK, Serving
<1>7. PermitInv'
  BY <1>1, <1>2, <1>4, LimitAssumption DEF PermitInv, TypeOK
<1>8. SenderInv'
  BY <1>1, <1>3 DEF SenderInv
<1> QED
  BY <1>6, <1>7, <1>8

\* Every step keeps permits and Senders counted.
LEMMA NextKeeps == IndInv /\ [Next]_svars => IndInv'
<1> SUFFICES ASSUME IndInv, [Next]_svars PROVE IndInv'
  OBVIOUS
<1> USE DEF IndInv
<1>t. WithListener \in {0, 1} /\ Cardinality(Handlers) \in Nat /\ permits \in Nat
  BY FS_CardinalityType, LimitAssumption DEF WithListener, PermitInv, TypeOK
<1>1. ASSUME NEW c \in Clients, Connect(c) PROVE IndInv'
  <2> USE <1>1 DEF Connect
  <2>1. Handlers' = Handlers
    BY HandlerKept DEF Handlers, Serving
  <2> QED
    BY <2>1 DEF TypeOK, PermitInv, WithListener, SenderInv
<1>2. ASSUME NEW c \in Clients, HangUp(c) PROVE IndInv'
  <2> USE <1>2 DEF HangUp
  <2>1. Handlers' = Handlers
    BY HandlerKept
  <2> QED
    BY <2>1 DEF TypeOK, PermitInv, WithListener, SenderInv
<1>3. ASSUME NEW c \in Clients, NEW frame \in {"command", "garbage"}, Send(c, frame) PROVE IndInv'
  <2> USE <1>3 DEF Send
  <2>1. Handlers' = Handlers
    BY HandlerKept
  <2>2. /\ Append(inbox[c], frame) \in Seq({"command", "garbage"})
        /\ Len(Append(inbox[c], frame)) = Len(inbox[c]) + 1
    BY DEF TypeOK, Serving
  <2>3. Len(inbox[c]) \in Nat
    BY DEF TypeOK, Serving
  <2>4. TypeOK'
    BY <2>2, <2>3, LimitAssumption DEF TypeOK, Serving
  <2> QED
    BY <2>1, <2>4 DEF PermitInv, WithListener, SenderInv
<1>4. ASSUME NEW c \in Clients, Accept(c) PROVE IndInv'
  <2> USE <1>4 DEF Accept, SenderCloned
  <2>1. c \notin Handlers
    BY DEF Handlers, Serving
  <2>2. /\ Handlers' = Handlers \cup {c}
        /\ IsFiniteSet(Handlers')
        /\ Cardinality(Handlers') = Cardinality(Handlers) + 1
    BY <2>1, HandlerAdded DEF PermitInv, Serving
  <2>3. WithListener = 1 /\ WithListener' = 0
    BY DEF WithListener
  <2>4. TypeOK'
    BY DEF TypeOK, Serving
  <2>5. PermitInv'
    BY <1>t, <2>2, <2>3, LimitAssumption DEF PermitInv
  <2>6. SenderInv'
    BY <2>2, ClientsAssumption DEF SenderInv
  <2> QED
    BY <2>4, <2>5, <2>6
<1>5. ASSUME NEW c \in Clients, ReadFrame(c) PROVE IndInv'
  <2> USE <1>5 DEF ReadFrame
  <2>h. c \in Handlers
    BY DEF Handlers, Serving
  <2>1. CASE Head(inbox[c]) = "command"
    <3>1. Handlers' = Handlers
      BY <2>1, <2>h, HandlerKept DEF Serving
    <3>2. /\ inbox[c] \in Seq({"command", "garbage"}) /\ inbox[c] # <<>>
          /\ inbox' = [inbox EXCEPT ![c] = Tail(inbox[c])]
      BY <2>1 DEF TypeOK, Serving
    <3>3. /\ Tail(inbox[c]) \in Seq({"command", "garbage"})
          /\ Len(Tail(inbox[c])) = Len(inbox[c]) - 1 /\ Len(inbox[c]) \in Nat
      BY <3>2
    <3>4. /\ inbox' \in [Clients -> Seq({"command", "garbage"})]
          /\ \A d \in Clients : Len(inbox'[d]) <= MaxInbox
      BY <3>2, <3>3, LimitAssumption DEF TypeOK
    <3>5. conn' \in [Clients -> {"none", "backlog"} \cup Serving]
      BY <2>1 DEF TypeOK, Serving
    <3>6. TypeOK'
      BY <2>1, <3>4, <3>5 DEF TypeOK
    <3> QED
      BY <2>1, <3>1, <3>6 DEF PermitInv, WithListener, SenderInv
  <2>2. CASE Head(inbox[c]) # "command"
    BY <2>2, <2>h, DropStep
  <2> QED
    BY <2>1, <2>2
<1>6. ASSUME NEW c \in Clients, PeerClosed(c) \/ HandlerShutdown(c) \/ ReplyFails(c) PROVE IndInv'
  BY <1>6, DropStep DEF PeerClosed, HandlerShutdown, ReplyFails, Handlers, Serving
<1>7. ASSUME NEW c \in Clients, Apply(c) \/ Reply(c) \/ PeerReads(c) PROVE IndInv'
  <2>h. c \in Handlers
    BY <1>7 DEF Apply, Reply, PeerReads, Handlers, Serving
  <2>1. CASE Drop(c)
    BY <2>1, <2>h, DropStep
  <2>2. CASE ~Drop(c)
    <3>1. /\ \E s \in {"read", "reply", "stuck"} : conn' = [conn EXCEPT ![c] = s]
          /\ UNCHANGED <<phase, lpc, backoff, permits, tx, failing, inbox, eof>>
      BY <1>7, <2>2 DEF Apply, Reply, PeerReads
    <3>2. Handlers' = Handlers
      BY <3>1, <2>h, HandlerKept DEF Serving
    <3> QED
      BY <3>1, <3>2 DEF TypeOK, PermitInv, WithListener, SenderInv, Serving
  <2> QED
    BY <2>1, <2>2
<1>8. CASE OutOfDescriptors
  BY <1>8 DEF OutOfDescriptors, TypeOK, PermitInv, WithListener, SenderInv, Handlers
<1>9. CASE Acquire
  <2> USE <1>9 DEF Acquire, PermitTaken
  <2>1. Handlers' = Handlers /\ WithListener = 0 /\ WithListener' = 1
    BY DEF Handlers, WithListener
  <2>2. TypeOK'
    BY <1>t, BackoffAssumption, LimitAssumption DEF TypeOK, Serving
  <2>3. PermitInv'
    BY <1>t, <2>1, LimitAssumption DEF PermitInv
  <2> QED
    BY <2>1, <2>2, <2>3 DEF SenderInv
<1>10. CASE AcceptFails \/ ShutdownRequested
  <2> USE <1>10 DEF AcceptFails, ShutdownRequested, Leave, SendersDropped
  <2>1. Handlers' = Handlers /\ permits' = permits
    BY DEF Handlers, Serving
  <2>2. TypeOK'
    BY DEF TypeOK, Serving
  <2>3. PermitInv'
    <3>1. WithListener' \in {0, 1} /\ WithListener' <= WithListener
      BY DEF WithListener
    <3>2. phase' = "run" => phase = "run" /\ WithListener' = WithListener
      BY DEF WithListener, SenderInv
    <3> QED
      BY <1>t, <2>1, <3>1, <3>2, LimitAssumption DEF PermitInv
  <2>4. SenderInv'
    BY <2>1, ClientsAssumption DEF SenderInv, Handlers
  <2> QED
    BY <2>2, <2>3, <2>4
<1>11. CASE BackoffOver
  <2> USE <1>11 DEF BackoffOver
  <2>1. Handlers' = Handlers /\ WithListener' = WithListener
    BY DEF Handlers, WithListener
  <2>2. TypeOK'
    BY DoubledType DEF TypeOK, Serving
  <2> QED
    BY <2>1, <2>2 DEF PermitInv, SenderInv
<1>12. CASE Exit
  BY <1>12 DEF Exit, TypeOK, PermitInv, WithListener, SenderInv, Handlers
<1>13. CASE UNCHANGED svars
  BY <1>13 DEF svars, TypeOK, PermitInv, WithListener, SenderInv, Handlers
<1> QED
  BY <1>1, <1>2, <1>3, <1>4, <1>5, <1>6, <1>7, <1>8, <1>9, <1>10, <1>11, <1>12, <1>13 DEF Next

-----------------------------------------------------------------------------
(* The theorems *)

\* IndInv holds in every state of every behaviour.
THEOREM InvariantHolds == Spec => []IndInv
BY InitEstablishes, NextKeeps, PTL DEF Spec

\* Every variable keeps its type; the backoff stays within its bits and the
\* semaphore never holds more permits than max_connections.
THEOREM TypeCorrect == Spec => []TypeOK
<1>1. IndInv => TypeOK
  BY DEF IndInv
<1> QED
  BY <1>1, InvariantHolds, PTL

\* Whatever the order in which handlers end, by an error, a closed peer, a
\* failed command or the shutdown, no permit is lost or doubled while the
\* server runs.
THEOREM PermitsCorrect == Spec => []PermitsConserved
<1>1. IndInv => PermitsConserved
  BY DEF IndInv, PermitInv, PermitsConserved, WithListener
<1> QED
  BY <1>1, InvariantHolds, PTL

\* The server reports its end only when no handler is left: the Senders of
\* shutdown_complete are exactly those of the handlers by then.
THEOREM ExitCorrect == Spec => []ExitsAfterHandlers
<1>1. (IndInv /\ [Next]_svars) /\ ExitsAfterHandlers => ExitsAfterHandlers'
  <2> SUFFICES ASSUME IndInv, [Next]_svars, ExitsAfterHandlers, phase' = "exited"
               PROVE  Handlers' = {}
    BY DEF ExitsAfterHandlers
  <2>1. CASE phase # "exited"
    <3>1. Exit
      BY <2>1 DEF Next, svars, Connect, HangUp, Send, Accept, ReadFrame, PeerClosed, Drop,
                  HandlerShutdown, Apply, Reply, PeerReads, ReplyFails, OutOfDescriptors, Acquire, AcceptFails, Leave,
                  BackoffOver, ShutdownRequested, IndInv, TypeOK
    <3> QED
      BY <3>1 DEF Exit, IndInv, SenderInv, Handlers
  <2>2. CASE phase = "exited"
    <3>1. Handlers = {} /\ lpc = "done"
      BY <2>2 DEF ExitsAfterHandlers, IndInv, SenderInv
    <3>2. \A c \in Clients : conn[c] \notin Serving
      BY <3>1 DEF Handlers, Serving
    <3>3. UNCHANGED conn
      BY <2>2, <3>1, <3>2
         DEF Next, svars, Connect, HangUp, Send, Accept, ReadFrame, PeerClosed,
             HandlerShutdown, Apply, Reply, PeerReads, ReplyFails, OutOfDescriptors, Acquire, AcceptFails,
             BackoffOver, ShutdownRequested, Exit, Serving
    <3> QED
      BY <3>1, <3>3 DEF Handlers, Serving
  <2> QED
    BY <2>1, <2>2
<1>2. Init => ExitsAfterHandlers
  BY DEF Init, ExitsAfterHandlers
<1> QED
  BY <1>1, <1>2, InvariantHolds, PTL DEF Spec

\* No more than max_connections clients are served at once, in the drain of
\* a shutdown too, where the listener's own permit may be lost.
THEOREM ServedBounded == Spec => [](Cardinality(Handlers) <= MaxConnections)
<1>1. IndInv => Cardinality(Handlers) <= MaxConnections
  BY FS_CardinalityType, LimitAssumption DEF IndInv, TypeOK, PermitInv, WithListener
<1> QED
  BY <1>1, InvariantHolds, PTL
=============================================================================
