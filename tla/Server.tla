------------------------------- MODULE Server -------------------------------
(***************************************************************************)
(* The RESP server's tasks (src/src/net/server.rs, shutdown.rs): the       *)
(* listener, which takes a permit of the connection semaphore before it    *)
(* accepts, one handler task per connection, and the shutdown that waits   *)
(* for the handlers.  Clients connect, send, read responses or do not,     *)
(* hang up and stay silent as they like; accept(2) fails for as long as    *)
(* the system is out of descriptors.  A command's effect on the storage is *)
(* that of a KVStore call; here it only takes its time and may fail.       *)
(***************************************************************************)
EXTENDS Integers, Sequences, FiniteSets

CONSTANTS
  Clients,                 \* the peers, each with one connection at a time
  MaxConnections,          \* conf.max_connections
  MinBackoff, MaxBackoff,  \* conf.min_backoff_ms, conf.max_backoff_ms
  Width,                   \* bits of the backoff, a u64 in the code
  MaxInbox                 \* bound of the model: frames sent and not read

ASSUME ClientsAssumption == "listener" \notin Clients
ASSUME LimitAssumption   == MaxConnections \in Nat /\ MaxInbox \in Nat
ASSUME BackoffAssumption == /\ Width \in Nat
                            /\ MinBackoff \in 0..(2^Width - 1)
                            /\ MaxBackoff \in 0..(2^Width - 1)

VARIABLES
  phase,    \* Server::run: "run" in the select, "drain", "exited"
  lpc,      \* Listener::listen: "permit", "accept", "sleep", "done"
  backoff,
  permits,  \* of the semaphore limit_connections
  tx,       \* who holds a Sender of shutdown_complete
  failing,  \* accept(2) fails
  conn,     \* a client's connection: "none"; "backlog" until accepted; its
            \* handler at "read" (the select), "apply", "reply", or "stuck"
            \* in a reply that the client does not read
  inbox,    \* frames the client has sent and the handler has not read
  eof       \* the client has hung up

svars == <<phase, lpc, backoff, permits, tx, failing, conn, inbox, eof>>

Serving  == {"read", "apply", "reply", "stuck"}
Handlers == {c \in Clients : conn[c] \in Serving}

Init ==
  /\ phase = "run"
  /\ lpc = "permit"
  /\ backoff = MinBackoff
  /\ permits = MaxConnections
  /\ tx = {"listener"}
  /\ failing = FALSE
  /\ conn = [c \in Clients |-> "none"]
  /\ inbox = [c \in Clients |-> <<>>]
  /\ eof = [c \in Clients |-> FALSE]

-----------------------------------------------------------------------------
(* Clients and the operating system *)

Connect(c) ==
  /\ conn[c] = "none" /\ phase # "exited"
  /\ conn' = [conn EXCEPT ![c] = "backlog"]
  /\ UNCHANGED <<phase, lpc, backoff, permits, tx, failing, inbox, eof>>

\* A command, or bytes that are no frame or no command.
Send(c, frame) ==
  /\ conn[c] # "none" /\ ~eof[c] /\ Len(inbox[c]) < MaxInbox
  /\ inbox' = [inbox EXCEPT ![c] = Append(@, frame)]
  /\ UNCHANGED <<phase, lpc, backoff, permits, tx, failing, conn, eof>>

\* The client closes its socket: writes to it fail from now on.
HangUp(c) ==
  /\ conn[c] # "none" /\ ~eof[c]
  /\ eof' = [eof EXCEPT ![c] = TRUE]
  /\ UNCHANGED <<phase, lpc, backoff, permits, tx, failing, conn, inbox>>

OutOfDescriptors ==
  /\ failing' = ~failing
  /\ UNCHANGED <<phase, lpc, backoff, permits, tx, conn, inbox, eof>>

-----------------------------------------------------------------------------
(* The listener *)

\* Semaphore::acquire, with the permit forgotten.
PermitTaken == permits - 1

Acquire ==
  /\ lpc = "permit" /\ permits > 0
  /\ permits' = PermitTaken
  /\ backoff' = MinBackoff
  /\ lpc' = "accept"
  /\ UNCHANGED <<phase, tx, failing, conn, inbox, eof>>

\* Mutant of SenderCloned: the handler gets none.
SenderNotCloned(c) == tx

\* The Senders once the handler of c has been given a clone.
SenderCloned(c) == tx \cup {c}

\* accept returns a socket and the handler's task is spawned.
Accept(c) ==
  /\ lpc = "accept" /\ ~failing
  /\ conn[c] = "backlog"
  /\ conn' = [conn EXCEPT ![c] = "read"]
  /\ tx' = SenderCloned(c)
  /\ lpc' = "permit"
  /\ UNCHANGED <<phase, backoff, permits, failing, inbox, eof>>

\* Mutant of SendersDropped: the listener's own Sender is kept.
SendersKept == tx

\* drop(notify_shutdown) and drop(shutdown_complete_tx)
SendersDropped == tx \ {"listener"}

\* The select of Server::run is left: the future of listen() is dropped.
Leave ==
  /\ phase' = "drain"
  /\ lpc' = "done"
  /\ tx' = SendersDropped

\* A connection waits to be accepted.
Pending == \E c \in Clients : conn[c] = "backlog"

\* accept, which waits for a connection, fails: the listener backs off, or
\* gives up and the server drains.
AcceptFails ==
  /\ lpc = "accept" /\ failing /\ Pending
  /\ IF backoff > MaxBackoff
     THEN Leave
     ELSE lpc' = "sleep" /\ UNCHANGED <<phase, tx>>
  /\ UNCHANGED <<backoff, permits, failing, conn, inbox, eof>>

\* Mutant of Doubled: the same wait each time.
NotDoubled(b) == b

\* backoff <<= 1
Doubled(b) == (2 * b) % 2^Width

BackoffOver ==
  /\ lpc = "sleep"
  /\ backoff' = Doubled(backoff)
  /\ lpc' = "accept"
  /\ UNCHANGED <<phase, permits, tx, failing, conn, inbox, eof>>

\* The shutdown future of Server::run (ctrl-c) finishes.
ShutdownRequested ==
  /\ phase = "run"
  /\ Leave
  /\ UNCHANGED <<backoff, permits, failing, conn, inbox, eof>>

\* shutdown_complete_rx.recv() returns None.
Exit ==
  /\ phase = "drain" /\ tx = {}
  /\ phase' = "exited"
  /\ UNCHANGED <<lpc, backoff, permits, tx, failing, conn, inbox, eof>>

-----------------------------------------------------------------------------
(* The handlers *)

\* Mutants of PermitReleased: it does not; it does so twice.
PermitKept == permits
PermitDoubled == permits + 2

\* Handler::drop gives the permit back.
PermitReleased == permits + 1

\* Handler::run returns, with an error or not, or unwinds: the handler is
\* dropped and its socket closed.
Drop(c) ==
  /\ conn' = [conn EXCEPT ![c] = "none"]
  /\ inbox' = [inbox EXCEPT ![c] = <<>>]
  /\ eof' = [eof EXCEPT ![c] = FALSE]
  /\ permits' = PermitReleased
  /\ tx' = tx \ {c}
  /\ UNCHANGED <<phase, lpc, backoff, failing>>

\* The read_frame branch of the select: a frame that holds a command is
\* applied in a blocking task, anything else is an error.
ReadFrame(c) ==
  /\ conn[c] = "read" /\ inbox[c] # <<>>
  /\ IF Head(inbox[c]) = "command"
     THEN /\ conn' = [conn EXCEPT ![c] = "apply"]
          /\ inbox' = [inbox EXCEPT ![c] = Tail(@)]
          /\ UNCHANGED <<phase, lpc, backoff, permits, tx, failing, eof>>
     ELSE Drop(c)

\* Mutant of EndOfStream: it is not noticed.
EndOfStreamMissed(c) == FALSE

\* read_buf returns 0.
EndOfStream(c) == eof[c] /\ inbox[c] = <<>>

\* read_frame finds the connection closed, between frames or inside one.
PeerClosed(c) ==
  /\ conn[c] = "read" /\ EndOfStream(c)
  /\ Drop(c)

\* Shutdown::recv: the broadcast channel has lost its only Sender.
ShutdownReceived == phase # "run"

\* The shutdown branch of the select.
HandlerShutdown(c) ==
  /\ conn[c] = "read" /\ ShutdownReceived
  /\ Drop(c)

\* The blocking task has run the command on the storage; a storage error or
\* a panic of the task ends the handler.
Apply(c) ==
  /\ conn[c] = "apply"
  /\ \/ /\ conn' = [conn EXCEPT ![c] = "reply"]
        /\ UNCHANGED <<phase, lpc, backoff, permits, tx, failing, inbox, eof>>
     \/ Drop(c)

\* write_frame sends the response, or fails once the peer is gone.  A response
\* that is larger than the buffers waits for the peer to read, without a
\* timeout and without heeding the shutdown (_shutdown in Command::apply).
Reply(c) ==
  /\ conn[c] = "reply"
  /\ \/ /\ \E s \in {"read", "stuck"} : conn' = [conn EXCEPT ![c] = s]
        /\ UNCHANGED <<phase, lpc, backoff, permits, tx, failing, inbox, eof>>
     \/ eof[c] /\ Drop(c)

\* The peer reads after all, and write_frame returns.
PeerReads(c) ==
  /\ conn[c] = "stuck" /\ ~eof[c]
  /\ conn' = [conn EXCEPT ![c] = "read"]
  /\ UNCHANGED <<phase, lpc, backoff, permits, tx, failing, inbox, eof>>

\* The peer has gone, and write_frame fails.
ReplyFails(c) ==
  /\ conn[c] = "stuck" /\ eof[c]
  /\ Drop(c)

-----------------------------------------------------------------------------

Next ==
  \/ \E c \in Clients :
       \/ Connect(c) \/ HangUp(c) \/ \E frame \in {"command", "garbage"} : Send(c, frame)
       \/ Accept(c)
       \/ ReadFrame(c) \/ PeerClosed(c) \/ HandlerShutdown(c)
       \/ Apply(c) \/ Reply(c) \/ PeerReads(c) \/ ReplyFails(c)
  \/ OutOfDescriptors
  \/ Acquire \/ AcceptFails \/ BackoffOver
  \/ ShutdownRequested \/ Exit

Spec == Init /\ [][Next]_svars

(* Tasks that can run do run, and the storage answers.  A select polls its *)
(* branches in random order, so a branch ready again and again is taken:   *)
(* strong fairness of HandlerShutdown.  A reply to a peer that is gone     *)
(* fails.  Nothing is assumed of when clients connect, send, read or hang  *)
(* up, nor of the shutdown future.                                         *)
Fairness ==
  /\ WF_svars(Acquire) /\ WF_svars(AcceptFails) /\ WF_svars(BackoffOver) /\ WF_svars(Exit)
  /\ \A c \in Clients : /\ WF_svars(ReadFrame(c) \/ PeerClosed(c))
                        /\ SF_svars(HandlerShutdown(c))
                        /\ WF_svars(Apply(c)) /\ WF_svars(Reply(c)) /\ WF_svars(ReplyFails(c))

LiveSpec == Spec /\ Fairness

-----------------------------------------------------------------------------
(* Properties *)

\* Type invariant.  The permits never exceed max_connections.
TypeOK ==
  /\ phase \in {"run", "drain", "exited"}
  /\ lpc \in {"permit", "accept", "sleep", "done"}
  /\ backoff \in 0..(2^Width - 1)
  /\ permits \in 0..MaxConnections
  /\ tx \subseteq Clients \cup {"listener"}
  /\ failing \in BOOLEAN
  /\ conn \in [Clients -> {"none", "backlog"} \cup Serving]
  /\ inbox \in [Clients -> Seq({"command", "garbage"})]
  /\ \A c \in Clients : Len(inbox[c]) <= MaxInbox
  /\ eof \in [Clients -> BOOLEAN]

\* No permit is lost or doubled while the server runs, on whatever path a
\* handler ends: each is in the semaphore, with the listener or with one
\* handler.  So at most max_connections clients are served at once, and the
\* listener does not starve for permits that nobody holds.
PermitsConserved ==
  LET withListener == IF lpc \in {"accept", "sleep"} THEN 1 ELSE 0
  IN  phase = "run" => permits + withListener + Cardinality(Handlers) = MaxConnections

\* The server exits only when no handler is left, in particular none in the
\* middle of a storage operation ("wait for all connections to complete
\* processing before shutting down", server.rs:53).
ExitsAfterHandlers == phase = "exited" => Handlers = {}

\* Once the shutdown has begun, the server does not stay in it but exits, unless
\* a client never reads its response: no handler waits for a client that stays silent, and none
\* serves a talkative one for ever.  (A response that is never read blocks the
\* exit, although Command::apply takes the shutdown in order "to finish its
\* execution when the server is shutting down", command.rs:52.)
ShutdownCompletes ==
  (\A c \in Clients : []<>(conn[c] # "stuck")) => []<>(phase # "drain")

\* While accept keeps failing on a connection that waits, the listener does
\* not retry for ever (the doc of Listener::accept, server.rs:154).
ListenerGivesUp == lpc \in {"accept", "sleep"} /\ Pending /\ []failing ~> phase # "run"

\* The handler of a client that has hung up ends, so that the listener gets
\* its permit back.
HangUpsFreePermits == \A c \in Clients : c \in Handlers /\ eof[c] ~> c \notin Handlers
=============================================================================
