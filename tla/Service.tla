------------------------------- MODULE Service -------------------------------
(***************************************************************************)
(* Client library, commands and handlers together (src/src/net/client.rs,  *)
(* command.rs, command/*.rs, Handler::run of server.rs), over a storage    *)
(* that is a KVStore.  Each session is one Client with its connection and  *)
(* the server's handler for it.  A connection carries whole frames in      *)
(* order (FrameChannel); Server has the listener, which here accepts at    *)
(* once, and the end of the process, which comes after all handlers'.      *)
(***************************************************************************)
EXTENDS Naturals, Sequences

CONSTANTS
  Sessions, Keys, Values, NoValue,
  NotText,     \* bytes that are no UTF-8 string
  Calls,       \* session -> the calls made
  Cancels,     \* sessions whose callers may drop the future of a call
  MaxRequests  \* bound of the model: requests and responses not read

VARIABLES
  store,    \* the storage: key -> value
  serving,  \* no shutdown has been requested
  link,     \* session -> "none", "open", or "closed" by either end
  st,       \* session -> "idle", or "waiting" for a response
  call,     \* session -> the call it makes
  result,   \* session -> what its last call returned
  up, down, \* session -> frames on their way to the server, to the client
  hpc,      \* session -> its handler: "none", "read" (the select) or "apply"
  todo,     \* session -> operations of its command yet to be done
  answer,   \* session -> the result of those done
  stray     \* history: session -> a call of it was cancelled

vars == <<store, serving, link, st, call, result, up, down, hpc, todo, answer, stray>>
server == <<store, hpc, todo, answer>>
client == <<st, call, result, stray>>

\* The operations on the storage, by the names of KVStore.  Each is one atomic
\* step: a get that misses a key being replaced (KVStore!GetMisses) is left out.
KV == INSTANCE KVStore WITH Threads <- Sessions, up <- TRUE, shut <- FALSE, ret <- result,
                            moving <- {}

NoCall == [op |-> "none"]

Init ==
  /\ store = [k \in Keys |-> NoValue]
  /\ serving = TRUE
  /\ link = [s \in Sessions |-> "none"]
  /\ st = [s \in Sessions |-> "idle"]
  /\ call = [s \in Sessions |-> NoCall]
  /\ result = [s \in Sessions |-> <<"none">>]
  /\ up = [s \in Sessions |-> <<>>]
  /\ down = [s \in Sessions |-> <<>>]
  /\ hpc = [s \in Sessions |-> "none"]
  /\ todo = [s \in Sessions |-> <<>>]
  /\ answer = [s \in Sessions |-> <<"none">>]
  /\ stray = [s \in Sessions |-> FALSE]

-----------------------------------------------------------------------------
(* Commands and frames *)

Bulk(b) == <<"bulk", b>>

\* From<Set>, From<Get> and From<Del> for Frame
SetFrame(key, val) == <<"array", <<Bulk("SET"), Bulk(key), Bulk(val)>>>>
GetFrame(key)      == <<"array", <<Bulk("GET"), Bulk(key)>>>>
DelFrame(keys)     == <<"array", <<Bulk("DEL")>> \o [i \in DOMAIN keys |-> Bulk(keys[i])]>>

\* The frame a call sends; a peer that does not use Client sends what it
\* likes ("raw").
ToFrame(r) ==
  CASE r.op = "set" -> SetFrame(r.key, r.val)
    [] r.op = "get" -> GetFrame(r.key)
    [] r.op = "del" -> DelFrame(r.keys)
    [] r.op = "raw" -> r.frame

IsBytes(f)  == f[1] = "bulk"
IsString(f) == IsBytes(f) /\ f[2] # NotText

SetOp(k, v) == [op |-> "set", key |-> k, val |-> v]
GetOp(k)    == [op |-> "get", key |-> k, val |-> NoValue]
DelOp(k)    == [op |-> "del", key |-> k, val |-> NoValue]

\* TryFrom<Parser> for Del, Get and Set: the storage operations of the
\* command, or none where it is an error.
ParseArgs(name, args) ==
  CASE name = Bulk("DEL") /\ Len(args) > 0 /\ \A i \in DOMAIN args : IsString(args[i]) ->
         [i \in DOMAIN args |-> DelOp(args[i][2])]
    [] name = Bulk("GET") /\ Len(args) = 1 /\ IsString(args[1]) -> <<GetOp(args[1][2])>>
    [] name = Bulk("SET") /\ Len(args) = 2 /\ IsString(args[1]) /\ IsBytes(args[2]) ->
         <<SetOp(args[1][2], args[2][2])>>
    [] OTHER -> <<>>

\* TryFrom<Frame> for Command
ParseCommand(f) ==
  IF f[1] = "array" /\ f[2] # <<>> THEN ParseArgs(Head(f[2]), Tail(f[2])) ELSE <<>>

\* The calls are those of Client, whose keys are text, and frames that are no
\* commands.
ASSUME ValuesAssumption == NoValue \notin Values
ASSUME KeysAssumption == NotText \notin Keys
ASSUME CallsAssumption ==
  \A s \in Sessions : \A r \in Calls[s] :
    \/ r.op = "set" /\ r.key \in Keys /\ r.val \in Values
    \/ r.op = "get" /\ r.key \in Keys
    \/ r.op = "del" /\ r.keys \in Seq(Keys)
    \/ r.op = "raw" /\ ParseCommand(r.frame) = <<>>

-----------------------------------------------------------------------------
(* The client *)

Connect(s) ==
  /\ link[s] = "none" /\ serving
  /\ link' = [link EXCEPT ![s] = "open"]
  /\ hpc' = [hpc EXCEPT ![s] = "read"]
  /\ UNCHANGED <<store, serving, client, up, down, todo, answer>>

\* Client::set, get and del up to read_response.  What is written to a
\* connection that is closed is lost.
Call(s, r) ==
  /\ link[s] # "none" /\ st[s] = "idle" /\ Len(up[s] \o down[s]) < MaxRequests
  /\ st' = [st EXCEPT ![s] = "waiting"]
  /\ call' = [call EXCEPT ![s] = r]
  /\ result' = [result EXCEPT ![s] = <<"none">>]
  /\ up' = IF link[s] = "open" THEN [up EXCEPT ![s] = Append(@, ToFrame(r))] ELSE up
  /\ UNCHANGED <<serving, link, down, server, stray>>

\* What set, get and del make of a response.
Response(r, f) ==
  CASE r.op = "set" /\ f = <<"simple", "OK">> -> <<"ok">>
    [] r.op = "get" /\ f[1] = "bulk" -> <<"value", f[2]>>
    [] r.op = "get" /\ f[1] = "null" -> <<"value", NoValue>>
    [] r.op = "del" /\ f[1] = "integer" -> <<"count", f[2]>>
    [] OTHER -> <<"error">>

Returns(s, res) ==
  /\ st[s] = "waiting"
  /\ st' = [st EXCEPT ![s] = "idle"]
  /\ call' = [call EXCEPT ![s] = NoCall]
  /\ result' = [result EXCEPT ![s] = res]
  /\ UNCHANGED <<serving, link, up, server>>

\* read_response returns the next frame ...
ReadResponse(s) ==
  /\ down[s] # <<>>
  /\ Returns(s, Response(call[s], Head(down[s]))) /\ UNCHANGED stray
  /\ down' = [down EXCEPT ![s] = Tail(@)]

\* ... or finds the connection closed.
ReadClosed(s) ==
  /\ down[s] = <<>> /\ link[s] = "closed"
  /\ Returns(s, <<"error">>)
  /\ UNCHANGED <<down, stray>>

\* The caller drops the future of a call that waits for its response.
Cancel(s) ==
  /\ s \in Cancels
  /\ Returns(s, <<"cancelled">>)
  /\ stray' = [stray EXCEPT ![s] = TRUE]
  /\ UNCHANGED down

\* The client goes away or the network fails.  Frames under way are lost
\* from some point on.
Break(s) ==
  /\ link[s] = "open"
  /\ link' = [link EXCEPT ![s] = "closed"]
  /\ \E n \in 0..Len(up[s]) : up' = [up EXCEPT ![s] = SubSeq(@, 1, n)]
  /\ \E n \in 0..Len(down[s]) : down' = [down EXCEPT ![s] = SubSeq(@, 1, n)]
  /\ UNCHANGED <<serving, client, server>>

-----------------------------------------------------------------------------
(* The server *)

\* ctrl-c
Shutdown ==
  /\ serving
  /\ serving' = FALSE
  /\ UNCHANGED <<link, client, up, down, server>>

\* Handler::run returns; its socket is closed.
Drop(s) ==
  /\ hpc' = [hpc EXCEPT ![s] = "none"]
  /\ link' = [link EXCEPT ![s] = "closed"]
  /\ up' = [up EXCEPT ![s] = <<>>]
  /\ todo' = [todo EXCEPT ![s] = <<>>]
  /\ answer' = [answer EXCEPT ![s] = <<"none">>]
  /\ UNCHANGED <<store, serving, client, down>>

\* Mutant of Refuse: the handler goes on with the next frame.
RefuseSilently(s) ==
  /\ up' = [up EXCEPT ![s] = Tail(@)]
  /\ UNCHANGED <<serving, link, client, down, server>>

\* Command::try_from(frame)? fails.
Refuse(s) == Drop(s)

\* read_frame and Command::try_from; a frame that is no command ends the
\* handler.
ReadCommand(s) ==
  /\ hpc[s] = "read" /\ up[s] # <<>>
  /\ LET ops == ParseCommand(Head(up[s]))
     IN  IF ops = <<>> THEN Refuse(s)
         ELSE /\ hpc' = [hpc EXCEPT ![s] = "apply"]
              /\ todo' = [todo EXCEPT ![s] = ops]
              /\ up' = [up EXCEPT ![s] = Tail(@)]
              /\ UNCHANGED <<store, serving, link, client, down, answer>>

\* The client has closed the connection, or the shutdown branch of the
\* select is taken.
HandlerEnds(s) ==
  /\ hpc[s] = "read"
  /\ ~serving \/ (up[s] = <<>> /\ link[s] = "closed")
  /\ Drop(s)

\* The answer so far and the result of the next operation: del's are counted.
Answer(a, op, r) ==
  CASE op = "del" ->
         <<"count", (IF a[1] = "count" THEN a[2] ELSE 0) + (IF r = "true" THEN 1 ELSE 0)>>
    [] op = "set" -> <<"ok">>
    [] op = "get" -> <<"value", r>>

\* The next storage operation of the command, in its blocking task.
ApplyOp(s) ==
  /\ hpc[s] = "apply" /\ todo[s] # <<>>
  /\ store' = KV!After(Head(todo[s]))
  /\ answer' = [answer EXCEPT ![s] = Answer(@, Head(todo[s]).op, KV!Result(Head(todo[s])))]
  /\ todo' = [todo EXCEPT ![s] = Tail(@)]
  /\ UNCHANGED <<serving, link, client, up, down, hpc>>

\* Mutant of ApplyFails: the operation that failed is passed over.
ApplyFailsOnward(s) ==
  /\ hpc[s] = "apply" /\ todo[s] # <<>>
  /\ answer' = [answer EXCEPT ![s] = Answer(@, Head(todo[s]).op, "false")]
  /\ todo' = [todo EXCEPT ![s] = Tail(@)]
  /\ UNCHANGED <<store, serving, link, client, up, down, hpc>>

\* It fails, or the task panics: the rest of the keys is left alone and no
\* response is sent.
ApplyFails(s) ==
  /\ hpc[s] = "apply" /\ todo[s] # <<>>
  /\ Drop(s)

\* The frame that Set, Get and Del respond with.
ResponseFrame(a) ==
  CASE a[1] = "ok"    -> <<"simple", "OK">>
    [] a[1] = "count" -> <<"integer", a[2]>>
    [] a[1] = "value" -> IF a[2] = NoValue THEN <<"null">> ELSE Bulk(a[2])

\* write_frame of the response, which fails when the client is gone.
Respond(s) ==
  /\ hpc[s] = "apply" /\ todo[s] = <<>>
  /\ IF link[s] = "open"
     THEN /\ down' = [down EXCEPT ![s] = Append(@, ResponseFrame(answer[s]))]
          /\ hpc' = [hpc EXCEPT ![s] = "read"]
          /\ answer' = [answer EXCEPT ![s] = <<"none">>]
          /\ UNCHANGED <<store, serving, link, client, up, todo>>
     ELSE Drop(s)

-----------------------------------------------------------------------------

Next ==
  \/ \E s \in Sessions :
       \/ Connect(s) \/ \E r \in Calls[s] : Call(s, r)
       \/ ReadResponse(s) \/ ReadClosed(s) \/ Cancel(s) \/ Break(s)
       \/ ReadCommand(s) \/ HandlerEnds(s) \/ ApplyOp(s) \/ ApplyFails(s) \/ Respond(s)
  \/ Shutdown

Spec == Init /\ [][Next]_vars

(* Frames arrive, tasks that can run do run and the storage answers, with  *)
(* a result or an error.                                                   *)
Fairness ==
  \A s \in Sessions : /\ WF_vars(ReadResponse(s)) /\ WF_vars(ReadClosed(s))
                      /\ WF_vars(ReadCommand(s) \/ HandlerEnds(s))
                      /\ WF_vars(ApplyOp(s) \/ ApplyFails(s)) /\ WF_vars(Respond(s))

LiveSpec == Spec /\ Fairness

-----------------------------------------------------------------------------
(* Properties *)

\* The commands that the server may still carry out for a session: the rest
\* of the one in hand and those of the frames under way.
Parsed(frames) == [i \in DOMAIN frames |-> ParseCommand(frames[i])]
Pending(ops, frames) == (IF ops = <<>> THEN <<>> ELSE <<ops>>) \o Parsed(frames)

Left(s) == Pending(todo[s], up[s])

\* No response is on its way nor will be.
Lost(s) == link[s] = "closed" /\ down[s] = <<>>

\* The answer to the call, in the handler or on its way.
Answered(s) ==
  IF Lost(s) \/ stray[s] THEN <<"none">>
  ELSE IF down[s] # <<>> THEN Response(call[s], Head(down[s]))
  ELSE answer[s]

Remote == INSTANCE RemoteStore WITH
  left   <- [s \in Sessions |-> Left(s)],
  answer <- [s \in Sessions |-> Answered(s)],
  lost   <- [s \in Sessions |-> Lost(s)]

\* A client's calls act on the storage as RemoteStore says: in order, each
\* operation at most once, none after a refused command, and what a call
\* returns is the result of its own operations, all of them done, as long as
\* no earlier call of the session was cancelled.
RefinesRemoteStore == Remote!Spec

\* A call returns: with its response, or with an error once the server has
\* ended the connection for a command it refuses, a storage error or a
\* shutdown.
CallsReturn == \A s \in Sessions : st[s] = "waiting" ~> st[s] = "idle"
=============================================================================
