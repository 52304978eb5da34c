----------------------------- MODULE RemoteStore -----------------------------
(***************************************************************************)
(* What the client library and the server promise together.  A session is  *)
(* one Client.  A call is a list of storage operations, one for each key,  *)
(* which take effect one by one and in order, each at most once.  A call   *)
(* that returns a result has had all its effects, and the result is theirs;*)
(* one that returns an error leaves it open how many it had and may still  *)
(* have, and the session is then of no more use.  A session that abandons  *)
(* a call goes astray: the effects of its calls are as before, but it is   *)
(* not said any more which result a call returns.                          *)
(***************************************************************************)
EXTENDS Naturals, Sequences

CONSTANTS
  Sessions, Keys, Values, NoValue,
  Calls  \* session -> its calls: set, get, del of a sequence of keys, and "raw" ones

VARIABLES
  store,   \* key -> value
  st,      \* session -> "idle" or "waiting"
  call,    \* session -> its call
  result,  \* session -> the result of its last call
  left,    \* session -> commands that may still take effect, the first
           \*            of them perhaps in part: sequences of operations
  answer,  \* session -> the result of those that have, while it can come
  lost,    \* session -> an answer can no longer come
  stray    \* session -> it has abandoned a call

NoCall == [op |-> "none"]

rvars == <<store, st, call, result, left, answer, lost, stray>>

KV == INSTANCE KVStore WITH Threads <- Sessions, up <- TRUE, shut <- FALSE, ret <- result,
                            moving <- {}

\* The operations of a call; what is no command has none.
Ops(r) ==
  CASE r.op = "set" -> <<[op |-> "set", key |-> r.key, val |-> r.val]>>
    [] r.op = "get" -> <<[op |-> "get", key |-> r.key, val |-> NoValue]>>
    [] r.op = "del" -> [i \in DOMAIN r.keys |-> [op |-> "del", key |-> r.keys[i], val |-> NoValue]]
    [] r.op = "raw" -> <<>>

\* The answer to r with the result of one more operation.
Tally(r, a, res) ==
  CASE r.op = "set" -> <<"ok">>
    [] r.op = "get" -> <<"value", res>>
    [] r.op = "del" -> LET n == IF a = <<"none">> THEN 0 ELSE a[2]
                       IN  <<"count", IF res = "true" THEN n + 1 ELSE n>>

Init ==
  /\ store = [k \in Keys |-> NoValue]
  /\ st = [s \in Sessions |-> "idle"]
  /\ call = [s \in Sessions |-> NoCall]
  /\ result = [s \in Sessions |-> <<"none">>]
  /\ left = [s \in Sessions |-> <<>>]
  /\ answer = [s \in Sessions |-> <<"none">>]
  /\ lost = [s \in Sessions |-> FALSE]
  /\ stray = [s \in Sessions |-> FALSE]

\* A call adds its command, unless the connection is gone; a stray session may
\* not know that yet, with answers to earlier calls still to be read.
Call(s, r) ==
  /\ st[s] = "idle"
  /\ st' = [st EXCEPT ![s] = "waiting"]
  /\ call' = [call EXCEPT ![s] = r]
  /\ result' = [result EXCEPT ![s] = <<"none">>]
  /\ \/ (lost[s] \/ stray[s]) /\ UNCHANGED left
     \/ ~lost[s] /\ left' = [left EXCEPT ![s] = Append(@, Ops(r))]
  /\ UNCHANGED <<store, answer, lost, stray>>

\* The commands without the first operation.
Rest(cmds) ==
  IF Tail(Head(cmds)) = <<>> THEN Tail(cmds) ELSE <<Tail(Head(cmds))>> \o Tail(cmds)

\* The first operation of the first command; behind what is no command
\* nothing takes effect.
Effect(s) ==
  /\ left[s] # <<>> /\ Head(left[s]) # <<>>
  /\ LET op == Head(Head(left[s]))
     IN  /\ store' = KV!After(op)
         /\ answer' = [answer EXCEPT ![s] = IF lost[s] \/ stray[s] THEN @ ELSE Tally(call[s], @, KV!Result(op))]
  /\ left' = [left EXCEPT ![s] = Rest(@)]
  /\ UNCHANGED <<st, call, result, lost, stray>>

\* The connection is gone, and with it some of what was still to be done.
\* A stray session may first be given answers to earlier calls.
Lose(s) ==
  /\ \/ lost' = [lost EXCEPT ![s] = TRUE]
     \/ stray[s] /\ UNCHANGED lost
  /\ answer' = [answer EXCEPT ![s] = <<"none">>]
  /\ \E n \in 0..Len(left[s]) : left' = [left EXCEPT ![s] = SubSeq(@, 1, n)]
  /\ UNCHANGED <<store, st, call, result, stray>>

\* The call is over.
Over(s, res) ==
  /\ st[s] = "waiting"
  /\ st' = [st EXCEPT ![s] = "idle"]
  /\ call' = [call EXCEPT ![s] = NoCall]
  /\ result' = [result EXCEPT ![s] = res]

Return(s) ==
  /\ Over(s, answer[s])
  /\ left[s] = <<>> /\ ~lost[s] /\ ~stray[s] /\ Ops(call[s]) # <<>>
  /\ answer' = [answer EXCEPT ![s] = <<"none">>]
  /\ \E b \in BOOLEAN : lost' = [lost EXCEPT ![s] = b]
  /\ UNCHANGED <<store, left, stray>>

Fail(s) ==
  /\ lost[s]
  /\ Over(s, <<"error">>)
  /\ UNCHANGED <<store, left, answer, lost, stray>>

Abandon(s) ==
  /\ Over(s, <<"cancelled">>)
  /\ stray' = [stray EXCEPT ![s] = TRUE]
  /\ answer' = [answer EXCEPT ![s] = <<"none">>]
  /\ UNCHANGED <<store, left, lost>>

\* What a stray session may be answered.
IsAnswer(a) ==
  CASE a[1] = "value" -> a[2] \in Values \cup {NoValue}
    [] a[1] = "count" -> a[2] \in Nat
    [] OTHER -> a \in {<<"ok">>, <<"error">>}

ReturnStray(s) ==
  /\ stray[s]
  /\ IsAnswer(result'[s]) /\ Over(s, result'[s])
  /\ \E b \in BOOLEAN : lost' = [lost EXCEPT ![s] = b]
  /\ UNCHANGED <<store, left, answer, stray>>

Next ==
  \E s \in Sessions : \/ \E r \in Calls[s] : Call(s, r)
                      \/ Effect(s) \/ Lose(s) \/ Return(s) \/ Fail(s)
                      \/ Abandon(s) \/ ReturnStray(s)

Spec == Init /\ [][Next]_rvars
=============================================================================
