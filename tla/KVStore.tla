------------------------------- MODULE KVStore -------------------------------
(***************************************************************************)
(* What a storage engine promises (the KeyValueStorage trait of            *)
(* src/src/storage.rs: "a thread-safe key-value store that ensure          *)
(* consistent access to shared data from multiple different threads").     *)
(*                                                                         *)
(* Every set, del and get takes effect at one instant between its call and *)
(* its return, with two excuses for a get and none for a set or del: it    *)
(* may fail with an I/O error or a panic instead of its result, and it may *)
(* miss the value of a key while the store replaces that key's entry.      *)
(* Once the store is shut, new calls are refused and those under way       *)
(* complete.  A stop of the process ends all calls; a set or del that had  *)
(* not returned may or may not have happened, and everything else is there *)
(* when the store comes up again.                                          *)
(***************************************************************************)
CONSTANTS Keys, Values, NoValue, Threads

VARIABLES
  store,   \* key -> value, NoValue for an absent key
  up,      \* the store is open
  shut,    \* new calls are refused
  st,      \* thread -> "idle", "called" or "done"
  call,    \* thread -> its request
  ret,     \* thread -> its result
  moving   \* the keys whose entries are being replaced, as the engine says

kvars == <<store, up, shut, st, call, ret>>

Requests == [op : {"set"}, key : Keys, val : Values]
              \cup [op : {"get", "del"}, key : Keys, val : {NoValue}]
NoCall   == [op |-> "none", key |-> 0, val |-> NoValue]

Init ==
  /\ store = [k \in Keys |-> NoValue]
  /\ up = TRUE
  /\ shut = FALSE
  /\ st = [t \in Threads |-> "idle"]
  /\ call = [t \in Threads |-> NoCall]
  /\ ret = [t \in Threads |-> "none"]

Invoke(t, r) ==
  /\ up /\ st[t] = "idle"
  /\ call' = [call EXCEPT ![t] = r]
  /\ st' = [st EXCEPT ![t] = IF shut THEN "done" ELSE "called"]
  /\ ret' = [ret EXCEPT ![t] = IF shut THEN "closed" ELSE @]
  /\ UNCHANGED <<store, up, shut>>

\* A request's result in the present state of the store.
Result(r) ==
  CASE r.op = "set" -> "ok"
    [] r.op = "del" -> IF store[r.key] = NoValue THEN "false" ELSE "true"
    [] r.op = "get" -> store[r.key]

\* The store after a request; a del sets a key to no value.
After(r) == IF r.op = "get" THEN store ELSE [store EXCEPT ![r.key] = r.val]

Apply(t) ==
  /\ up /\ st[t] = "called"
  /\ st' = [st EXCEPT ![t] = "done"]
  /\ store' = After(call[t])
  /\ ret' = [ret EXCEPT ![t] = Result(call[t])]
  /\ UNCHANGED <<up, shut, call>>

GetMisses(t) ==
  /\ up /\ st[t] = "called"
  /\ call[t].op = "get" /\ call[t].key \in moving
  /\ st' = [st EXCEPT ![t] = "done"]
  /\ ret' = [ret EXCEPT ![t] = NoValue]
  /\ UNCHANGED <<store, up, shut, call>>

GetFails(t) ==
  /\ up /\ st[t] = "done" /\ call[t].op = "get"
  /\ \E error \in {"io_error", "panic"} : ret' = [ret EXCEPT ![t] = error]
  /\ UNCHANGED <<store, up, shut, st, call>>

Return(t) ==
  /\ up /\ st[t] = "done"
  /\ st' = [st EXCEPT ![t] = "idle"]
  /\ call' = [call EXCEPT ![t] = NoCall]
  /\ ret' = [ret EXCEPT ![t] = "none"]
  /\ UNCHANGED <<store, up, shut>>

Shut ==
  /\ up /\ ~shut
  /\ shut' = TRUE
  /\ UNCHANGED <<store, up, st, call, ret>>

Stop ==
  /\ up
  /\ up' = FALSE
  /\ shut' = FALSE
  /\ \/ UNCHANGED store
     \/ \E t \in Threads : st[t] = "called" /\ store' = After(call[t])
  /\ st' = [t \in Threads |-> "idle"]
  /\ call' = [t \in Threads |-> NoCall]
  /\ ret' = [t \in Threads |-> "none"]

Start ==
  /\ ~up
  /\ up' = TRUE
  /\ UNCHANGED <<store, shut, st, call, ret>>

Next ==
  \/ \E t \in Threads : \/ \E r \in Requests : Invoke(t, r)
                        \/ Apply(t) \/ GetMisses(t) \/ GetFails(t) \/ Return(t)
  \/ Shut \/ Stop \/ Start

Spec == Init /\ [][Next]_kvars
=============================================================================
