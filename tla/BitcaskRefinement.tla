-------------------------- MODULE BitcaskRefinement --------------------------
(***************************************************************************)
(* A running Bitcask instance is a KVStore.  A set or del takes effect     *)
(* when the KeyDir changes, a get when it looks its key up in the KeyDir.  *)
(* Appending, rotating files and syncing are invisible, and a merge is but *)
(* for the moment at which it points a key at its copy: as with a put that *)
(* overwrites a key, a get may then miss that key.                         *)
(***************************************************************************)
EXTENDS Bitcask

\* What the bytes that KeyDir entry e points at hold.
ValueAt(e) == ReadAt(data[e.fileid], e.pos, e.len)

\* The store as the KeyDir shows it.
View == [k \in Keys |-> IF k \in DOMAIN keydir THEN ValueAt(keydir[k]) ELSE NoValue]

CallState == [t \in Threads |-> IF pc[t] = "idle" THEN "idle"
                                ELSE IF pc[t] \in {"wait", "index"} THEN "called" ELSE "done"]

\* A get that holds a KeyDir entry is bound to return what is stored there.
CallResult == [t \in Threads |-> IF pc[t] = "read" THEN ValueAt(ent[t]) ELSE res[t]]

KV == INSTANCE KVStore WITH store <- View, up <- TRUE, shut <- closed,
                            st <- CallState, call <- req, ret <- CallResult,
                            moving <- Replacing

\* Under concurrent calls and merges every call takes effect atomically and
\* in an order all threads agree on, and a merge changes no value; only a get
\* of a key whose KeyDir entry is just then being replaced (context.rs:37, by
\* an overwriting put or by a merge) may return that the key is absent.
RefinesKVStore == KV!Spec
=============================================================================
