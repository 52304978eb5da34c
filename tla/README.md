# A TLA+ model of opal

opal is a key-value server: a log-structured store after the Bitcask paper
(`src/src/storage/bitcask*`) behind a RESP server (`src/src/net*`). This
directory holds TLA+ modules translated from that source, TLC configurations
that check them on small instances, and TLAPS proofs about the storage engine,
its recovery and its failures, the memory maps it reads through, and the server.
`PROJECT.json` lists the runs, maps definitions to source lines, and names the
hazards the properties are aimed at.

To check: `tlc -config X.cfg M` for the pairs in the table of runs below, and
`tlapm M.tla` for the modules whose names end in `Proofs`. Source paths below are relative to `src/src/`.

## 1. Inventory

| Component | State | Operations | Correct means |
|---|---|---|---|
| Storage interface, `storage.rs` | none | `set`, `get`, `del` | calls of several threads take effect atomically |
| Log files, `storage/bitcask/log.rs`, `bufio.rs` | data and hint files; bytes in a `BufWriter`; per Reader an LRU cache of maps | append, read at, copy, iterate, create, sync; `LogStatistics` | positions returned are where the entry is; no read leaves its map; counts are exact |
| Writer, `writer.rs` | active file and id, bytes written, statistics | `put`, `delete`, `merge`, `sync`, rotation, drop | "indices in KeyDir point to a valid file locations"; merging is invisible |
| Reader, `reader.rs` | its `LogDir` | `get` | returns what the KeyDir pointed at |
| Context and KeyDir, `context.rs` | lock-free map, `closed` flag | get, set, remove | each key points at its newest entry |
| Handle and tasks, `bitcask.rs`, `shutdown.rs` | writer's mutex, queue of Readers, shutdown channel | `put`, `get`, `delete`, `merge`, `sync`; merge and sync tasks | no Reader lost, writers not starved, tasks stop |
| Opening, `bitcask.rs`, `utils.rs` | KeyDir and statistics under construction | `rebuild_storage`, scanning hint and data files | what was stored before a stop is stored after it |
| Server, `net/server.rs` | semaphore of permits, backoff, shutdown channels | listen, accept, one handler per connection, shutdown | permits conserved, shutdown completes and loses no work |
| Frames, `net/frame.rs` | none | `check`, `parse` | both walk over the same bytes; numbers are exact; a decision does not change when more bytes come |
| Connection, `net/connection.rs` | read buffer | read and write a frame | the frames do not depend on how bytes are divided into reads |
| Commands, `net/command*` | none | parsing and applying SET, GET, DEL | the reply is the effect on the store |
| Client, `net/client.rs`, `bin/cli.rs` | its connection | `connect`, `set`, `get`, `del` | a call returns, with the result of its own request |
| Configuration, `*/config.rs`, `conf.rs` | options | setters, defaults | |
| Telemetry and binary, `telemetry.rs`, `bin/svr.rs` | none | start-up | |

**How they interact.** A handler task parses a command and runs it on the
store in a blocking thread through a clone of the `Handle`. `set`, `del`,
`merge` and `sync` take the writer's mutex; `get` takes a Reader from a queue
and no lock, looks the key up in the shared KeyDir and then opens or finds the
file. The merge and sync tasks live on a thread of their own and stop when the
`Bitcask`, which holds the only Sender of their shutdown channel, is dropped.
All processes that ever open the directory meet through its files.

**What is hard.** A `get` between two steps of a merge; a kill between any
two changes of the directory; an I/O error between two assignments of the
Writer, or one that nobody sees; a peer that does not read; a directory opened again while its last owner is still merging;
statistics counted up and down in five places; resources handed from task to
task (Readers, permits, Senders); bytes that arrive in any division; calls
given up; limits with wrap-around or off-by-one (file size, backoff,
integers). The list is under `hazards` in `PROJECT.json`, each with the
properties that would catch it or the reason why none does.

## 2. Modules

| Module | Models | Notes |
|---|---|---|
| `BitcaskLog` | entries, files, statistics, LRU cache | pure operators, no state |
| `Bitcask` | one running instance | 26 variables, 20 actions; properties of the instance |
| `KVStore` | what the store promises | abstract specification with stops and starts |
| `BitcaskRefinement` | `Bitcask` implements `KVStore` | the refinement mapping |
| `BitcaskRecovery` | kills, drops and reopenings around `Bitcask` | composes with `Bitcask!Next` through `Running` |
| `BitcaskReopen` | a second instance opened while the first winds down | composes with `Bitcask!Next` through `FirstRuns` |
| `WriterFaults` | the Writer with failing file operations | sequential: everything is under the mutex |
| `MappedLog` | the bytes of one data file: `BufWriter`, file, maps | independent of the others |
| `Frame` | RESP: `check`, `parse`, encoding | pure operators; recursive, so not proved about |
| `FrameBytes` | the read buffer under arbitrary bytes | extends `Frame` |
| `Connection` | one direction of a connection | extends `Frame` |
| `FrameChannel` | what a connection promises | abstract specification |
| `Service` | clients, handlers, commands and a store | uses the operations of `KVStore` |
| `RemoteStore` | what client and server promise together | abstract specification |
| `Server` | listener, handlers, shutdown | independent of the storage modules |
| `BitcaskProofs`, `BitcaskStatsProofs` | proofs about `Bitcask` and `BitcaskRefinement`; the second about the statistics | the second extends the first |
| `BitcaskRecoveryProofs` | proofs about `BitcaskRecovery` | extends `BitcaskStatsProofs` |
| `BitcaskReopenProofs` | proofs about `BitcaskReopen` | extends `BitcaskProofs` |
| `WriterFaultsProofs`, `MappedLogProofs`, `ServerProofs`, `ServiceProofs` | proofs about `WriterFaults`, `MappedLog`, `Server`, `Service` | |
| `MC*` | values of the constants, symmetry sets | |

Operators whose comment begins with "Mutant of" are not part of the model.
They are deliberately wrong variants of the definition that follows, named in
`PROJECT.json` to show that each property can fail.

How they fit together: `Connection` implements `FrameChannel`, which is what
`Service` takes a connection for; `Bitcask` implements `KVStore`, which is what
`Service` takes the storage for; `Service` implements `RemoteStore`, the
contract of a user of the client library. `Server` has the listener and the
permits that `Service` leaves out.

### Bitcask

*Files.* A data file is its size and the set of its entries with the byte
range of each (`BitcaskLog`). Reading a range gives the value of the entry
that begins there, a deserialization error if none does, or a panic if the
range leaves the file. Wrong positions are therefore seen as what they cause.
`data` also keeps unlinked files, which a Reader may still have mapped; `files`
is what the directory lists.

*Threads.* `pc[t]` follows a call: past the closed check (`wait`), after the
append with the mutex in hand (`index`), with a Reader and a KeyDir entry in
hand (`read`), about to return (`ret`). The actions are `Call`, `Write`,
`KeydirSet` or `KeydirRemove`, `GetLookup`, `GetRead`, `Return`.

*The KeyDir* is crossbeam's `SkipMap`, whose `insert` takes an existing entry
out before it puts the new one in (`context.rs:37`). A `get` takes no lock, so
while a put or a merge replaces the entry of a key a lookup may miss a key that
has had a value all along. `Replacing` are the keys this may happen to, and the
second disjunct of `GetLookup` is the miss.

*Maps.* A Reader keeps a map that begins before the entry it wants, also if it
was made while only part of that entry was in the file (`log.rs:193`). An
entry larger than the `BufWriter` (`BufferSize`) reaches the file in parts, so a
`get` of one through a cached map may panic, and its Reader is gone
(`MapEndsInside`, `GetRead`). `MappedLog` has the bytes behind this.

*Where steps are cut.* Everything under the mutex excludes everything else
under it, so the only observers of a step half done are a `get`, which sees
the KeyDir and the directory, and a kill, which leaves the directory. `Write`
is the append, its fsync, the statistics and the rotation, of which a `get` sees
nothing; the KeyDir update is the next step. What a kill inside `Write` leaves
is a case of `Crash` (below). A merge is
`MergeBegin`, then `MergeCopy` per key in the KeyDir's order, `MergeKeydirSet`
per key, `MergeRemoveHint` and `MergeRemoveData` per file in order of id, and
`MergeFinish`. `MergeSkip` is a check that finds nothing to merge.

*Statistics and merge decisions* are those of the code: `CanMerge` with its
policy and window, `FileidsToMerge` with the three thresholds. `MergesSettle`
says that a finished merge leaves nothing that triggers the next one, for
triggers that are not below the thresholds.

### BitcaskRecovery

`Crash` is possible between any two steps of the instance and `CrashInOpen`
between any two of opening. A `Crash` of a thread that has appended and not yet
indexed also stands for one inside `Writer::write` (`KilledInWrite`): before the
rotation, with no new active file, and before the fsync too, with an entry
that is in the file and not on the device (`SyncedBefore`). Rebuilding indexes that
entry like any other; the history variable `unsynced` remembers it. Files survive as the operating system has them:
a killed process, not a power failure. During the copying loop of a merge the
copied bytes sit in a `BufWriter`, so the merge file may be cut before any
of its entries (`DataLeft`), while hint entries are flushed one by one.
`DropWriter` is the orderly end, which removes an empty active file.
Reopening reads file by file, entry by entry (`ScanHint`, `ScanData`,
`ScanNext`), and `OpenFinish` creates the new active file.
The history variables `must` and `may` remember which keys have to be, and
which may be, there after the next rebuild.

### BitcaskReopen

Dropping a `Bitcask` does not join its background thread. `FirstRuns` is the
first instance, which may go on merging; `FirstDropped` its Writer's drop;
`FirstCollides` a merge that ends because the second instance has created the
file it wants. The second instance is its opening: `OpenBegin` lists the
directory, `ScanFile` reads a file, `ScanFails` finds one gone, `OpenFinish`
creates the active file or meets one. What it writes later is not modelled.

### WriterFaults

`Write`, `WriteFails` and `RotateFails` are the outcomes of `put` and `delete`;
a merge can fail when it begins, in each of the operations of its loop, when
it removes a file and when it creates the last one. After a failure the
state is what the code has assigned by then: in particular `active` (the id) and
`wfile` (the file that is open) differ once `new_active_datafile` has failed.
A slice of a map that is too short panics and ends the merge task (`"dead"`).
The `BufWriter` of a merge file is not flushed by the code but dropped, and `Drop`
for `BufWriter` ignores the error of its flush (`writer.rs:235`, `242`): `DropLoses`
cuts off what was not written, and the merge goes on to point the KeyDir at the copies
and to remove the originals.
`settled` is a history variable: the keys last written while id and open file
agreed, less those pointed at a copy that is not in its file.

### MappedLog

One data file as a number of bytes: those in the `BufWriter`, those in the
file, and how much of the file each Reader has mapped. The writer appends an
entry in the pieces in which `BufWriter` passes it on; a Reader renews its
map only if the position is past its end (`log.rs:193`). Entries have any size. A
read that runs past the end of its map panics, and `lost` remembers the length of
the entry that cost the Reader.

### Frame, FrameBytes, Connection, FrameChannel

`Check` and `Parse` are the two walks of `frame.rs` over the bytes, with their
look-ahead as it is: the last byte of the buffer is never looked at and the byte
behind a carriage return is skipped. Integers have `IntBits` bits; unchecked
arithmetic wraps, as in a release build. `FrameBytes` feeds the buffer any
bytes. `Connection` has a writer, bytes on the wire, the buffer and `read_frame`'s
loop, which the handler's `select!` may drop and begin again at its only
`await`; since all of its state is the buffer, dropping it is no step.

### Service and RemoteStore

A session is a `Client`, its connection and the handler that serves it. A
command is applied one storage operation at a time, so that a DEL of several
keys is not atomic and may stop in the middle. `Break` is the loss of the
connection with any part of what is on its way, `Cancel` a caller that drops
the future of a call, `ApplyFails` a storage error or panic. In `RemoteStore` a
session has a list of commands that may still take effect, each a list of
operations. They take effect in order and at most once, and none does behind what
is no command; a call that returns a result has had all of its operations and the
result is theirs. A session that has cancelled a call is *stray*: its effects are
still as promised and its results are not. The calls of the model are those of
`Client`, whose keys are text, and frames that no `TryFrom` accepts
(`CallsAssumption`): a peer that sends a well-formed command by other means than
`Client` makes the same call.

### Server

`lpc` is the listener's place in `listen`/`accept`, `conn[c]` the state of a
client's connection or of the handler that serves it. A handler ends by the
end of the stream, bad bytes, an error or panic of its command, a failed
reply, or the shutdown signal; each of these runs `Drop`. A reply that the
client does not read keeps its handler in `write_frame` (`"stuck"`) until the client
reads or hangs up: `Command::apply` is given the shutdown and does not use it
(`command.rs:58`). `accept` fails only for a connection that is there, since tokio waits for
one first. The backoff is a number of
`Width` bits, and doubling drops the top bit as `<<=` does.

### Assumptions of the models

- SkipMap is not under `src/`; how its `insert` replaces an entry is that of
  crossbeam-skiplist 0.1.2. Its other operations are taken to be atomic, and so is
  its iteration in `merge`, which runs under the mutex.
- In `Bitcask` no I/O operation fails except opening a file that was removed;
  `WriterFaults` has the failures. Creating a file and opening its writer fail
  as one. A failed append stays in the `BufWriter` and goes out with the next.
- A kill inside an append leaves a torn last entry in a file nobody appends
  to again; the iterator takes it for the end of the file. It is modelled as a
  kill before the append.
- One instance per directory at a time, except in `BitcaskReopen`.
- Timestamps are left out: nothing reads them back.
- In `Bitcask` a mapped file is seen at its present size, except that a read of an
  entry larger than the `BufWriter` may panic; `ReadsSafe` justifies that for the others.
  The Writer's own maps are made and used under the mutex, when every entry is whole.
- `write` and `fstat` of one file are atomic to each other.
- The writer's own `LogDir` is not a variable: the files it copies from are in
  the directory, so hit and miss give the same bytes.
- `MergeCopy` follows a KeyDir entry that points at an entry, which is
  `KeydirValid`. After a reopening from wrong hint positions (finding 1) a
  further merge would copy bytes at wrong places, or panic (`log.rs:218`) and leave
  its files behind; the recovery run allows one merge, and the properties of
  `BitcaskRecovery` claim nothing of directories that have seen more (`OneMerge`).
- `WriterFaults` merges by dead bytes only; `BitcaskReopen` reads a file of the
  directory in one step.
- In `Service` a connection is accepted at once (`Server` has the permits),
  calls are cancelled only while they wait for their response, and a storage
  operation is atomic: it may fail, and the get that misses a key being replaced
  (`KVStore!GetMisses`) is left out.

## 3. Runs

All times are on two workers.

| Run | Module, cfg | Checks | Shows |
|---|---|---|---|
| `instance` | `MCBitcask`, `MCBitcask.cfg`, 100 s | `RefinesKVStore`, `MergesSettle`, `KeydirValid`, `CountsExact`, `DeadBytesExact`, `ReadersConserved`, `FreshFileids`, `IndInv` (with `TypeOK`) | a running instance is a linearizable store but for gets that miss a key being replaced, with rotations and two merges under way; its index, counts, Readers and ids stay right; merges do not trigger each other |
| `instance_liveness` | `MCBitcask`, `MCBitcaskLive.cfg`, 75 s | `WritesReturn`, `ReadersReturn`, `TasksStop`, `ActiveFileSynced` | writers are not starved, Readers come back, tasks stop, the interval sync reaches the active file |
| `recovery` | `MCBitcaskRecovery`, `MCRecovery.cfg`, 100 s | `RefinesDurableKVStore`, `RecoveryTypeOK`, `RebuiltKeydirValid`, `RebuiltCountsExact`, `RebuiltDeadBytesExact`, `SyncedUntilMerge`, `LiveKeysSurvive`, `RebuiltFreshFileids` | up to its first merge a directory is a durable linearizable store through kills and reopenings; a kill anywhere in a merge makes no key disappear and blocks no later file creation |
| `reopen` | `MCBitcaskReopen`, `Reopen.cfg`, 20 s | `ReopenedAlike`, `EntriesKept`, `OpensUnlessEmptied` | reopening beside a dying instance finds the same KeyDir if no merge runs, and fails only over the empty active file; a merge loses no entry |
| `writer_faults` | `MCWriterFaults`, `WriterFaults.cfg`, 25 s | `LiveCovered`, `SettledKeysKept` | after failures `live_keys` never wraps, and only keys written while id and open file differ, or pointed at a copy that was lost in the drop of a `BufWriter`, are spoilt |
| `mapped_log` | `MappedLog`, `MappedLog.cfg` | `ReadsInRange`, `IndInv` | no read of an entry that fits in the `BufWriter` leaves its map, whatever larger entries are beside it |
| `frames` | `FrameBytes`, `FrameBytes.cfg` | `AgreeOnLength`, `IntegersExact`, `DecidedStays` | every buffer of up to seven bytes of ten kinds: `check` and `parse` agree, decisions stay |
| `connection` | `MCConnection`, `Connection.cfg` | `RefinesFrameChannel`, `FramesArrive` | frames arrive whole, once, in order, without waiting for later bytes |
| `service` | `MCService`, `Service.cfg`, 85 s | `RefinesRemoteStore`, `CallsReturn` | the contract of the client library, with refused commands, failures, cancelled calls and shutdown |
| `server` | `MCServer`, `MCServer.cfg`, 165 s | `TypeOK`, `PermitsConserved`, `ExitsAfterHandlers`, `ShutdownCompletes`, `ListenerGivesUp`, `HangUpsFreePermits` | permits are conserved on all paths; shutdown completes unless a client never reads its response, and not before the handlers have ended |

Two runs are expected to end in a violation. Each checks one statement that
the repository makes and the code does not keep:

1. `hint_positions` (`HintFile.cfg`, `HintsValid`). The hint entry written by
   a merge has the position of the original, not of the copy (`writer.rs:226`).
2. `tombstone_merge` (`TombstoneMerge.cfg`, `DeletedKeysStayDeleted`). A merge
   drops a tombstone whose value lives in a file that is not merged; the key is
   back after reopening (`writer.rs:193`).

### Where the properties stop

The passing properties are stated as far as the code keeps them. Each of the
following conditions is there because without it TLC finds a counterexample.

| Property | Condition | What the code does without it |
|---|---|---|
| `RefinesKVStore` | a get may report an I/O error (`GetFails`) | a get whose file is removed between lookup and opening fails although the key is there throughout (`log.rs:100`) |
| `RefinesKVStore` | a get may miss a key whose entry is being replaced (`GetMisses`) | `SkipMap::insert` removes the old entry before it inserts the new one, for an overwriting put and for each key a merge moves (`context.rs:37`) |
| `ReadersConserved`, `ReadersReturn` | no Reader is lost while all entries fit in the `BufWriter` (`SmallEntries`) | a get of a larger entry may panic (`log.rs:193`) and does not return its Reader (`bitcask.rs:172`); with all of them gone every get spins for ever |
| `ActiveFileSynced` | the file stays active | rotation does not sync the file it leaves, and the interval sync never returns to it (`writer.rs:312`) |
| `SyncedUntilMerge` | no merge | copies made by a merge are never synchronized (`writer.rs:184`) |
| `SyncedUntilMerge` | the entry's call was not killed between append and fsync (`unsynced`) | the entry is in the file (`writer.rs:114`) and not on the device (`writer.rs:118`), and the rebuilding indexes it without a sync |
| `LiveKeysSurvive`, `RebuiltFreshFileids`, `RecoveryTypeOK` (its `live >= 0`) | at most one merge (`OneMerge`) | by finding 1 the KeyDir may point at wrong places after a reopening; the next merge copies what is there or panics (`log.rs:218`), leaving files that the next rotation meets |
| `RebuiltKeydirValid`, `RebuiltCountsExact`, `RebuiltDeadBytesExact`, `RefinesDurableKVStore` | no merge | findings 1 and 2; and hint entries are flushed before the bytes they describe, so that after a kill the KeyDir points past the end of the merge file (`writer.rs:223`) |
| `ReopenedAlike` | no merge | the merge of the dropped instance removes files the second KeyDir points into (`writer.rs:257`), and its Writer may remove the second one's active file (`writer.rs:348`) |
| `OpensUnlessEmptied` | the drop had nothing to remove | the empty active file is listed by the second instance and removed by the first before it is read (`writer.rs:348`) |
| `SettledKeysKept` | id and open file agreed at the write | `new_active_datafile` sets the id before it creates the file (`writer.rs:311`); files left by a failed merge make that fail at the next rotation |
| `SettledKeysKept` | the copies of a merge reach their files | the error of a `BufWriter` that cannot be flushed when it is dropped is ignored (`writer.rs:235`, `242`), and the originals are removed |
| `ReadsInRange` | the entry read fits in the `BufWriter` (`Small`) | a larger one reaches the file in parts, a map made in between ends inside it, and the read panics (`log.rs:193`) |
| `IntegersExact` | the number is near the start of the buffer | `max_safe_digits` is compared with an index into the buffer; behind it, in an array say, all digits are read unchecked and wrap (`frame.rs:195`) |
| `DecidedStays`, `RefinesFrameChannel` | no number is cut off right behind its sign | `get_integer` indexes past the buffer and panics (`frame.rs:196`); neither side sends negative numbers |
| `RefinesRemoteStore` | the session has not cancelled a call | the late response is taken for that of the next call (`client.rs:66`) |
| `ShutdownCompletes` | no client leaves its response unread for ever | `write_frame` has no timeout and is not raced with the shutdown, although `command.rs:52` says that `apply` ends when the server shuts down |
| `ListenerGivesUp` | the backoff does not wrap: 0 < minimum, 2 * maximum < 2^64 | `backoff <<= 1` becomes, or stays, 0 and the listener retries at once and for ever (`server.rs:174`) |
| `MergesSettle` | thresholds are not above the triggers | each check runs a merge that includes no file (`writer.rs:281`) |
| `CallsReturn` | with an error for `del` of no keys | `client.rs:40` says the slice was checked and it was not; the server refuses the command and closes the connection |

### Bounds

- Two keys, since a merge moves keys one at a time and a rebuild orders
  entries of different keys; two threads, one Reader and a cache of one, so
  that gets contend for the Reader and the cache evicts.
- Two-byte values, one-byte tombstones and `MaxFileSize = 3` (in `instance`
  one value takes three bytes, `LargeValues`, which is more than `BufferSize = 2`;
  in `instance_liveness` none does, which keeps it small): a file is full
  after two values, or a value and two tombstones, so that three writes rotate
  at different offsets.
- `MaxWrites = 3`, `MaxMerges = 2` in `instance`: an overwrite or delete, a
  merge, and a second merge that meets files with hints. `MaxOpens = 2` in
  `recovery`, so that a rebuild follows a rebuild; one thread, as only the
  holder of the mutex can have a write half done when the process is killed.
- In `instance` and `recovery` a file has to have three dead bytes to start a merge: a large
  value overwritten, or a value and its tombstone. Both runs were also made with a
  `TriggerFragmentation` of 40, where any overwrite starts one (2.0 and 3.1 million states, the
  same results); `instance_liveness` and the two runs of findings have such triggers.
- `reopen`: four writes fill a file and leave an active one with or without
  entries; one merge.
- `writer_faults`: five writes, two merges and two faults, so that a write and a
  merge follow a merge that failed, and a fault follows a fault.
- `mapped_log`: a `BufWriter` of 4 bytes and a file of 10, entries of 1, 2, 4 and 6
  bytes, two Readers: an entry that does not fit, beside ones that do, in every
  possible division.
- `frames`: buffers of 7 bytes hold an array with a complete item, a bulk string
  with content and each kind of cut; the ten bytes are one for each
  distinction the code makes. 8-bit integers with 2 safe digits stand for
  64-bit ones with 18: a third digit may overflow.
- `connection`: two frames of six shapes, so that a read may end in either frame
  or span both.
- `service`: one client makes every kind of call and another sets one of its keys;
  `MaxRequests = 1` frame under way in each session besides the one being applied.
- Three clients for two permits. Backoffs of 3 bits with a maximum of 2: a
  listener whose maximum is half the range or more may wrap to 0 and never
  gives up.
- Threads and values are interchangeable and are symmetry sets in safety runs
  only. Keys are ordered and are not.
- Deadlock is not checked: at the bounds, and once everything has been closed,
  there is nothing left to do.

`MaxWrites`, `MaxMerges`, `MaxOpens`, `MaxFaults`, `MaxInbox`, `MaxFrames`,
`MaxBuffer`, `MaxBytes` and `MaxRequests` are bounds of the models and the only
ones; the proofs do not depend on their values.

### Fairness

- Threads and tasks that can run do run: weak fairness of the steps that
  finish a call, of each step of a merge, of the ticks of the intervals and of
  the shutdown branches.
- A thread waiting for the writer's mutex gets it if it is free again and
  again: strong fairness of `Write`, of the start of a merge and of
  `SyncActive`. `parking_lot::Mutex`, which the code uses, is eventually fair.
- None for callers, and none for threads that spin on an empty queue of
  Readers: nothing in `Handle::get` orders them. `ReadersReturn` says only that
  the queue does not stay empty.
- `tokio::select!` polls its branches in random order: strong fairness of
  `HandlerShutdown`. A reply that fits in the buffers gets through, one to a peer
  that is gone fails, and one that has to wait for the peer waits as long as that
  takes. Storage calls end, which is `WritesReturn` of the other model. None for
  clients, reading included, or the shutdown request.
- `Connection`: the reader keeps calling `read_frame`, and bytes written arrive
  unless the connection breaks. `Service`: frames arrive, tasks run, and the
  storage answers with a result or an error (`WritesReturn`). None for callers,
  cancellation, breaks or the shutdown.

## 4. Proofs

`BitcaskProofs` proves about `Spec` of `Bitcask`, for all sets of keys,
values and threads, all configurations and any number of writes and merges:

- `InvariantHolds`: `Spec => []IndInv`;
- `TypeCorrect`: `Spec => []TypeOK`, with no cache above its capacity;
- `KeydirCorrect`: `Spec => []KeydirValid`, the promise of `writer.rs:24` that
  the unsafe reads rely on;
- `FreshIdsCorrect`: `Spec => []FreshFileids`, `create_new` never meets an
  existing file.

*Assumptions* are those named in `Bitcask.tla`: keys are naturals (their rank
in the byte order), `NoValue` is not a value, entries have a positive length,
`"panic"` stands for no value, thread names differ from `"none"` and `"merger"`, and
the sizes and the number of Readers are positive, and the size of the `BufWriter` is a
natural number.

*Argument.* `KeydirValid` alone is not inductive. A `KeydirSet` is right only
if what the thread appended is still there (`IndexInv`), which needs that
no merge ran in between (`LockInv`). Removing a file is right only if
no key points into it, which needs that each key pointing into a file to be
removed is to be copied or has a copy, and that copies lie in files newer than
the active one (`MergeInv`). Appending keeps old entries where they are, and a
file created overwrites none, because ids grow (`FileInv`) and entries lie
within their file at distinct positions (`LogInv`). `IndInv` is the
conjunction. There is one lemma per action, two lemmas for all actions that
grow the log (`AppendFile`, `CreateFile`), and one for those that touch
neither files nor KeyDir (`QuietStep`).
The lemmas come in two layers. `CoreInv` does not say where entries are, and is
preserved also when positions are wrong, as they are after a reopening from
hints (finding 1); `PlaceInv` adds that every key, and every location in a thread's or
the merge's hands, points at an entry.

`BitcaskStatsProofs`, from the same assumptions and that the merge options are
naturals:

- `CountsCorrect`: `Spec => []CountsExact`, and `LiveNotNegative`: `live_keys`, a
  `u64` that `overwrite` counts down without a check, is never below zero in any
  state, those in the middle of a put or a merge included;
- `DeadBytesCorrect`: `Spec => []DeadBytesExact`, `dead_bytes` of a file is the
  number of its bytes that belong to entries no key points at;
- `MergesSettleCorrect`: `Spec => MergesSettle`.

*Argument.* The counts are exact only while the mutex is free. In between, an
entry counted as live may have no key yet: one that a thread has appended and
not indexed (`HandIn`), or a copy whose key still points at the original
(`NewIn`). `LiveCount` says that `live` is the number of keys that point into the
file plus these, and that every file in use has statistics; it needs `CoreInv`
only. `TotalInv` adds that `live + dead` is the number of entries and that a file
without statistics is empty; overwriting a key moves one entry from one count to
the other. `MergesSettle` needs that files written by the merge under way have no
dead entry and that every other file stays below the thresholds once the merged
ones are gone (`SettleInv`).

`dead_bytes` is a running sum of lengths in the code and a set of bytes in the
property. The two agree because entries do not overlap (`ApartInv`), so that the bytes
of one more entry are disjoint from those counted before and number its length
(`AddBytes`). An entry is unused if neither a key nor a thread that has just
appended it points at it (`Unused`); `DeadInv` says that `dead_bytes` is the size of the
bytes of the unused entries, for all files but those being merged, whose statistics
stay as they were until the file goes. It needs that no key points at the entry in a
thread's hands (`HandInv`), or indexing it would take it off the count twice.

`BitcaskProofs`, about the same `Spec`:

- `ImplementsKVStore`: `Spec => RefinesKVStore`: puts and deletes take effect when
  they change the KeyDir, gets when they look the key up, and merges and syncs not at all.
  It is linearizability with two excuses for a get, both written in `KVStore`: it may fail
  (`GetFails`), and it may miss a key while an overwriting put or a merge replaces the key's
  entry (`GetMisses`);
- `ReadersCorrect`: `Spec => []ReadersConserved`. No Reader is ever in two places, so that
  the push of `bitcask.rs:172` finds room, and none is lost as long as the entries
  written fit in the `BufWriter`.

*Argument.* The mapping computes the store from the KeyDir and the files, and
the result of a get under way from the entry in its hands, so it must be shown
that nobody changes either: files only grow, also those already removed from
the directory (`DataGrows`), so that a read finds what the lookup saw or no file at
all (`ReadInv`); what a put is about to index is its own value (`PutInv`); and a copy
holds the value of its original (`CopyInv`); `RefInv` is their conjunction. A Reader is lost
only by a panic of a read; `KeydirValid` at the time of the lookup excludes one by a wrong
position, and `SmallEntries` one by a map that ends inside the entry.

`BitcaskRecoveryProofs`, about `RecoverySpec`, for any number of kills, clean stops
and reopenings:

- `FreshAfterReopen`: `RecoverySpec => []RebuiltFreshFileids`, with a merge that is
  killed anywhere;
- `KeydirValidAfterReopen`: `RecoverySpec => []RebuiltKeydirValid`;
- `SyncedCorrect`: `RecoverySpec => []SyncedUntilMerge`;
- `NoKeyLost`, `RecoveryTypeCorrect`, `CountsAfterReopen`, `DeadBytesAfterReopen` and
  `ImplementsDurableKVStore`, on which see below.

*Argument.* `IndInv` does not survive a reopening from hints (finding 1). `FreshInv`
is what file ids need and does survive: while the store runs no id is above that
of the active file or, in a merge, of the merge file; a merge file stays until all is
copied; the active file has no hint file, so that `Writer::drop` leaves none behind; and
while the directory is read `latest` is no lower than any file read so far.
Without merges `IndInv` holds whenever an instance runs (`UnmergedInv`), because
what a stop leaves is a well-formed directory, each entry is indexed where it was
read, and the file created is new. `SyncedInv` adds that with `SyncStrategy::Always`
every entry is on the device, but for those whose call was killed between append and fsync.

What is kept (the second half of `BitcaskRecoveryProofs`):

- `NoKeyLost`: `RecoverySpec => []LiveKeysSurvive`. Wherever the process is killed, in
  the middle of a merge or of a rebuilding included, a key that was in the KeyDir,
  and for which no tombstone was just appended, is in the next KeyDir, though
  perhaps at a wrong position.
- `RecoveryTypeCorrect`: `RecoverySpec => []RecoveryTypeOK`. In particular `live_keys`
  never goes below zero, also on a KeyDir rebuilt from hints, up to a second merge.
- `CountsAfterReopen`: `RecoverySpec => []RebuiltCountsExact`.
- `DeadBytesAfterReopen`: `RecoverySpec => []RebuiltDeadBytesExact`.
- `ImplementsDurableKVStore`: `RecoverySpec => RefinesDurableKVStore`. Up to the first merge
  every set or del that returned is there after any number of kills and reopenings, one
  that did not return happened or did not, and calls are atomic in between, with the
  excuses for gets of `ImplementsKVStore`.

*Argument.* Each key is stored in a file (`StoredInv`): the hint file or, without
one, a value in the data file has it, and every tombstone of the key is
in an older file or before that value. This is kept by a merge because merge files
hold no tombstones, what is copied being values, and because a merged file goes only when
its keys have copies in newer files. Entries do not overlap (`EntriesInv`), so that
`LogIterator` passes them one at a time. A stop leaves the storing file: the active
file that `Writer::drop` removes is empty (`StopLeaves`). While the directory is read,
in the order of ids, a key whose place has been passed is in the KeyDir, and no
tombstone that could remove it is still to come (`ScanInv`). The invariant,
`SurviveInv`, was first checked by TLC with two merges. It holds of any number of merges
that copy entries (`MergeCopy`). But a second merge may follow a KeyDir rebuilt from wrong hints, and
bytes copied from a wrong position, or the panic over them, are outside the model (section 2,
Assumptions); so `LiveKeysSurvive`, `RebuiltFreshFileids` and the counts of `RecoveryTypeOK`
are stated, and proved, for directories that have seen one merge at most (`OneMerge`).

`LiveCount` holds through all of this (`CountedInv`): a turn of either loop of the rebuilding
counts one entry in the file being read and takes the superseded one from the live of the
file the KeyDir names, which has statistics because it was read before. The total is exact
only without hint files, which list no dead entry; there each entry
that `LogIterator` has passed is counted once (`ReadTotal`), and at the end of a file all are
passed. The dead bytes of a file are likewise those of the entries passed that no key points
at (`ReadDead`): an entry that is read supersedes one that was read before it, which `ReadPlace`
finds where the KeyDir says, and a tombstone is dead at once. With the file that `OpenFinish`
creates, which has no entry, this is `BytesInv` of the running instance.

For the durable store the mapping takes the last value of each key in the log when the
store is down and the KeyDir's when it is up, so the two have to agree at every stop and
start. `LatestInv` says that without merges each key points at the last of its
entries that have been indexed, and that a key that is not in the KeyDir has none, or a
tombstone last. At a kill at most one entry was appended and not indexed (`AppendedInv`), and it
comes after all others: the log then has the store's value, or that of the call that held the
mutex. While the directory is read the same holds of the entries read so far (`ScanLatest`), since
they are read in the order of the log. `DurableInv` puts this together with `RefInv`, which
makes every step of a running instance one of the abstract store.

`BitcaskReopenProofs`, about `ReopenSpec`, for every interleaving of the instance that
goes away and the one that is opened:

- `EntriesKeptCorrect`: `ReopenSpec => []EntriesKept`;
- `ReopenedAlikeCorrect`: `ReopenSpec => []ReopenedAlike`;
- `OpensUnlessEmptiedCorrect`: `ReopenSpec => []OpensUnlessEmptied`.

*Argument.* `IndInv` does not hold once both are there: the second instance creates a file
whose id the first believes to be free. `LateInv` is what is left, and still implies
`KeydirValid`: no call is under way; keys and copies lie in files up to the merge file, so
that a file still to be created holds no entry in use; each key pointing into a file to be
removed has a copy or is still to be copied; and no key points into an active file that
`Writer::drop` takes for empty. For the other
two theorems `AlikeInv` follows the second KeyDir while it is built: without a merge the first
instance changes no entry any more, the directory listed holds all its files (`ListedInv`), and of
the entries read so far each key of the second KeyDir points at the last (`IndexInvSecond`); at
the end both KeyDirs point at the last entry of each key. The second active file has a
larger id than any listed, the first one's active file among them, so that the late drop
removes another file.

`WriterFaultsProofs`, about `Spec` of `WriterFaults`, for any number of failing
operations:

- `SettledKeysCorrect`: `Spec => []SettledKeysKept`, copies lost in the drop of a
  `BufWriter` included;
- `LiveCoveredCorrect`: `Spec => []LiveCovered`.

*Argument.* A failed merge leaves files above `active_fileid`, and the next rotation
or merge may meet them. What saves the settled keys is that those leftovers follow the
active file without a gap (`FileInv`), so that a file is created only where there is
none, and never truncated; that the active file is the last of the merged ones to be removed;
and that a copy made for a settled key holds its value if it is in its file at all (`MergeInv`). `LiveInv` counts the copies
that keys are about to be pointed at, so that a merge given up halfway leaves `live`
too high and never too low. That the oldest merged file exists is the
well-ordering of the naturals (`LeastExists`).

`MappedLogProofs` proves about `Spec` of `MappedLog`, for any number of
Readers, any capacity and any sizes of entries:

- `InvariantHolds`: `Spec => []IndInv`;
- `ReadsSafe`: `Spec => []ReadsInRange`. No read of an entry that fits in the `BufWriter`
  runs past the end of the map it is made from, also in a file that holds larger entries; only
  reads of those may panic.

*Argument.* A Reader keeps a map that is long enough for the first byte of an
entry; it is safe only if no map ends inside that entry. That holds if
the file never does when it is mapped: an entry that fits is handed on by the buffer
whole (`WriterAt`), whereas a larger one is not, so
that no map ends inside an entry that fits (`MapsWhole`), and what is indexed is
in the file, since `append` flushes before it returns (`IndexInFile`). `IndInv` is
their conjunction with the types; it is also checked by the `mapped_log` run.

`ServerProofs`, about `Spec` of `Server`, for any set of clients, any limit of
connections and any backoff:

- `TypeCorrect`: `Spec => []TypeOK`;
- `PermitsCorrect`: `Spec => []PermitsConserved`, and `ServedBounded`: never are more
  connections served than `MAX_CONNECTIONS`;
- `ExitCorrect`: `Spec => []ExitsAfterHandlers`.

*Argument.* A permit is in the semaphore, with the listener between `acquire` and
`spawn`, or with a handler (`PermitInv`). Once the listener's future is dropped its
permit may be gone with it, and the sum only bounds. The Senders
of `shutdown_complete` are those of the handlers and the listener's (`SenderInv`).

`ServiceProofs`, about `Spec` of `Service`, for any number of sessions and of requests
and responses under way:

- `ImplementsRemoteStore`: `Spec => RefinesRemoteStore`.

*Assumptions:* `CallsAssumption`, that no key is `NotText`, and that `NoValue` is not a value;
and, in the model itself, that each storage operation is atomic or fails (section 2).

*Argument.* A frame sent by `Client` is parsed to the operations of its call (`CallParsed`), so
that the commands pending on the server are those of the calls made, and what each step does to
them is a fact about sequences (`PendingAppend`, `PendingNext`, `PendingRest`, `PendingCut`). A result
is that of its own call because a session that has cancelled nothing and still has its
connection has one call under way, which is in one place only: its frame is on its way,
or a handler is applying it, with the answer of a call of this kind, or its response is on its
way (`CallInv`). Once the connection is lost none of this holds and the call can only fail.
A first version of `RemoteStore` let every call on a connection not known to be lost
add its command. The proof failed for a stray session whose connection had been closed with an
old response still unread, which takes two frames under way and is beyond the bound of the `service` run;
`RemoteStore!Call` allows for it now. `RefinesRemoteStore` and the invariant
were then also checked by TLC with `MaxRequests = 2`.

*Only model-checked:*

- all liveness properties, and anything about fairness: `WritesReturn`, `ReadersReturn`,
  `TasksStop`, `ActiveFileSynced`, `FramesArrive`, `CallsReturn`, `ShutdownCompletes`,
  `ListenerGivesUp`, `HangUpsFreePermits` (beyond the prover);
- `AgreeOnLength`, `IntegersExact` and `DecidedStays` of `FrameBytes`, and `RefinesFrameChannel`
  of `Connection`: `Check` and `Parse` are recursive operators, and what they compute for every
  buffer needs an induction that the installed provers cannot make.

Every other property of a passing run is also a theorem.

## 5. Not modelled

| Part | Why |
|---|---|
| setters, defaults and loading of the configuration | no state; the options are constants |
| telemetry, start-up in `bin/svr.rs`, arguments and printing of `bin/cli.rs` | wiring and output |
| nested arrays in `write_array` | `unimplemented!` in the code, and nobody sends them |
| a torn entry that is followed by others (a failed append of a large entry) | needs the bytes of entries and their parsing at recovery; `log.rs:152` under `hazards` |
| power failures | files survive a kill as the operating system has them; `SyncedUntilMerge` and `ActiveFileSynced` say what is on the device |
| writes of a second instance beside a dying first one | `reopen` stops when it is open |
| `benches/` | measurements |

## 6. Plan

Done: all modules of section 2, the runs of section 3 and the proofs of section 4.

What could come next: writes of a second instance beside a dying first one, in
`BitcaskReopen`; a torn entry followed by others, which needs the bytes of an entry; and
a version of `Frame` with the walks as recursive functions over positions, for provers that can do
induction.
