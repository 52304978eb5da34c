------------------------------- MODULE Bitcask ------------------------------
(***************************************************************************)
(* One running Bitcask instance (src/src/storage/bitcask.rs, writer.rs,    *)
(* reader.rs, context.rs): client threads that call set, get and del       *)
(* through a Handle, the merge and sync background tasks, the shared       *)
(* KeyDir, and the data and hint files in the directory.                   *)
(*                                                                         *)
(* Granularity.  set, del, merge and sync run under the writer's mutex, so *)
(* they exclude each other, but get takes no lock and the process may be   *)
(* killed at any point; the steps below are therefore cut where the KeyDir *)
(* changes and where a kill leaves another directory.  One that comes      *)
(* inside Writer::write, between append, fsync and rotation, is a case of  *)
(* BitcaskRecovery's Crash.  The instance starts on an empty directory;    *)
(* BitcaskRecovery adds crashes and reopening.                             *)
(***************************************************************************)
EXTENDS BitcaskLog, FiniteSets, Functions

CONSTANTS
  Keys,          \* the keys, as ranks in the byte order SkipMap iterates in
  Values,        \* the values a client may set
  NoValue,       \* Option::None: a tombstone's value, or an absent key's
  EntryLen,      \* bytes a serialized entry takes, by its value
  BufferSize,    \* bytes a BufWriter holds (8 KiB)
  Threads,       \* the threads that hold a Handle
  Concurrency,   \* conf.concurrency: the number of Readers in the queue
  CacheSize,     \* conf.readers_cache_size
  MaxFileSize,   \* conf.max_file_size
  SyncStrategy,  \* conf.sync: "none", "always" or "interval"
  MergePolicy,   \* conf.merge.policy: "always", "never" or "window"
  WindowStart, WindowEnd,                    \* hours of the "window" policy
  TriggerFragmentation, TriggerDeadBytes,    \* conf.merge.triggers
  ThresholdFragmentation, ThresholdDeadBytes, ThresholdSmallFile,
                                             \* conf.merge.thresholds
  MaxWrites,     \* bound of the model: set and del calls
  MaxMerges      \* bound of the model: merges that run

ASSUME KeysAssumption        == Keys \subseteq Nat
ASSUME ValuesAssumption      == NoValue \notin Values /\ "panic" \notin Values
ASSUME EntryLenAssumption    == EntryLen \in [Values \cup {NoValue} -> Nat \ {0}]
ASSUME BufferAssumption      == BufferSize \in Nat
ASSUME ThreadsAssumption     == "none" \notin Threads /\ "merger" \notin Threads
ASSUME ConcurrencyAssumption == Concurrency \in Nat \ {0}
ASSUME CacheSizeAssumption   == CacheSize \in Nat \ {0}
ASSUME FileSizeAssumption    == MaxFileSize \in Nat \ {0}
ASSUME MergeAssumption       == /\ TriggerFragmentation \in Nat /\ ThresholdFragmentation \in Nat
                                /\ TriggerDeadBytes \in Nat /\ ThresholdDeadBytes \in Nat
ASSUME StrategyAssumption    == /\ SyncStrategy \in {"none", "always", "interval"}
                                /\ MergePolicy \in {"always", "never", "window"}

VARIABLES
  (* The directory. *)
  data,      \* data file id -> contents; of unlinked files too, as a cached
             \* LogReader keeps them mapped
  files,     \* ids of the data files in the directory
  hint,      \* ids of the hint files in the directory -> their entries
  synced,    \* data file id -> bytes the device is known to hold (fsync)
  (* Context *)
  keydir,    \* key -> KeyDirEntry
  closed,
  (* Writer *)
  lock,      \* who holds the writer's mutex: "none", a thread or "merger"
  stats,     \* data file id -> LogStatistics
  active,    \* active_fileid
  written,   \* written_bytes
  (* Readers *)
  pool,      \* the queue of idle Readers
  cache,     \* Reader -> its LogDir
  (* The threads' calls. *)
  pc,        \* "idle"; "wait" past the closed check; "index" after the
             \* append, holding the mutex; "read" with a Reader and a KeyDir
             \* entry in hand; "ret" with a result
  req,       \* the call's arguments
  ent,       \* the KeyDirEntry in the thread's hands
  rdr,       \* the Reader it has taken
  res,       \* the call's result
  (* merge_on_interval and Writer::merge; sync_on_interval *)
  mpc,       \* "sleep", "wait" for the mutex, "merge", "stopped"
  mfiles,    \* fileids_to_merge, as yet not removed
  mtodo,     \* keys whose entries are still to be copied
  mid, mpos, \* merge_fileid, merge_pos
  mnew,      \* new_keydir_entries, as yet not in the KeyDir
  spc,       \* "sleep", "wait" for the mutex, "stopped"
  (* Bounds of the model. *)
  nwrites, nmerges

disk   == <<data, files, hint, synced>>
ctx    == <<keydir, closed>>
writer == <<lock, stats, active, written>>
rds    == <<pool, cache>>
calls  == <<pc, req, ent, rdr, res>>
merge  == <<mpc, mfiles, mtodo, mid, mpos, mnew>>
bounds == <<nwrites, nmerges>>
vars   == <<disk, ctx, writer, rds, calls, merge, spc, bounds>>

Readers  == 1..Concurrency
Requests == [op : {"set"}, key : Keys, val : Values]
              \cup [op : {"get", "del"}, key : Keys, val : {NoValue}]
Entries  == [fileid : Nat, pos : Nat, len : Nat \ {0}]
Errors   == {"closed", "io_error", "corrupt", "panic"}
Results  == {"none", "ok", "true", "false"} \cup Errors \cup Values \cup {NoValue}

NoReq == [op |-> "none", key |-> 0, val |-> NoValue]
NoEnt == [fileid |-> 0, pos |-> 0, len |-> 0]

-----------------------------------------------------------------------------
(* Opening an empty directory: rebuild_storage finds no file, the active   *)
(* file is 0, the readers are queued and the background tasks start, or    *)
(* return at once if the configuration has no work for them.               *)
Init ==
  /\ data = [f \in {0} |-> EmptyFile]
  /\ files = {0}
  /\ hint = EmptyMap
  /\ synced = [f \in {0} |-> 0]
  /\ keydir = EmptyMap
  /\ closed = FALSE
  /\ lock = "none"
  /\ stats = EmptyMap
  /\ active = 0
  /\ written = 0
  /\ pool = [r \in Readers |-> r]
  /\ cache = [r \in Readers |-> <<>>]
  /\ pc = [t \in Threads |-> "idle"]
  /\ req = [t \in Threads |-> NoReq]
  /\ ent = [t \in Threads |-> NoEnt]
  /\ rdr = [t \in Threads |-> 0]
  /\ res = [t \in Threads |-> "none"]
  /\ mpc = IF MergePolicy = "never" THEN "stopped" ELSE "sleep"
  /\ mfiles = {}
  /\ mtodo = {}
  /\ mid = 0
  /\ mpos = 0
  /\ mnew = EmptyMap
  /\ spc = IF SyncStrategy = "interval" THEN "sleep" ELSE "stopped"
  /\ nwrites = 0
  /\ nmerges = 0

-----------------------------------------------------------------------------
(* Calls through a Handle *)

\* Handle::put, Handle::delete and Handle::get begin: each looks at the
\* closed flag once, before it takes the mutex or a reader.
Call(t, r) ==
  /\ pc[t] = "idle"
  /\ r.op # "get" => nwrites < MaxWrites
  /\ req' = [req EXCEPT ![t] = r]
  /\ pc' = [pc EXCEPT ![t] = IF closed THEN "ret" ELSE "wait"]
  /\ res' = [res EXCEPT ![t] = IF closed THEN "closed" ELSE @]
  /\ nwrites' = IF r.op = "get" \/ closed THEN nwrites ELSE nwrites + 1
  /\ UNCHANGED <<disk, ctx, writer, rds, ent, rdr, merge, spc, nmerges>>

\* Mutant of NextFileid: the id does not grow.
NextFileidStays == active

\* The id of the data file that follows the active one.
NextFileid == active + 1

\* Mutant of SyncAfterWrite: fsync comes before the entry is flushed.
SyncBeforeWrite(size) ==
  IF SyncStrategy = "always" THEN Upd(synced, active, written) ELSE synced

\* LogWriter::sync after an append that left the active file at `size` bytes.
SyncAfterWrite(size) ==
  IF SyncStrategy = "always" THEN Upd(synced, active, size) ELSE synced

\* Whether the entry just appended makes the active file too large.
Exceeds(len) == written + len > MaxFileSize

\* Writer::write under the mutex: append the entry (a tombstone for del) and
\* flush it, fsync if the strategy is "always", count it, and as the last
\* step open a new active file if this one has become too large.
Write(t) ==
  LET val    == req[t].val
      len    == EntryLen[val]
      st     == StatsOf(stats, active)
      after  == AppendEntry(data[active], req[t].key, val, len)
      rotate == Exceeds(len)
      grown  == Upd(data, active, after)
      forced == SyncAfterWrite(after.size)
  IN
  /\ pc[t] = "wait" /\ req[t].op \in {"set", "del"}
  /\ lock = "none"
  /\ lock' = t
  /\ pc' = [pc EXCEPT ![t] = "index"]
  /\ ent' = [ent EXCEPT ![t] = EntryIndex(active, data[active], len)]
  /\ stats' = Upd(stats, active, IF val = NoValue THEN AddDead(st, len) ELSE AddLive(st))
  /\ data' = IF rotate THEN Upd(grown, NextFileid, EmptyFile) ELSE grown
  /\ files' = IF rotate THEN files \cup {NextFileid} ELSE files
  /\ synced' = IF rotate THEN Upd(forced, NextFileid, 0) ELSE forced
  /\ active' = IF rotate THEN NextFileid ELSE active
  /\ written' = IF rotate THEN 0 ELSE written + len
  /\ UNCHANGED <<hint, ctx, rds, req, rdr, res, merge, spc, bounds>>

\* The statistics once key k no longer points at its present entry, if any.
Superseded(k) == IF k \in DOMAIN keydir THEN SupersedeIn(stats, keydir[k]) ELSE stats

\* The rest of Writer::put: the key points at the new entry, the entry it
\* pointed at is dead, and the mutex is released.
KeydirSet(t) ==
  /\ pc[t] = "index" /\ req[t].op = "set"
  /\ keydir' = Upd(keydir, req[t].key, ent[t])
  /\ stats' = Superseded(req[t].key)
  /\ res' = [res EXCEPT ![t] = "ok"]
  /\ pc' = [pc EXCEPT ![t] = "ret"]
  /\ lock' = "none"
  /\ UNCHANGED <<disk, closed, active, written, rds, req, ent, rdr, merge, spc, bounds>>

\* Mutant of DelResult: the result does not depend on the key.
DelAlwaysTrue(k) == "true"

\* What Writer::delete returns: whether the key was there.
DelResult(k) == IF k \in DOMAIN keydir THEN "true" ELSE "false"

\* The rest of Writer::delete: the key is removed and the result tells
\* whether it was there.
KeydirRemove(t) ==
  /\ pc[t] = "index" /\ req[t].op = "del"
  /\ keydir' = Without(keydir, req[t].key)
  /\ stats' = Superseded(req[t].key)
  /\ res' = [res EXCEPT ![t] = DelResult(req[t].key)]
  /\ pc' = [pc EXCEPT ![t] = "ret"]
  /\ lock' = "none"
  /\ UNCHANGED <<disk, closed, active, written, rds, req, ent, rdr, merge, spc, bounds>>

\* Mutants of PopReader and PushReader: a Reader taken stays in the queue; a
\* Reader is not given back.
PeekReader == pool
LoseReader(queue, r) == queue

\* ArrayQueue::pop and ArrayQueue::push of Handle::get.
PopReader == Tail(pool)
PushReader(queue, r) == Append(queue, r)

\* The keys that a put or a merge is about to point at another entry.
\* SkipMap::insert takes the present entry out before the new one is in, so
\* until the insert is over (KeydirSet, MergeKeydirSet) a lookup, which takes
\* no lock, may find the key or miss it.
Replacing ==
  DOMAIN keydir \cap
    ({req[t].key : t \in {u \in Threads : pc[u] = "index" /\ req[u].op = "set"}}
       \cup (IF mpc = "merge" /\ mtodo = {} THEN DOMAIN mnew ELSE {}))

\* Handle::get takes a Reader (it spins while there is none) and Reader::get
\* looks the key up.  If there is no entry the Reader goes back at once.
GetLookup(t) ==
  /\ pc[t] = "wait" /\ req[t].op = "get"
  /\ pool # <<>>
  /\ \/ /\ req[t].key \in DOMAIN keydir
        /\ pool' = PopReader
        /\ rdr' = [rdr EXCEPT ![t] = Head(pool)]
        /\ ent' = [ent EXCEPT ![t] = keydir[req[t].key]]
        /\ pc' = [pc EXCEPT ![t] = "read"]
        /\ UNCHANGED res
     \/ /\ req[t].key \notin DOMAIN keydir \/ req[t].key \in Replacing
        /\ pool' = PushReader(PopReader, Head(pool))
        /\ res' = [res EXCEPT ![t] = NoValue]
        /\ pc' = [pc EXCEPT ![t] = "ret"]
        /\ UNCHANGED <<rdr, ent>>
  /\ UNCHANGED <<disk, ctx, writer, cache, req, merge, spc, bounds>>

\* LogDir::read finds the file in the Reader's cache or in the directory.
Reachable(c, fileid) == Cached(c, fileid) \/ fileid \in files

\* What LogDir::read returns for the entry e to a Reader with LogDir c.
ReadResult(c, e) ==
  IF Reachable(c, e.fileid) THEN ReadAt(data[e.fileid], e.pos, e.len) ELSE "io_error"

\* LogReader::at keeps a map that ends behind e.pos.  A map in the cache may
\* end inside e if it was made while part of e was in the file, and the slice
\* then panics; an entry that fits in the BufWriter is never there in part
\* (MappedLog has the details).
MapEndsInside(c, e) == Cached(c, e.fileid) /\ e.len > BufferSize

\* LogDir::read with the entry looked up before, then the Reader goes back to
\* the queue.  A panic unwinds past the push and the Reader is lost.
GetRead(t) ==
  LET c == cache[rdr[t]] IN
  /\ pc[t] = "read"
  /\ \E out \in {ReadResult(c, ent[t])} \cup (IF MapEndsInside(c, ent[t]) THEN {"panic"} ELSE {}) :
       /\ cache' = [cache EXCEPT ![rdr[t]] =
                      IF Reachable(c, ent[t].fileid) /\ out # "panic"
                      THEN Touch(c, ent[t].fileid, CacheSize) ELSE @]
       /\ pool' = IF out = "panic" THEN pool ELSE PushReader(pool, rdr[t])
       /\ res' = [res EXCEPT ![t] = out]
  /\ rdr' = [rdr EXCEPT ![t] = 0]
  /\ pc' = [pc EXCEPT ![t] = "ret"]
  /\ UNCHANGED <<disk, ctx, writer, req, ent, merge, spc, bounds>>

\* The call returns to its caller.
Return(t) ==
  /\ pc[t] = "ret"
  /\ pc' = [pc EXCEPT ![t] = "idle"]
  /\ req' = [req EXCEPT ![t] = NoReq]
  /\ ent' = [ent EXCEPT ![t] = NoEnt]
  /\ res' = [res EXCEPT ![t] = "none"]
  /\ UNCHANGED <<disk, ctx, writer, rds, rdr, merge, spc, bounds>>

\* Bitcask::drop: the closed flag is set and the shutdown channel closes.
\* Calls under way are not waited for.
Close ==
  /\ ~closed
  /\ closed' = TRUE
  /\ UNCHANGED <<disk, keydir, writer, rds, calls, merge, spc, bounds>>

\* Mutant of ShutdownReceived: the Sender outlives the Bitcask.
ShutdownMissed == FALSE

\* Shutdown::recv returns: the last Sender of the channel, which the Bitcask
\* holds, has been dropped.
ShutdownReceived == closed

-----------------------------------------------------------------------------
(* Merging *)

\* The interval has passed: Handle::merge looks at the closed flag.  (On a
\* closed store it fails at once and the task goes back to sleep.)
MergeTick ==
  /\ mpc = "sleep" /\ ~closed
  /\ nmerges < MaxMerges
  /\ mpc' = "wait"
  /\ UNCHANGED <<disk, ctx, writer, rds, calls, mfiles, mtodo, mid, mpos, mnew, spc, bounds>>

\* Writer::can_merge at the given hour of the day.
CanMerge(hour) ==
  /\ MergePolicy # "never"
  /\ MergePolicy = "window" => ~(hour < WindowStart \/ hour > WindowEnd)
  /\ \E f \in DOMAIN stats : \/ stats[f].deadBytes > TriggerDeadBytes
                             \/ FragmentationAbove(stats[f], TriggerFragmentation)

\* Mutant of FileidsToMerge: files are not included for their dead bytes.
FileidsByFragmentation ==
  {f \in DOMAIN stats : \/ FragmentationAbove(stats[f], ThresholdFragmentation)
                        \/ data[f].size < ThresholdSmallFile}

\* Writer::fileids_to_merge
FileidsToMerge ==
  {f \in DOMAIN stats : \/ stats[f].deadBytes > ThresholdDeadBytes
                        \/ FragmentationAbove(stats[f], ThresholdFragmentation)
                        \/ data[f].size < ThresholdSmallFile}

MergeSkip ==
  /\ mpc = "wait" /\ lock = "none"
  /\ {hour \in 0..23 : ~CanMerge(hour)} # {}
  /\ mpc' = "sleep"
  /\ UNCHANGED <<disk, ctx, writer, rds, calls, mfiles, mtodo, mid, mpos, mnew, spc, bounds>>

\* Writer::merge chooses the files and creates the first merge data file and
\* hint file.  The mutex is held until MergeFinish.
MergeBegin ==
  /\ mpc = "wait" /\ lock = "none"
  /\ {hour \in 0..23 : CanMerge(hour)} # {}
  /\ mpc' = "merge"
  /\ lock' = "merger"
  /\ mfiles' = FileidsToMerge
  /\ mtodo' = {k \in DOMAIN keydir : keydir[k].fileid \in FileidsToMerge}
  /\ mid' = NextFileid
  /\ mpos' = 0
  /\ data' = Upd(data, NextFileid, EmptyFile)
  /\ files' = files \cup {NextFileid}
  /\ synced' = Upd(synced, NextFileid, 0)
  /\ hint' = Upd(hint, NextFileid, <<>>)
  /\ nmerges' = nmerges + 1
  /\ UNCHANGED <<ctx, stats, active, written, rds, calls, mnew, spc, nwrites>>

\* The hint-file entry written for key k, which sits at e.
HintEntry(k, e) == [key |-> k, pos |-> e.pos, len |-> e.len]

\* Mutant of MergedEntry: the position is still that in the old file.
MergedAtOldPos(e) == [fileid |-> mid, pos |-> e.pos, len |-> e.len]

\* The KeyDir entry for a key whose entry e has been copied.
MergedEntry(e) == [fileid |-> mid, pos |-> mpos, len |-> e.len]

\* The merge file has become too large.
MergeExceeds(len) == mpos + len > MaxFileSize

\* The body of the copying loop for key k and its entry rec: the raw bytes go
\* to the merge data file, the hint entry to the hint file, and when the merge
\* file has become too large the next pair is created.
CopyEntry(k, rec) ==
  LET e      == keydir[k]
      full   == MergeExceeds(e.len)
      copied == Upd(data, mid, AppendEntry(data[mid], rec.key, rec.val, e.len))
      hinted == Upd(hint, mid, Append(hint[mid], HintEntry(k, e)))
  IN
  /\ mtodo' = mtodo \ {k}
  /\ mnew' = Upd(mnew, k, MergedEntry(e))
  /\ stats' = Upd(stats, mid, AddLive(StatsOf(stats, mid)))
  /\ data' = IF full THEN Upd(copied, mid + 1, EmptyFile) ELSE copied
  /\ hint' = IF full THEN Upd(hinted, mid + 1, <<>>) ELSE hinted
  /\ files' = IF full THEN files \cup {mid + 1} ELSE files
  /\ synced' = IF full THEN Upd(synced, mid + 1, 0) ELSE synced
  /\ mid' = IF full THEN mid + 1 ELSE mid
  /\ mpos' = IF full THEN 0 ELSE mpos + e.len

\* What LogDir::copy finds where key k points (KeydirValid says there is one).
CopySource(k) ==
  {rec \in data[keydir[k].fileid].recs : rec.pos = keydir[k].pos /\ rec.len = keydir[k].len}

\* One turn of the copying loop, keys in order.
MergeCopy ==
  /\ mpc = "merge"
  /\ \E k \in mtodo : /\ \A j \in mtodo : k <= j
                       /\ \E rec \in CopySource(k) : CopyEntry(k, rec)
  /\ UNCHANGED <<ctx, lock, active, written, rds, calls, mpc, mfiles, spc, bounds>>

\* All entries are copied; one key is pointed at its copy.
MergeKeydirSet ==
  /\ mpc = "merge" /\ mtodo = {}
  /\ \E k \in DOMAIN mnew : /\ keydir' = Upd(keydir, k, mnew[k])
                            /\ mnew' = Without(mnew, k)
  /\ UNCHANGED <<disk, closed, writer, rds, calls, mpc, mfiles, mtodo, mid, mpos, spc, bounds>>

\* Mutant of Removing: files are removed while entries are still to be copied.
RemovingEarly == mpc = "merge" /\ DOMAIN mnew = {}

\* All keys are moved; removal of the merged files has begun.
Removing == mpc = "merge" /\ mtodo = {} /\ DOMAIN mnew = {}

\* Mutants of HintGone: the data file goes first; the data file is only
\* removed where there is a hint file.
HintIgnored(f) == TRUE
HintRequired(f) == f \in DOMAIN hint

\* The data file of f is removed once its hint file is gone, or if it has none.
HintGone(f) == f \notin DOMAIN hint

\* The hint file of the oldest merged file goes first, with its statistics.
MergeRemoveHint ==
  /\ Removing
  /\ \E f \in mfiles : /\ \A g \in mfiles : f <= g
                       /\ ~HintGone(f)
                       /\ hint' = Without(hint, f)
                       /\ stats' = Without(stats, f)
  /\ UNCHANGED <<data, files, synced, ctx, lock, active, written, rds, calls, merge, spc, bounds>>

\* Then its data file.
MergeRemoveData ==
  /\ Removing
  /\ \E f \in mfiles : /\ \A g \in mfiles : f <= g
                       /\ HintGone(f)
                       /\ files' = files \ {f}
                       /\ stats' = Without(stats, f)
                       /\ mfiles' = mfiles \ {f}
  /\ UNCHANGED <<data, hint, synced, ctx, lock, active, written, rds, calls,
                 mpc, mtodo, mid, mpos, mnew, spc, bounds>>

\* new_active_datafile(merge_fileid + 1), and the mutex is released.
MergeFinish ==
  /\ Removing /\ mfiles = {}
  /\ data' = Upd(data, mid + 1, EmptyFile)
  /\ files' = files \cup {mid + 1}
  /\ synced' = Upd(synced, mid + 1, 0)
  /\ active' = mid + 1
  /\ written' = 0
  /\ lock' = "none"
  /\ mpc' = "sleep"
  /\ mid' = 0
  /\ mpos' = 0
  /\ UNCHANGED <<hint, ctx, stats, rds, calls, mfiles, mtodo, mnew, spc, bounds>>

\* The shutdown branch of the select in merge_on_interval.
MergeStop ==
  /\ mpc = "sleep" /\ ShutdownReceived
  /\ mpc' = "stopped"
  /\ UNCHANGED <<disk, ctx, writer, rds, calls, mfiles, mtodo, mid, mpos, mnew, spc, bounds>>

-----------------------------------------------------------------------------
(* Periodic synchronization *)

\* The interval has passed: Handle::sync looks at the closed flag.
SyncTick ==
  /\ spc = "sleep" /\ ~closed
  /\ spc' = "wait"
  /\ UNCHANGED <<disk, ctx, writer, rds, calls, merge, bounds>>

\* Mutant of SyncActive: the buffer is flushed and nothing synchronized.
FlushActive ==
  /\ spc = "wait" /\ lock = "none"
  /\ spc' = "sleep"
  /\ UNCHANGED <<disk, ctx, writer, rds, calls, merge, bounds>>

\* Writer::sync under the mutex: fsync of the file being written.
SyncActive ==
  /\ spc = "wait" /\ lock = "none"
  /\ synced' = Upd(synced, active, data[active].size)
  /\ spc' = "sleep"
  /\ UNCHANGED <<data, files, hint, ctx, writer, rds, calls, merge, bounds>>

\* The shutdown branch of the select in sync_on_interval.
SyncStop ==
  /\ spc = "sleep" /\ ShutdownReceived
  /\ spc' = "stopped"
  /\ UNCHANGED <<disk, ctx, writer, rds, calls, merge, bounds>>

-----------------------------------------------------------------------------

Finish(t) == KeydirSet(t) \/ KeydirRemove(t) \/ GetRead(t) \/ Return(t)

MergeStep == \/ MergeCopy \/ MergeKeydirSet \/ MergeRemoveHint
             \/ MergeRemoveData \/ MergeFinish

Next ==
  \/ \E t \in Threads : \/ \E r \in Requests : Call(t, r)
                        \/ Write(t) \/ KeydirSet(t) \/ KeydirRemove(t)
                        \/ GetLookup(t) \/ GetRead(t) \/ Return(t)
  \/ Close
  \/ MergeTick \/ MergeSkip \/ MergeBegin \/ MergeStep \/ MergeStop
  \/ SyncTick \/ SyncActive \/ SyncStop

Spec == Init /\ [][Next]_vars

(* Threads that can run do run.  A thread waiting for the mutex gets it if *)
(* it is free again and again (parking_lot's mutex is eventually fair).    *)
(* Nothing is assumed of threads that spin for a Reader, nor of callers.   *)
Fairness ==
  /\ \A t \in Threads : WF_vars(Finish(t)) /\ SF_vars(Write(t))
  /\ WF_vars(MergeTick) /\ SF_vars(MergeSkip \/ MergeBegin) /\ WF_vars(MergeStep)
  /\ WF_vars(MergeStop)
  /\ WF_vars(SyncTick) /\ SF_vars(SyncActive) /\ WF_vars(SyncStop)

LiveSpec == Spec /\ Fairness

-----------------------------------------------------------------------------
(* Properties *)

\* In the data files d, entry e is the byte range of a value stored for key k.
Locates(d, e, k) ==
  /\ e.fileid \in DOMAIN d
  /\ \E rec \in d[e.fileid].recs :
       rec.pos = e.pos /\ rec.len = e.len /\ rec.key = k /\ rec.val \in Values

\* The bytes of entry e have been synchronized.
OnDevice(e) == e.pos + e.len <= synced[e.fileid]

Records   == [pos : Nat, len : Nat \ {0}, key : Keys, val : Values \cup {NoValue}]
DataFiles == [size : Nat, recs : SUBSET Records]
Hints     == [key : Keys, pos : Nat, len : Nat \ {0}]
LogStats  == [live : Int, dead : Nat, deadBytes : Nat]

\* Type invariant.  No LogDir holds more files than its capacity.
TypeOK ==
  /\ data \in [DOMAIN data -> DataFiles] /\ DOMAIN data \subseteq Nat
  /\ files \subseteq DOMAIN data
  /\ hint \in [DOMAIN hint -> Seq(Hints)]
  /\ synced \in [DOMAIN data -> Nat]
  /\ keydir \in [DOMAIN keydir -> Entries] /\ DOMAIN keydir \subseteq Keys
  /\ closed \in BOOLEAN
  /\ lock \in Threads \cup {"none", "merger"}
  /\ stats \in [DOMAIN stats -> LogStats]
  /\ active \in Nat /\ written \in Nat
  /\ pool \in Seq(Readers)
  /\ cache \in [Readers -> Seq(DOMAIN data)]
  /\ \A r \in Readers : Len(cache[r]) <= CacheSize
  /\ pc \in [Threads -> {"idle", "wait", "index", "read", "ret"}]
  /\ req \in [Threads -> Requests \cup {NoReq}]
  /\ ent \in [Threads -> Entries \cup {NoEnt}]
  /\ rdr \in [Threads -> Readers \cup {0}]
  /\ res \in [Threads -> Results]
  /\ mpc \in {"sleep", "wait", "merge", "stopped"}
  /\ mfiles \subseteq Nat /\ mtodo \subseteq Keys
  /\ mid \in Nat /\ mpos \in Nat
  /\ mnew \in [DOMAIN mnew -> Entries] /\ DOMAIN mnew \subseteq Keys
  /\ spc \in {"sleep", "wait", "stopped"}
  /\ nwrites \in Nat /\ nmerges \in Nat

\* The KeyDir always points at valid file locations: every entry is, in a
\* file of the directory, the byte range of a value stored for that key, also
\* halfway through a put, a del or a merge.  (What writer.rs:24 promises and
\* what the unsafe reads of reader.rs:34 and writer.rs:195 rely on.)
KeydirValid ==
  \A k \in DOMAIN keydir : keydir[k].fileid \in files /\ Locates(data, keydir[k], k)

\* The keys that point into data file f.
KeysIn(f) == {k \in DOMAIN keydir : keydir[k].fileid = f}

\* Whenever the mutex is free the counts that drive the merge decisions are
\* exact: they cover the files that hold entries, `live` is the number of
\* keys that point into the file, and `dead` that of the remaining entries.
CountsExact ==
  lock = "none" =>
    /\ DOMAIN stats = {f \in files : data[f].recs # {}}
    /\ \A f \in DOMAIN stats :
         /\ stats[f].live = Cardinality(KeysIn(f))
         /\ stats[f].live + stats[f].dead = Cardinality(data[f].recs)

\* The bytes that entries of one data file take up.
BytesOf(recs) == UNION {rec.pos .. rec.pos + rec.len - 1 : rec \in recs}

\* ... and `deadBytes` is the number of bytes in entries that no key points at.
DeadBytesExact ==
  lock = "none" =>
    \A f \in DOMAIN stats :
      LET live == {keydir[k].pos : k \in KeysIn(f)}
      IN  stats[f].deadBytes = Cardinality(BytesOf({rec \in data[f].recs : rec.pos \notin live}))

\* Every entry written so far fits in a BufWriter.
SmallEntries == \A f \in DOMAIN data : \A rec \in data[f].recs : rec.len <= BufferSize

\* A Reader is in the queue once or in the hands of one thread: the push that
\* returns it never finds the queue full (the "unreachable error" of
\* bitcask.rs:172).  And as long as every entry written fits in a BufWriter,
\* no Reader is lost, whatever way a get fails; the panic of a get of a larger
\* one (log.rs:193) does lose its Reader.
ReadersConserved ==
  /\ \A i, j \in 1..Len(pool) : i # j => pool[i] # pool[j]
  /\ \A r \in Readers : (\E i \in 1..Len(pool) : pool[i] = r)
                        => (\A t \in Threads : pc[t] = "read" => rdr[t] # r)
  /\ SmallEntries => \A r \in Readers : \/ \E i \in 1..Len(pool) : pool[i] = r
                                        \/ \E t \in Threads : pc[t] = "read" /\ rdr[t] = r
  /\ \A t, u \in Threads : t # u /\ pc[t] = "read" /\ pc[u] = "read" => rdr[t] # rdr[u]

\* create_new never finds the file it is to create: the ids of the next
\* active file and of the next merge file are above every id in use, and no
\* hint file is left without its data file.
FreshFileids ==
  /\ DOMAIN hint \subseteq files
  /\ \A f \in files : f < (IF mpc = "merge" THEN mid ELSE active) + 1

\* What KeydirValid rests on.  The entries of a file lie within it and no two
\* begin at the same byte.
WellFormed(file) ==
  /\ \A rec \in file.recs : rec.pos + rec.len <= file.size
  /\ \A r1, r2 \in file.recs : r1.pos = r2.pos => r1 = r2

LogInv == \A f \in DOMAIN data : WellFormed(data[f])

\* The mutex is held by the thread that has appended and not yet indexed, or
\* by the merge under way, and a thread that reads holds a Reader.
LockInv ==
  /\ \A t \in Threads : pc[t] = "index" => lock = t /\ req[t].op \in {"set", "del"}
  /\ mpc = "merge" <=> lock = "merger"
  /\ \A t \in Threads : pc[t] = "read" => rdr[t] \in Readers

\* File ids grow: the newest file is the active one or, during a merge, the
\* merge file; statistics are kept of known files only.
FileInv ==
  /\ \A f \in DOMAIN data : f <= (IF mpc = "merge" THEN mid ELSE active)
  /\ active \in DOMAIN data
  /\ mpc # "merge" => active \in files
  /\ DOMAIN stats \subseteq DOMAIN data
  /\ DOMAIN hint \subseteq files

\* What a thread is about to put in the KeyDir is in the directory.
IndexInv ==
  \A t \in Threads : pc[t] = "index" /\ req[t].op = "set" =>
    ent[t].fileid \in files /\ Locates(data, ent[t], req[t].key)

\* During a merge, each key that points into a file to be removed is still to
\* be copied or has a valid copy; merge_pos is the end of the merge file.
MergeInv ==
  IF mpc = "merge"
  THEN /\ mid \in files /\ mid \in DOMAIN hint /\ active < mid
       /\ mpos = data[mid].size
       /\ \A f \in mfiles : f <= active
       /\ mtodo \subseteq DOMAIN keydir
       /\ \A k \in DOMAIN keydir : keydir[k].fileid \in mfiles => k \in mtodo \cup DOMAIN mnew
       /\ \A k \in DOMAIN mnew : /\ mnew[k].fileid \in files
                                 /\ active < mnew[k].fileid
                                 /\ Locates(data, mnew[k], k)
  ELSE mfiles = {} /\ mtodo = {} /\ DOMAIN mnew = {}

\* The inductive invariant: the KeyDir points at valid file locations, for
\* the reasons above.
IndInv == /\ TypeOK /\ LogInv /\ LockInv /\ FileInv /\ IndexInv /\ MergeInv /\ KeydirValid

\* A hint file says where its keys are in the data file it belongs to: it
\* holds "the KeyDir entry" of each (writer.rs:222).
HintsValid ==
  \A f \in DOMAIN hint : \A i \in 1..Len(hint[f]) :
    LET h == hint[f][i] IN Locates(data, [fileid |-> f, pos |-> h.pos, len |-> h.len], h.key)

\* A call past the closed check returns: a set or del that waits for the
\* mutex, or holds it, is not starved by other writers, merges and syncs.
WritesReturn ==
  \A t \in Threads : pc[t] = "wait" /\ req[t].op \in {"set", "del"} ~> pc[t] = "ret"

\* Threads that spin for a Reader do not spin on an empty queue for ever, unless
\* an entry that does not fit in a BufWriter has been written, over which
\* Readers may be lost.
ReadersReturn == pool = <<>> ~> pool # <<>> \/ ~SmallEntries

\* A merge leaves nothing to merge: with thresholds no higher than triggers,
\* each file that made can_merge true is merged, its statistics go with it,
\* and the merge files have no dead entries.  Otherwise the check of every
\* interval would rewrite the store, or create empty files, for ever.
MergesSettle ==
  [][/\ ThresholdDeadBytes <= TriggerDeadBytes
     /\ ThresholdFragmentation <= TriggerFragmentation
     /\ MergeFinish
     => \A hour \in 0..23 : ~CanMerge(hour)']_vars

\* Once the Bitcask is dropped both background tasks stop.
TasksStop == closed ~> mpc = "stopped" /\ spc = "stopped"

\* With a synchronization interval, what was written to the active file is
\* eventually synchronized, unless the writer leaves that file first.
ActiveFileSynced ==
  SyncStrategy = "interval" =>
    \A k \in Keys :
      k \in DOMAIN keydir /\ keydir[k].fileid = active /\ ~closed
        ~> \/ closed \/ k \notin DOMAIN keydir
           \/ keydir[k].fileid # active \/ OnDevice(keydir[k])
=============================================================================
