--------------------------- MODULE BitcaskRecovery ---------------------------
(***************************************************************************)
(* A Bitcask directory across the lifetimes of the processes that open it: *)
(* the process is killed at any point, or all handles are dropped and the  *)
(* writer cleans up, and the directory is opened again, which rebuilds the *)
(* KeyDir and the statistics from the files (Bitcask::open,                *)
(* rebuild_storage and populate_keydir_with_{hintfile,datafile}).          *)
(*                                                                         *)
(* A kill in the middle of an append or of a copy leaves a torn entry at   *)
(* the end of a file nobody appends to any more; LogIterator takes it for  *)
(* the end of the file, so such a kill is one just before the append.  One *)
(* between the creation of a merge's data file and that of its hint file   *)
(* leaves an empty data file, which adds nothing to what is rebuilt.       *)
(***************************************************************************)
EXTENDS BitcaskRefinement

CONSTANT MaxOpens   \* bound of the model: reopenings

VARIABLES
  phase,    \* "open": an instance runs; "down"; "rebuild": Bitcask::open
  todo,     \* ids of the data files rebuild_storage has yet to read
  at,       \* what LogIterator has read of the file: the next hint entry's
            \* index, or the next data entry's position
  latest,   \* the highest file id met so far, -1 for none
  nopens,
  (* History: the keys that must, and that may, be there when the KeyDir   *)
  (* is next rebuilt.                                                      *)
  must, may,
  (* History: the entries whose append was killed before its fsync.        *)
  unsynced

rvars == <<phase, todo, at, latest, nopens, must, may, unsynced>>
allvars == <<vars, rvars>>

RecoveryInit ==
  /\ Init
  /\ phase = "open"
  /\ todo = {} /\ at = 0 /\ latest = -1
  /\ nopens = 0
  /\ must = {} /\ may = {} /\ unsynced = {}

-----------------------------------------------------------------------------
(* The end of a process: memory is gone, and of the files only those in    *)
(* the directory are left.                                                 *)
MemoryLost ==
  /\ keydir' = EmptyMap /\ stats' = EmptyMap
  /\ closed' = FALSE /\ lock' = "none"
  /\ active' = 0 /\ written' = 0
  /\ pool' = [r \in Readers |-> r]
  /\ cache' = [r \in Readers |-> <<>>]
  /\ pc' = [t \in Threads |-> "idle"]
  /\ req' = [t \in Threads |-> NoReq]
  /\ ent' = [t \in Threads |-> NoEnt]
  /\ rdr' = [t \in Threads |-> 0]
  /\ res' = [t \in Threads |-> "none"]
  /\ mpc' = "stopped" /\ spc' = "stopped"
  /\ mfiles' = {} /\ mtodo' = {} /\ mid' = 0 /\ mpos' = 0 /\ mnew' = EmptyMap
  /\ todo' = {} /\ at' = 0 /\ latest' = -1

\* Of the data files d, those in S are left, synchronized as far as s says.
FilesLeft(S, d, s) ==
  /\ files' = S
  /\ data' = Restrict(d, S)
  /\ synced' = Restrict(s, S)

\* The data files but for the active one if nothing was written to it.
WrittenFiles == IF written = 0 THEN files \ {active} ELSE files

\* The synchronized bytes just before the fsync of the entry that t appended.
SyncedBefore(t) ==
  IF SyncStrategy = "always" THEN Upd(synced, ent[t].fileid, ent[t].pos) ELSE synced

\* Thread t was killed inside Writer::write, behind its append: the new
\* active file is not there yet, and the entry may have missed its fsync.
KilledInWrite(t) ==
  /\ pc[t] = "index"
  /\ \/ FilesLeft(WrittenFiles, data, synced) /\ UNCHANGED unsynced
     \/ FilesLeft(WrittenFiles, data, SyncedBefore(t)) /\ unsynced' = unsynced \cup {ent[t]}

\* Keys whose set or del has reached the data file but not the KeyDir.
Unindexed(op) == {req[t].key : t \in {u \in Threads : pc[u] = "index" /\ req[u].op = op}}

\* A data file of which only the first n bytes were written.
Cut(file, n) == [size |-> n, recs |-> {rec \in file.recs : rec.pos + rec.len <= n}]

\* The copying loop of a merge is not over: its BufWriter, which is flushed
\* when it is dropped, may hold the last of the bytes copied.
Buffering == mpc = "merge" /\ \A k \in DOMAIN keydir : keydir[k].fileid <= active

\* The data files as a kill may leave them.
DataLeft ==
  IF Buffering
  THEN {Upd(data, mid, Cut(data[mid], n)) : n \in {data[mid].size} \cup {rec.pos : rec \in data[mid].recs}}
  ELSE {data}

\* The process is killed while the store is in use, in the middle of a
\* write or of a merge included.
Crash ==
  /\ phase = "open"
  /\ phase' = "down"
  /\ must' = DOMAIN keydir \ Unindexed("del")
  /\ may' = DOMAIN keydir \cup Unindexed("set")
  /\ MemoryLost
  /\ \/ \E d \in DataLeft : FilesLeft(files, d, synced) /\ UNCHANGED unsynced
     \/ \E t \in Threads : KilledInWrite(t)
  /\ UNCHANGED <<hint, bounds, nopens>>

\* The process is killed while it opens the directory.
CrashInOpen ==
  /\ phase = "rebuild"
  /\ phase' = "down"
  /\ MemoryLost /\ FilesLeft(files, data, synced)
  /\ UNCHANGED <<hint, bounds, nopens, must, may, unsynced>>

\* Writer::drop, after the Bitcask, the background tasks and every Handle:
\* the active file is removed if nothing was written to it.
DropWriter ==
  /\ phase = "open"
  /\ closed /\ mpc = "stopped" /\ spc = "stopped"
  /\ \A t \in Threads : pc[t] = "idle"
  /\ phase' = "down"
  /\ must' = DOMAIN keydir /\ may' = DOMAIN keydir
  /\ MemoryLost
  /\ FilesLeft(WrittenFiles, data, synced)
  /\ UNCHANGED <<hint, bounds, nopens, unsynced>>

-----------------------------------------------------------------------------
(* Opening *)

OpenBegin ==
  /\ phase = "down" /\ nopens < MaxOpens
  /\ phase' = "rebuild"
  /\ nopens' = nopens + 1
  /\ todo' = files
  /\ UNCHANGED <<vars, at, latest, must, may, unsynced>>

\* sorted_fileids: the file being read is the lowest one not read yet.
Current(f) == f \in todo /\ \A g \in todo : f <= g

\* Mutants of Indexed: the entry is taken to begin where it ends; the entry
\* it replaces is not counted as dead.
IndexedAtEnd(k, e, st) ==
  /\ keydir' = Upd(keydir, k, [e EXCEPT !.pos = @ + e.len])
  /\ stats' = IF k \in DOMAIN keydir THEN SupersedeIn(st, keydir[k]) ELSE st
IndexedUncounted(k, e, st) ==
  /\ keydir' = Upd(keydir, k, e)
  /\ stats' = st

\* keydir.insert(key, entry) and overwrite() of the entry it replaces, after
\* the statistics of the file read have become st.
Indexed(k, e, st) ==
  /\ keydir' = Upd(keydir, k, e)
  /\ stats' = IF k \in DOMAIN keydir THEN SupersedeIn(st, keydir[k]) ELSE st

\* Mutants of Unindex: a tombstone is skipped; the entry removed is counted
\* as dead twice, or without its bytes.
UnindexSkipped(k, st) ==
  /\ keydir' = keydir
  /\ stats' = st
UnindexTwice(k, st) ==
  /\ keydir' = Without(keydir, k)
  /\ stats' = IF k \in DOMAIN keydir
              THEN SupersedeIn(SupersedeIn(st, keydir[k]), keydir[k]) ELSE st
UnindexNoBytes(k, st) ==
  /\ keydir' = Without(keydir, k)
  /\ stats' = IF k \in DOMAIN keydir
              THEN SupersedeIn(st, [keydir[k] EXCEPT !.len = 0]) ELSE st

\* keydir.remove(key) and overwrite() of the entry removed.
Unindex(k, st) ==
  /\ keydir' = Without(keydir, k)
  /\ stats' = IF k \in DOMAIN keydir THEN SupersedeIn(st, keydir[k]) ELSE st

\* Everything a scanning step leaves alone.
ScanKeeps == <<disk, closed, lock, active, written, rds, calls, merge, spc, bounds,
               phase, todo, latest, nopens, must, may, unsynced>>

\* One turn of the loop of populate_keydir_with_hintfile.
ScanHint ==
  /\ phase = "rebuild"
  /\ \E f \in todo \cap DOMAIN hint :
       /\ Current(f) /\ at < Len(hint[f])
       /\ LET h == hint[f][at + 1]
          IN  Indexed(h.key, [fileid |-> f, pos |-> h.pos, len |-> h.len],
                      Upd(stats, f, AddLive(StatsOf(stats, f))))
       /\ at' = at + 1
  /\ UNCHANGED ScanKeeps

\* LogIterator::next on data file f: the entry at the position reached.
NextEntry(f) == {rec \in data[f].recs : rec.pos = at}

\* LogIterator::next meets the end of f's hint file or, without one, data file.
AtEnd(f) == at = IF f \in DOMAIN hint THEN Len(hint[f]) ELSE data[f].size

\* One turn of the loop of populate_keydir_with_datafile, which runs only for
\* a file without hint file.
ScanData ==
  /\ phase = "rebuild"
  /\ \E f \in todo \ DOMAIN hint : \E rec \in NextEntry(f) :
       /\ Current(f)
       /\ IF rec.val = NoValue
          THEN Unindex(rec.key, Upd(stats, f, AddDead(StatsOf(stats, f), rec.len)))
          ELSE Indexed(rec.key, [fileid |-> f, pos |-> rec.pos, len |-> rec.len],
                       Upd(stats, f, AddLive(StatsOf(stats, f))))
       /\ at' = at + rec.len
  /\ UNCHANGED ScanKeeps

\* The file is read; the next turn of the loop of rebuild_storage.
ScanNext ==
  /\ phase = "rebuild"
  /\ \E f \in todo :
       /\ Current(f) /\ AtEnd(f)
       /\ todo' = todo \ {f}
       /\ latest' = IF f > latest THEN f ELSE latest
  /\ at' = 0
  /\ UNCHANGED <<vars, phase, nopens, must, may, unsynced>>

\* Mutant of NewActive: the latest file is taken for the active one.
NewActiveReused == latest

\* The id of the first active file: the one after the latest.
NewActive == latest + 1

\* The rest of Bitcask::open: a new active file after the latest one, the
\* readers (MemoryLost has set them), the background tasks.
OpenFinish ==
  /\ phase = "rebuild" /\ todo = {}
  /\ phase' = "open"
  /\ active' = NewActive
  /\ data' = Upd(data, NewActive, EmptyFile)
  /\ files' = files \cup {NewActive}
  /\ synced' = Upd(synced, NewActive, 0)
  /\ mpc' = IF MergePolicy = "never" THEN "stopped" ELSE "sleep"
  /\ spc' = IF SyncStrategy = "interval" THEN "sleep" ELSE "stopped"
  /\ UNCHANGED <<hint, ctx, lock, stats, written, rds, calls,
                 mfiles, mtodo, mid, mpos, mnew, bounds, todo, at, latest, nopens, must, may,
                 unsynced>>

Running == phase = "open" /\ Next /\ UNCHANGED rvars

RecoveryNext ==
  \/ Running
  \/ Crash \/ CrashInOpen \/ DropWriter
  \/ OpenBegin \/ ScanHint \/ ScanData \/ ScanNext \/ OpenFinish

RecoverySpec == RecoveryInit /\ [][RecoveryNext]_allvars

-----------------------------------------------------------------------------
(* Properties *)

\* At most one merge has begun.  After a merge and a reopening the KeyDir may
\* come from wrong hints (HintsValid), and the next merge be told to copy bytes
\* where there is no entry: the code copies them all the same, or panics
\* (log.rs:218) and leaves its files behind, while MergeCopy waits for ever.
\* The properties below say nothing of such directories.
OneMerge == nmerges <= 1

\* Type invariant: that of the running instance holds all along, and no count
\* of live keys, an unsigned number in the code, goes below zero.
RecoveryTypeOK ==
  /\ TypeOK
  /\ OneMerge => \A f \in DOMAIN stats : stats[f].live >= 0
  /\ phase \in {"open", "down", "rebuild"}
  /\ todo \subseteq files
  /\ at \in Nat /\ latest \in Nat \cup {-1}
  /\ must \subseteq may /\ may \subseteq Keys
  /\ unsynced \subseteq Entries \cup {NoEnt}

\* Rebuilding has read all files.
Rebuilt == phase = "rebuild" /\ todo = {}

\* No key is lost: wherever the process was stopped, in the middle of a merge
\* included, each key that was in the KeyDir is there again after reopening
\* (though with wrong hints perhaps not where its entry is).
LiveKeysSurvive == OneMerge /\ Rebuilt => must \subseteq DOMAIN keydir

\* No deleted key comes back: a key that was not in the KeyDir, and was not
\* just being set, is not in the rebuilt one ("first 5000 keys should be
\* deleted", bitcask.rs:578).
DeletedKeysStayDeleted == Rebuilt => DOMAIN keydir \subseteq may

\* The rebuilt KeyDir and the one that evolves from it point at valid file
\* locations, as Writer promises (writer.rs:24), as long as no merge has
\* written hints.
RebuiltKeydirValid == nmerges = 0 => KeydirValid

\* The rebuilt statistics are those that a run without interruption has (what
\* bitcask_rebuilt_stats_correctly tests, bitcask.rs:591), without merges: the
\* counts of live and dead entries ...
RebuiltCountsExact == nmerges = 0 /\ phase = "open" => CountsExact

\* ... and the bytes of the dead ones.
RebuiltDeadBytesExact == nmerges = 0 /\ phase = "open" => DeadBytesExact

\* With SyncStrategy::Always every entry the KeyDir points at is on the device
\* and not only in the operating system's buffers, through kills and
\* reopenings.  The exceptions are the copies of a merge, which are never
\* synchronized, and the entries of calls killed between append and fsync
\* (writer.rs:114 and 118): the rebuilding indexes those all the same.
SyncedUntilMerge ==
  nmerges = 0 /\ SyncStrategy = "always" =>
    \A k \in DOMAIN keydir : OnDevice(keydir[k]) \/ keydir[k] \in unsynced

\* The file that Bitcask::open creates, and those created later, are new also
\* after a kill halfway through a merge or a removal of files.
RebuiltFreshFileids ==
  OneMerge => /\ DOMAIN hint \subseteq files
              /\ phase = "open" => FreshFileids
              /\ Rebuilt => NewActive \notin files

-----------------------------------------------------------------------------
(* Up to its first merge a directory is a KVStore through all stops and    *)
(* starts.                                                                 *)

\* The entries stored for key k, with their place in the log.
LogOf(k) ==
  UNION {{[fileid |-> f, pos |-> rec.pos, val |-> rec.val] :
            rec \in {r \in data[f].recs : r.key = k}} : f \in files}

Later(a, b) == a.fileid > b.fileid \/ (a.fileid = b.fileid /\ a.pos >= b.pos)

\* What the directory stores for each key: its last value.
Durable ==
  [k \in Keys |-> IF LogOf(k) = {} THEN NoValue
                  ELSE (CHOOSE a \in LogOf(k) : \A b \in LogOf(k) : Later(a, b)).val]

RKV == INSTANCE KVStore WITH store <- IF phase = "open" THEN View ELSE Durable,
                             up <- phase = "open", shut <- closed,
                             st <- CallState, call <- req, ret <- CallResult,
                             moving <- Replacing

\* Every set or del that returned is there after a stop, one that did not
\* return happened or did not, and what the rebuilding reads is what the
\* calls left: the directory is a durable store, and linearizable but for the
\* gets that miss a key whose entry is being replaced (GetMisses).
RefinesDurableKVStore ==
  RKV!Init /\ [][nmerges' = 0 => [RKV!Next]_(RKV!kvars)]_allvars
=============================================================================
