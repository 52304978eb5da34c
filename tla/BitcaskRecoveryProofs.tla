------------------------ MODULE BitcaskRecoveryProofs ------------------------
(***************************************************************************)
(* Proofs about a Bitcask directory across kills, clean stops, a merge and *)
(* reopenings, for every instance of the constants and any number of kills,*)
(* stops and reopenings: file ids, what the KeyDir points at, what is on   *)
(* the device, which keys are kept, the statistics, and that the directory *)
(* is a durable store.  The invariants hold of any number of merges in the *)
(* model; the properties claim no more than the first (OneMerge).          *)
(***************************************************************************)
EXTENDS BitcaskRecovery, BitcaskStatsProofs

(* File ids.  After a merge the KeyDir may be rebuilt from hints that point
   at wrong locations, so the invariant of a running instance does not hold
   across a reopening; what keeps file ids fresh is weaker and does. *)

\* The newest file of a running instance.
Newest == IF mpc = "merge" THEN mid ELSE active

\* A file that is being merged into stays until everything is copied, and the
\* active file has no hint file, so that Writer::drop leaves none behind.
FreshInv ==
  /\ files \subseteq Nat /\ active \in Nat /\ mid \in Nat /\ latest \in Nat \cup {-1}
  /\ DOMAIN hint \subseteq files
  /\ pc \in [Threads -> {"idle", "wait", "index", "read", "ret"}]
  /\ \A t \in Threads : pc[t] = "index" => lock = t
  /\ mpc = "merge" => lock = "merger"
  /\ phase # "open" => mpc = "stopped"
  /\ phase = "open" => \A f \in files : f <= Newest
  /\ phase = "open" /\ mpc # "merge" => active \notin DOMAIN hint
  /\ mpc = "merge" /\ mtodo # {} => mid \in files
  /\ phase = "rebuild" => /\ todo \subseteq files
                          /\ \A f \in files \ todo : f <= latest

\* Between two processes: the memory is empty, or is being rebuilt.
StoppedCore ==
  /\ TypeOK /\ LogInv /\ CoreKeydir
  /\ DOMAIN data = files
  /\ lock = "none" /\ mpc = "stopped"
  /\ active = 0 /\ written = 0
  /\ \A t \in Threads : pc[t] = "idle"
  /\ mfiles = {} /\ mtodo = {} /\ DOMAIN mnew = {}
  /\ DOMAIN stats \subseteq files
  /\ at \in Nat

(* Directories that no merge has written to. *)

\* What is rebuilt from the data files is where it is said to be.
StoppedInv == StoppedCore /\ KeydirValid

\* A running instance satisfies its own invariant whatever stops came before.
UnmergedInv ==
  nmerges = 0 => /\ DOMAIN hint = {}
                 /\ mpc # "merge"
                 /\ IF phase = "open" THEN IndInv ELSE StoppedInv

\* The KeyDir entry that points at entry rec of file f.
Place(f, rec) == [fileid |-> f, pos |-> rec.pos, len |-> rec.len]

\* Every entry of a data file is on the device or was killed before its fsync.
EntriesSynced ==
  \A f \in DOMAIN data : \A rec \in data[f].recs :
    rec.pos + rec.len <= synced[f] \/ Place(f, rec) \in unsynced

\* The entry that a thread has appended and not indexed is the last of its
\* file, so that a kill before its fsync leaves the others on the device.
AppendedLast ==
  \A t \in Threads : pc[t] = "index" =>
    \A rec \in data[ent[t].fileid].recs :
      rec.pos + rec.len <= ent[t].pos \/ Place(ent[t].fileid, rec) = ent[t]

\* What SyncStrategy::Always keeps.
SyncedInv ==
  nmerges = 0 /\ SyncStrategy = "always" => EntriesSynced /\ AppendedLast

RecoveryInv == FreshInv /\ UnmergedInv /\ SyncedInv /\ nmerges \in Nat

-----------------------------------------------------------------------------
(* File ids *)

\* A step of a call keeps file ids fresh.
LEMMA CallFresh ==
  ASSUME FreshInv, phase = "open", UNCHANGED rvars, NEW t \in Threads,
         \/ \E r \in Requests : Call(t, r)
         \/ Write(t) \/ KeydirSet(t) \/ KeydirRemove(t)
         \/ GetLookup(t) \/ GetRead(t) \/ Return(t)
  PROVE  FreshInv'
<1>0. /\ phase' = "open" /\ latest' = latest /\ todo' = todo
      /\ t # "merger"
  BY ThreadsAssumption DEF rvars
<1>1. CASE Write(t)
  <2>0. /\ mpc # "merge" /\ mpc' = mpc /\ mid' = mid /\ hint' = hint /\ mtodo' = mtodo
        /\ lock = "none" /\ lock' = t /\ pc' = [pc EXCEPT ![t] = "index"]
    BY <1>1 DEF Write, FreshInv, merge
  <2>1. CASE Exceeds(EntryLen[req[t].val])
    <3>1. files' = files \cup {active + 1} /\ active' = active + 1
      BY <1>1, <2>1 DEF Write, NextFileid
    <3>2. QED
      BY <1>0, <2>0, <3>1, ThreadsAssumption DEF FreshInv, Newest
  <2>2. CASE ~Exceeds(EntryLen[req[t].val])
    <3>1. files' = files /\ active' = active
      BY <1>1, <2>2 DEF Write
    <3>2. QED
      BY <1>0, <2>0, <3>1, ThreadsAssumption DEF FreshInv, Newest
  <2>3. QED
    BY <2>1, <2>2
<1>2. CASE ~Write(t)
  <2>0. /\ UNCHANGED <<files, hint, active, mpc, mid, mtodo>>
        /\ \/ KeydirSet(t) \/ KeydirRemove(t)
           \/ lock' = lock /\ \A u \in Threads : pc'[u] = "index" => pc[u] = "index"
        /\ pc' \in [Threads -> {"idle", "wait", "index", "read", "ret"}]
    BY <1>2 DEF FreshInv, Call, KeydirSet, KeydirRemove, GetLookup, GetRead, Return,
                disk, ctx, writer, rds, calls, merge
  <2>1. CASE KeydirSet(t) \/ KeydirRemove(t)
    <3>1. /\ pc[t] = "index" /\ pc' = [pc EXCEPT ![t] = "ret"] /\ lock' = "none"
      BY <2>1 DEF KeydirSet, KeydirRemove
    <3>2. \A u \in Threads : pc'[u] # "index"
      BY <3>1 DEF FreshInv
    <3>3. QED
      BY <1>0, <2>0, <3>1, <3>2 DEF FreshInv, Newest
  <2>2. CASE lock' = lock /\ \A u \in Threads : pc'[u] = "index" => pc[u] = "index"
    BY <1>0, <2>0, <2>2 DEF FreshInv, Newest
  <2>3. QED
    BY <2>0, <2>1, <2>2
<1>3. QED
  BY <1>1, <1>2

\* So does every step of a merge ...
LEMMA MergeFresh ==
  ASSUME FreshInv, phase = "open", UNCHANGED rvars, MergeBegin \/ MergeStep
  PROVE  FreshInv'
<1>0. phase' = "open" /\ latest' = latest /\ todo' = todo
  BY DEF rvars
<1>1. CASE MergeBegin
  <2>1. /\ mpc # "merge" /\ mpc' = "merge" /\ lock = "none" /\ lock' = "merger"
        /\ mid' = active + 1 /\ files' = files \cup {active + 1}
        /\ hint' = Upd(hint, active + 1, <<>>) /\ active' = active /\ pc' = pc
    BY <1>1 DEF MergeBegin, NextFileid, calls
  <2>2. DOMAIN hint' = DOMAIN hint \cup {active + 1}
    BY <2>1, UpdDomain
  <2>3. \A u \in Threads : pc[u] # "index"
    BY <2>1, ThreadsAssumption DEF FreshInv
  <2>4. QED
    BY <1>0, <2>1, <2>2, <2>3 DEF FreshInv, Newest
<1>2. CASE MergeCopy
  <2>1. /\ mpc = "merge" /\ mpc' = mpc /\ lock' = lock /\ active' = active /\ pc' = pc
        /\ mtodo # {}
    BY <1>2 DEF MergeCopy, calls
  <2>2. PICK k, rec : CopyEntry(k, rec)
    BY <1>2 DEF MergeCopy
  <2>3. CASE MergeExceeds(keydir[k].len)
    <3>1. /\ files' = files \cup {mid + 1} /\ mid' = mid + 1
          /\ DOMAIN hint' = DOMAIN hint \cup {mid} \cup {mid + 1}
      BY <2>2, <2>3 DEF CopyEntry, Upd
    <3>2. QED
      BY <1>0, <2>1, <3>1 DEF FreshInv, Newest
  <2>4. CASE ~MergeExceeds(keydir[k].len)
    <3>1. /\ files' = files /\ mid' = mid /\ DOMAIN hint' = DOMAIN hint \cup {mid}
      BY <2>2, <2>4 DEF CopyEntry, Upd
    <3>2. QED
      BY <1>0, <2>1, <3>1 DEF FreshInv, Newest
  <2>5. QED
    BY <2>3, <2>4
<1>3. CASE MergeKeydirSet
  <2>1. UNCHANGED <<files, hint, active, lock, pc, mpc, mid, mtodo>>
    BY <1>3 DEF MergeKeydirSet, disk, writer, calls
  <2>2. QED
    BY <1>0, <2>1 DEF FreshInv, Newest
<1>4. CASE MergeRemoveHint
  <2>1. PICK f : hint' = Without(hint, f)
    BY <1>4 DEF MergeRemoveHint
  <2>2. /\ UNCHANGED <<files, active, lock, pc, mpc, mid, mtodo>>
        /\ DOMAIN hint' \subseteq DOMAIN hint
    BY <1>4, <2>1 DEF MergeRemoveHint, calls, merge, Without
  <2>3. QED
    BY <1>0, <2>2 DEF FreshInv, Newest
<1>5. CASE MergeRemoveData
  <2>1. PICK f \in mfiles : f \notin DOMAIN hint /\ files' = files \ {f}
    BY <1>5 DEF MergeRemoveData, HintGone
  <2>2. /\ UNCHANGED <<hint, active, lock, pc, mpc, mid, mtodo>>
        /\ mtodo = {}
    BY <1>5 DEF MergeRemoveData, Removing, calls
  <2>3. QED
    BY <1>0, <2>1, <2>2 DEF FreshInv, Newest
<1>6. CASE MergeFinish
  <2>1. /\ mpc = "merge" /\ mpc' = "sleep" /\ lock' = "none" /\ mid' = 0
        /\ active' = mid + 1 /\ files' = files \cup {mid + 1}
        /\ hint' = hint /\ pc' = pc
    BY <1>6 DEF MergeFinish, Removing, calls
  <2>2. \A u \in Threads : pc[u] # "index"
    BY <2>1, ThreadsAssumption DEF FreshInv
  <2>3. QED
    BY <1>0, <2>1, <2>2 DEF FreshInv, Newest
<1>7. QED
  BY <1>1, <1>2, <1>3, <1>4, <1>5, <1>6 DEF MergeStep

\* ... and every step of a running instance.
LEMMA RunningFresh ==
  ASSUME FreshInv, Running
  PROVE  FreshInv'
<1>0. phase = "open" /\ Next /\ UNCHANGED rvars
  BY DEF Running
<1>1. CASE Close \/ MergeTick \/ MergeSkip \/ MergeStop \/ SyncTick \/ SyncActive \/ SyncStop
  <2>1. /\ UNCHANGED <<files, hint, active, lock, pc, mid, mtodo, phase, latest, todo>>
        /\ mpc' = "merge" <=> mpc = "merge"
    BY <1>0, <1>1 DEF Close, MergeTick, MergeSkip, MergeStop, SyncTick, SyncActive, SyncStop,
                      rvars, disk, ctx, writer, calls, merge
  <2>2. QED
    BY <1>0, <2>1 DEF FreshInv, Newest
<1>2. QED
  BY <1>0, <1>1, CallFresh, MergeFresh DEF Next

\* A stop removes no file but an empty active one, and none during a merge.
LEMMA StopFiles ==
  ASSUME FreshInv, Crash \/ CrashInOpen \/ DropWriter
  PROVE  files' = files \/ (files' = WrittenFiles /\ phase = "open" /\ mpc # "merge")
<1>1. CASE Crash
  <2>1. \/ \E d \in DataLeft : FilesLeft(files, d, synced)
        \/ \E t \in Threads : KilledInWrite(t)
    BY <1>1 DEF Crash
  <2>2. CASE \E d \in DataLeft : FilesLeft(files, d, synced)
    BY <2>2 DEF FilesLeft
  <2>3. ASSUME NEW t \in Threads, KilledInWrite(t)
        PROVE  files' = WrittenFiles /\ mpc # "merge"
    <3>1. files' = WrittenFiles /\ pc[t] = "index"
      BY <2>3 DEF KilledInWrite, FilesLeft
    <3>2. QED
      BY <3>1, ThreadsAssumption DEF FreshInv
  <2>4. QED
    BY <1>1, <2>1, <2>2, <2>3 DEF Crash
<1>2. CASE CrashInOpen
  BY <1>2 DEF CrashInOpen, FilesLeft
<1>3. CASE DropWriter
  BY <1>3 DEF DropWriter, FilesLeft
<1>4. QED
  BY <1>1, <1>2, <1>3

\* Stopping and reopening keep file ids fresh: rebuild_storage meets every
\* file and Bitcask::open creates the one after the highest.
LEMMA ReopenFresh ==
  ASSUME FreshInv,
         \/ Crash \/ CrashInOpen \/ DropWriter
         \/ OpenBegin \/ ScanHint \/ ScanData \/ ScanNext \/ OpenFinish
  PROVE  FreshInv'
<1>1. CASE Crash \/ CrashInOpen \/ DropWriter
  <2>1. /\ phase' = "down" /\ mpc' = "stopped" /\ lock' = "none"
        /\ active' = 0 /\ mid' = 0 /\ latest' = -1 /\ mtodo' = {}
        /\ hint' = hint /\ pc' = [u \in Threads |-> "idle"]
    BY <1>1 DEF Crash, CrashInOpen, DropWriter, MemoryLost
  <2>2. files' \subseteq files /\ DOMAIN hint \subseteq files'
    <3>1. files' = files \/ (files' = WrittenFiles /\ phase = "open" /\ mpc # "merge")
      BY <1>1, StopFiles
    <3>2. QED
      BY <3>1 DEF WrittenFiles, FreshInv
  <2>3. QED
    BY <2>1, <2>2 DEF FreshInv
<1>2. CASE OpenBegin
  <2>1. /\ phase' = "rebuild" /\ todo' = files
        /\ UNCHANGED <<files, hint, active, lock, pc, mpc, mid, mtodo, latest>>
        /\ phase = "down"
    BY <1>2 DEF OpenBegin, vars, disk, ctx, writer, calls, merge
  <2>2. QED
    BY <2>1 DEF FreshInv
<1>3. CASE ScanHint \/ ScanData
  <2>1. UNCHANGED <<files, hint, active, lock, pc, mpc, mid, mtodo, latest, phase, todo>>
    BY <1>3 DEF ScanHint, ScanData, ScanKeeps, disk, calls, merge
  <2>2. phase = "rebuild"
    BY <1>3 DEF ScanHint, ScanData
  <2>3. QED
    BY <2>1, <2>2 DEF FreshInv
<1>4. CASE ScanNext
  <2>1. PICK f \in todo : /\ todo' = todo \ {f}
                          /\ latest' = IF f > latest THEN f ELSE latest
    BY <1>4 DEF ScanNext
  <2>2. /\ phase = "rebuild" /\ phase' = phase
        /\ UNCHANGED <<files, hint, active, lock, pc, mpc, mid, mtodo>>
    BY <1>4 DEF ScanNext, vars, disk, ctx, writer, calls, merge
  <2>. todo \subseteq files /\ files \subseteq Nat
    BY <2>2 DEF FreshInv
  <2>. latest \in Nat \cup {-1}
    BY DEF FreshInv
  <2>3. f \in Nat /\ latest \in Int
    OBVIOUS
  <2>4. latest <= latest' /\ f <= latest' /\ latest' \in Nat \cup {-1}
    BY <2>1, <2>3 DEF FreshInv
  <2>5. ASSUME NEW g \in files', g \notin todo'
        PROVE  g <= latest'
    <3>1. g = f \/ g <= latest
      BY <2>1, <2>2, <2>5 DEF FreshInv
    <3>2. g \in Int /\ latest' \in Int
      BY <2>2, <2>4, <2>5 DEF FreshInv
    <3>3. QED
      BY <2>3, <2>4, <3>1, <3>2
  <2>6. todo' \subseteq files'
    BY <2>1, <2>2 DEF FreshInv
  <2>7. QED
    BY <2>2, <2>4, <2>5, <2>6 DEF FreshInv
<1>5. CASE OpenFinish
  <2>1. /\ phase = "rebuild" /\ todo = {} /\ phase' = "open"
        /\ active' = latest + 1 /\ files' = files \cup {latest + 1}
        /\ UNCHANGED <<hint, lock, pc, mid, mtodo, latest, todo>>
        /\ mpc' # "merge"
    BY <1>5 DEF OpenFinish, NewActive, calls
  <2>2. QED
    BY <2>1 DEF FreshInv, Newest
<1>6. QED
  BY <1>1, <1>2, <1>3, <1>4, <1>5

-----------------------------------------------------------------------------
(* Stopping and reopening *)

\* A data file as a stop leaves it: whole or, if it is the merge file, without
\* the entries that were still in the BufWriter.
Remains(f, left) ==
  \/ left = data[f]
  \/ mpc = "merge" /\ f = mid /\ \E n \in Nat : left = Cut(data[f], n)

\* What the stop of a process leaves: no memory, and some of the data files.
LEMMA StopLeaves ==
  ASSUME TypeOK, mpc = "merge" => mid \in DOMAIN data, Crash \/ CrashInOpen \/ DropWriter
  PROVE  /\ MemoryLost /\ phase' = "down" /\ UNCHANGED <<hint, nwrites, nmerges>>
         /\ files' \subseteq files /\ synced' \in [files' -> Nat]
         /\ data' = [f \in files' |-> data'[f]]
         /\ \A f \in files' : Remains(f, data'[f])
<1>0. /\ files \subseteq DOMAIN data /\ data \in [DOMAIN data -> DataFiles]
      /\ synced \in [DOMAIN data -> Nat]
  BY DEF TypeOK
<1>1. ASSUME Crash, NEW d \in DataLeft, FilesLeft(files, d, synced)
      PROVE  /\ files' \subseteq files /\ synced' \in [files' -> Nat]
             /\ data' = [f \in files' |-> data'[f]]
             /\ \A f \in files' : Remains(f, data'[f])
  <2>2. \A f \in files : Remains(f, d[f])
    <3>1. CASE Buffering
      <4>1. PICK n \in {data[mid].size} \cup {rec.pos : rec \in data[mid].recs} :
              d = Upd(data, mid, Cut(data[mid], n))
        BY <1>1, <3>1 DEF DataLeft
      <4>2. mpc = "merge" /\ mid \in DOMAIN data
        BY <3>1 DEF Buffering
      <4>3. n \in Nat
        BY <1>0, <4>1, <4>2 DEF DataFiles, Records
      <4>4. QED
        BY <1>0, <4>1, <4>2, <4>3 DEF Upd, Remains
    <3>2. CASE ~Buffering
      BY <1>1, <3>2 DEF DataLeft, Remains
    <3>3. QED
      BY <3>1, <3>2
  <2>3. QED
    BY <1>0, <1>1, <2>2 DEF FilesLeft, Restrict
<1>2. ASSUME NEW S \in SUBSET files, NEW s, FilesLeft(S, data, s), \A f \in files : s[f] \in Nat
      PROVE  /\ files' \subseteq files /\ synced' \in [files' -> Nat]
             /\ data' = [f \in files' |-> data'[f]]
             /\ \A f \in files' : Remains(f, data'[f])
  BY <1>2 DEF FilesLeft, Restrict, Remains
<1>3. WrittenFiles \in SUBSET files /\ \A f \in files : synced[f] \in Nat
  BY <1>0 DEF WrittenFiles
<1>4. ASSUME NEW t \in Threads, NEW f \in files
      PROVE  SyncedBefore(t)[f] \in Nat
  <2>1. ent[t] \in Entries \cup {NoEnt}
    BY DEF TypeOK
  <2>2. ent[t].pos \in Nat
    BY <2>1 DEF Entries, NoEnt
  <2>3. QED
    BY <1>0, <2>2 DEF SyncedBefore, Upd
<1>5. CASE Crash
  <2>1. \/ \E d \in DataLeft : FilesLeft(files, d, synced)
        \/ \E t \in Threads : KilledInWrite(t)
    BY <1>5 DEF Crash
  <2>2. ASSUME NEW t \in Threads, KilledInWrite(t)
        PROVE  /\ files' \subseteq files /\ synced' \in [files' -> Nat]
               /\ data' = [f \in files' |-> data'[f]]
               /\ \A f \in files' : Remains(f, data'[f])
    <3>1. CASE FilesLeft(WrittenFiles, data, synced)
      BY <1>2, <1>3, <3>1
    <3>2. CASE FilesLeft(WrittenFiles, data, SyncedBefore(t))
      BY <1>2, <1>3, <1>4, <3>2
    <3>3. QED
      BY <2>2, <3>1, <3>2 DEF KilledInWrite
  <2>3. MemoryLost /\ phase' = "down" /\ UNCHANGED <<hint, nwrites, nmerges>>
    BY <1>5 DEF Crash, bounds
  <2>4. QED
    BY <1>1, <1>5, <2>1, <2>2, <2>3
<1>6. CASE CrashInOpen
  BY <1>2, <1>3, <1>6 DEF CrashInOpen, bounds
<1>7. CASE DropWriter
  BY <1>2, <1>3, <1>7 DEF DropWriter, bounds
<1>8. QED
  BY <1>5, <1>6, <1>7

\* A file that is cut is well formed.
LEMMA RemainsType ==
  ASSUME TypeOK, LogInv, NEW f \in DOMAIN data, NEW left, Remains(f, left)
  PROVE  /\ left \in DataFiles /\ WellFormed(left) /\ left.recs \subseteq data[f].recs
         /\ mpc # "merge" \/ f # mid => left = data[f]
<1>1. data[f] \in DataFiles /\ WellFormed(data[f])
  BY DEF TypeOK, LogInv
<1>2. CASE left = data[f]
  BY <1>1, <1>2
<1>3. CASE mpc = "merge" /\ f = mid /\ \E n \in Nat : left = Cut(data[f], n)
  BY <1>1, <1>3 DEF Cut, DataFiles, WellFormed
<1>4. QED
  BY <1>2, <1>3 DEF Remains

\* The files that a process leaves are well formed, and nothing of what it had
\* in memory is left.
LEMMA StopCore ==
  ASSUME TypeOK, LogInv, mpc = "merge" => mid \in DOMAIN data,
         Crash \/ CrashInOpen \/ DropWriter
  PROVE  StoppedCore' /\ DOMAIN keydir' = {}
<1>1. /\ MemoryLost /\ phase' = "down" /\ UNCHANGED <<hint, nwrites, nmerges>>
      /\ files' \subseteq files /\ synced' \in [files' -> Nat]
      /\ data' = [f \in files' |-> data'[f]]
      /\ \A f \in files' : Remains(f, data'[f])
  BY StopLeaves
<1>2. /\ files \subseteq DOMAIN data /\ DOMAIN data \subseteq Nat
  BY DEF TypeOK
<1>3. /\ DOMAIN data' = files' /\ DOMAIN data' \subseteq Nat
      /\ data' \in [DOMAIN data' -> DataFiles] /\ synced' \in [DOMAIN data' -> Nat]
      /\ \A f \in files' : WellFormed(data'[f])
  <2>1. \A f \in files' : data'[f] \in DataFiles /\ WellFormed(data'[f])
    BY <1>1, <1>2, RemainsType
  <2>2. DOMAIN data' = files' /\ synced' \in [files' -> Nat]
    BY <1>1, <1>2
  <2>3. QED
    BY <1>1, <1>2, <2>1, <2>2
<1>4. LogInv'
  BY <1>3 DEF LogInv
<1>5. TypeOK'
  <2>1. pool' \in Seq(Readers)
    <3>1. pool' = [r \in 1..Concurrency |-> r]
      BY <1>1 DEF Readers, MemoryLost
    <3>2. QED
      BY <3>1, ConcurrencyAssumption DEF Readers
  <2>2. /\ cache' \in [Readers -> Seq(DOMAIN data')]
        /\ \A r \in Readers : Len(cache'[r]) <= CacheSize
    BY <1>1, CacheSizeAssumption DEF MemoryLost
  <2>3. /\ keydir' \in [DOMAIN keydir' -> Entries] /\ stats' \in [DOMAIN stats' -> LogStats]
        /\ mnew' \in [DOMAIN mnew' -> Entries]
        /\ DOMAIN keydir' = {} /\ DOMAIN mnew' = {}
    BY <1>1 DEF EmptyMap, MemoryLost
  <2>4. /\ req' \in [Threads -> Requests \cup {NoReq}] /\ ent' \in [Threads -> Entries \cup {NoEnt}]
        /\ rdr' \in [Threads -> Readers \cup {0}] /\ res' \in [Threads -> Results]
        /\ pc' \in [Threads -> {"idle", "wait", "index", "read", "ret"}]
    BY <1>1 DEF Results, MemoryLost
  <2>5. closed' \in BOOLEAN /\ lock' \in Threads \cup {"none", "merger"}
    BY <1>1, Zenon DEF MemoryLost
  <2>6. /\ active' \in Nat /\ written' \in Nat /\ mid' \in Nat /\ mpos' \in Nat
        /\ mfiles' \subseteq Nat /\ mtodo' \subseteq Keys
        /\ mpc' = "stopped" /\ spc' = "stopped"
    BY <1>1 DEF MemoryLost
  <2>7. /\ hint' \in [DOMAIN hint' -> Seq(Hints)] /\ nwrites' \in Nat /\ nmerges' \in Nat
    BY <1>1 DEF TypeOK
  <2>8. QED
    BY <1>3, <2>1, <2>2, <2>3, <2>4, <2>5, <2>6, <2>7 DEF TypeOK
<1>6. /\ DOMAIN keydir' = {} /\ DOMAIN mnew' = {} /\ DOMAIN stats' = {}
      /\ lock' = "none" /\ mpc' = "stopped" /\ active' = 0 /\ written' = 0
      /\ \A t \in Threads : pc'[t] = "idle"
      /\ mfiles' = {} /\ mtodo' = {} /\ at' = 0
  BY <1>1 DEF MemoryLost, EmptyMap
<1>7. CoreKeydir'
  BY <1>6 DEF CoreKeydir
<1>8. QED
  BY <1>3, <1>4, <1>5, <1>6, <1>7 DEF StoppedCore

\* The steps of Bitcask::open that only turn to the next file.
LEMMA StoppedKept ==
  ASSUME StoppedCore, OpenBegin \/ ScanNext
  PROVE  StoppedCore'
<1>1. UNCHANGED vars /\ at' \in Nat
  BY DEF OpenBegin, ScanNext, StoppedCore
<1>2. TypeOK' /\ LogInv' /\ CoreKeydir'
  BY <1>1 DEF StoppedCore, TypeOK, LogInv, CoreKeydir,
              vars, disk, ctx, writer, rds, calls, merge, bounds
<1>3. QED
  BY <1>1, <1>2 DEF StoppedCore, vars, disk, ctx, writer, rds, calls, merge, bounds

\* Indexing or removing a key while the files are read keeps the types and
\* the files that statistics are kept of.
LEMMA ScanStatsType ==
  ASSUME NEW st, st \in [DOMAIN st -> LogStats], NEW e \in Entries
  PROVE  /\ SupersedeIn(st, e) \in [DOMAIN SupersedeIn(st, e) -> LogStats]
         /\ DOMAIN SupersedeIn(st, e) = DOMAIN st \cup {e.fileid}
<1>1. e.len \in Nat
  BY DEF Entries
<1>2. Overwrite(StatsOf(st, e.fileid), e.len) \in LogStats
  BY <1>1, StatsOfType, CountType
<1>3. QED
  BY <1>2, UpdType, UpdDomain DEF SupersedeIn

\* What one turn of the loop of populate_keydir_with_{hintfile,datafile} does.
LEMMA ScanForm ==
  ASSUME StoppedCore, FreshInv, ScanHint \/ ScanData
  PROVE  \E f \in files, k \in Keys, n \in Nat \ {0}, e \in Entries :
           /\ e.fileid = f /\ at' \in Nat
           /\ \/ Unindex(k, Upd(stats, f, AddDead(StatsOf(stats, f), n)))
              \/ Indexed(k, e, Upd(stats, f, AddLive(StatsOf(stats, f))))
<1>0. /\ TypeOK /\ (phase = "rebuild" => todo \subseteq files) /\ files \subseteq Nat
      /\ DOMAIN data = files /\ data \in [DOMAIN data -> DataFiles]
      /\ hint \in [DOMAIN hint -> Seq(Hints)] /\ phase = "rebuild"
  BY DEF StoppedCore, FreshInv, TypeOK, ScanHint, ScanData
<1>1. CASE ScanHint
  <2>1. PICK f \in todo \cap DOMAIN hint :
          /\ at < Len(hint[f])
          /\ LET h == hint[f][at + 1]
             IN  Indexed(h.key, [fileid |-> f, pos |-> h.pos, len |-> h.len],
                         Upd(stats, f, AddLive(StatsOf(stats, f))))
    BY <1>1 DEF ScanHint
  <2>2. hint[f][at + 1] \in Hints
    <3>1. hint[f] \in Seq(Hints) /\ at \in Nat
      BY <1>0, <2>1 DEF StoppedCore
    <3>2. at + 1 \in 1..Len(hint[f])
      BY <2>1, <3>1
    <3>3. QED
      BY <3>1, <3>2
  <2> DEFINE h == hint[f][at + 1]
             e == [fileid |-> f, pos |-> h.pos, len |-> h.len]
  <2>3. h.key \in Keys /\ h.len \in Nat \ {0} /\ e \in Entries /\ f \in files
    BY <1>0, <2>2 DEF Hints, Entries
  <2>4. e.fileid = f /\ Indexed(h.key, e, Upd(stats, f, AddLive(StatsOf(stats, f))))
    BY <2>1
  <2>6. at' \in Nat
    BY <1>1 DEF ScanHint, StoppedCore
  <2> HIDE DEF h, e
  <2>5. QED
    BY <2>3, <2>4, <2>6
<1>2. CASE ScanData
  <2>1. PICK f \in todo \ DOMAIN hint : \E r \in NextEntry(f) :
          /\ at' = at + r.len
          /\ IF r.val = NoValue
             THEN Unindex(r.key, Upd(stats, f, AddDead(StatsOf(stats, f), r.len)))
             ELSE Indexed(r.key, [fileid |-> f, pos |-> r.pos, len |-> r.len],
                          Upd(stats, f, AddLive(StatsOf(stats, f))))
    BY <1>2 DEF ScanData
  <2>2. PICK rec \in data[f].recs :
          /\ at' = at + rec.len
          /\ IF rec.val = NoValue
             THEN Unindex(rec.key, Upd(stats, f, AddDead(StatsOf(stats, f), rec.len)))
             ELSE Indexed(rec.key, [fileid |-> f, pos |-> rec.pos, len |-> rec.len],
                          Upd(stats, f, AddLive(StatsOf(stats, f))))
    BY <2>1 DEF NextEntry
  <2> DEFINE e == [fileid |-> f, pos |-> rec.pos, len |-> rec.len]
  <2>3. rec \in Records /\ f \in files
    BY <1>0, <2>2 DEF DataFiles
  <2>4. rec.key \in Keys /\ rec.len \in Nat \ {0} /\ e \in Entries /\ e.fileid = f
    BY <1>0, <2>3 DEF Records, Entries
  <2>5. \/ Unindex(rec.key, Upd(stats, f, AddDead(StatsOf(stats, f), rec.len)))
        \/ Indexed(rec.key, e, Upd(stats, f, AddLive(StatsOf(stats, f))))
    BY <2>2
  <2>6. at' \in Nat
    BY <2>2, <2>4 DEF StoppedCore
  <2> HIDE DEF e
  <2>7. QED
    BY <2>3, <2>4, <2>5, <2>6
<1>3. QED
  BY <1>1, <1>2

\* It keeps the types, whether the entry it indexes is there or not.
LEMMA ScanCore ==
  ASSUME StoppedCore, FreshInv, ScanHint \/ ScanData
  PROVE  StoppedCore'
<1>2. PICK f \in files, k \in Keys, n \in Nat \ {0}, e \in Entries :
        /\ e.fileid = f /\ at' \in Nat
        /\ \/ Unindex(k, Upd(stats, f, AddDead(StatsOf(stats, f), n)))
           \/ Indexed(k, e, Upd(stats, f, AddLive(StatsOf(stats, f))))
  BY ScanForm
<1>3. /\ UNCHANGED <<data, files, hint, synced, closed, lock, active, written, pool, cache>>
      /\ UNCHANGED <<pc, req, ent, rdr, res, mpc, mfiles, mtodo, mid, mpos, mnew, spc, nwrites, nmerges>>
  BY DEF ScanHint, ScanData, ScanKeeps, disk, rds, calls, merge, bounds
<1>5. /\ TypeOK /\ keydir \in [DOMAIN keydir -> Entries] /\ DOMAIN keydir \subseteq Keys
      /\ stats \in [DOMAIN stats -> LogStats] /\ DOMAIN stats \subseteq files
      /\ \A j \in DOMAIN keydir : keydir[j].fileid \in files
  BY DEF StoppedCore, TypeOK, CoreKeydir
<1> DEFINE dead == Upd(stats, f, AddDead(StatsOf(stats, f), n))
           live == Upd(stats, f, AddLive(StatsOf(stats, f)))
<1>8. \E st \in {dead, live} : stats' = IF k \in DOMAIN keydir THEN SupersedeIn(st, keydir[k]) ELSE st
  BY <1>2 DEF Unindex, Indexed
<1>9. keydir' = Without(keydir, k) \/ keydir' = Upd(keydir, k, e)
  BY <1>2 DEF Unindex, Indexed
<1>10. /\ dead \in [DOMAIN dead -> LogStats] /\ DOMAIN dead = DOMAIN stats \cup {f}
       /\ live \in [DOMAIN live -> LogStats] /\ DOMAIN live = DOMAIN stats \cup {f}
  <2>1. AddDead(StatsOf(stats, f), n) \in LogStats /\ AddLive(StatsOf(stats, f)) \in LogStats
    BY <1>5, StatsOfType, CountType
  <2>2. QED
    BY <1>5, <2>1, UpdType, UpdDomain
<1> HIDE DEF dead, live
<1>11. stats' \in [DOMAIN stats' -> LogStats] /\ DOMAIN stats' \subseteq files
  <2>1. PICK st \in {dead, live} : stats' = IF k \in DOMAIN keydir THEN SupersedeIn(st, keydir[k]) ELSE st
    BY <1>8
  <2>2. st \in [DOMAIN st -> LogStats] /\ DOMAIN st \subseteq files
    BY <1>5, <1>10
  <2>3. CASE k \in DOMAIN keydir
    <3>1. keydir[k] \in Entries /\ keydir[k].fileid \in files
      BY <1>5, <2>3
    <3>2. /\ SupersedeIn(st, keydir[k]) \in [DOMAIN SupersedeIn(st, keydir[k]) -> LogStats]
          /\ DOMAIN SupersedeIn(st, keydir[k]) = DOMAIN st \cup {keydir[k].fileid}
      BY <2>2, <3>1, ScanStatsType
    <3>3. stats' = SupersedeIn(st, keydir[k])
      BY <2>1, <2>3
    <3>4. QED
      BY <2>2, <3>1, <3>2, <3>3
  <2>4. CASE k \notin DOMAIN keydir
    BY <2>1, <2>2, <2>4
  <2>5. QED
    BY <2>3, <2>4
<1>12. /\ keydir' \in [DOMAIN keydir' -> Entries] /\ DOMAIN keydir' \subseteq Keys
       /\ CoreKeydir'
  <2>1. CASE keydir' = Without(keydir, k)
    <3>1. DOMAIN keydir' \subseteq DOMAIN keydir /\ \A j \in DOMAIN keydir' : keydir'[j] = keydir[j]
      BY <2>1 DEF Without
    <3>2. QED
      BY <1>3, <1>5, <2>1, <3>1, WithoutType DEF CoreKeydir
  <2>2. CASE keydir' = Upd(keydir, k, e)
    <3>1. keydir' \in [DOMAIN keydir' -> Entries] /\ DOMAIN keydir' = DOMAIN keydir \cup {k}
      BY <1>5, <2>2, UpdType, UpdDomain
    <3>2. \A j \in DOMAIN keydir' : keydir'[j] = e \/ (j \in DOMAIN keydir /\ keydir'[j] = keydir[j])
      BY <2>2 DEF Upd
    <3>3. QED
      BY <1>2, <1>3, <1>5, <3>1, <3>2 DEF CoreKeydir
  <2>3. QED
    BY <1>9, <2>1, <2>2
<1>13. TypeOK'
  BY <1>3, <1>5, <1>11, <1>12 DEF TypeOK
<1>14. LogInv'
  BY <1>3 DEF StoppedCore, LogInv
<1>15. QED
  BY <1>2, <1>3, <1>11, <1>12, <1>13, <1>14 DEF StoppedCore

\* Without hints the KeyDir is also kept valid: an entry is indexed at the
\* location it was read from.
LEMMA ScanUnmerged ==
  ASSUME StoppedInv, FreshInv, ScanData
  PROVE  StoppedInv'
<1>1. PICK f \in todo \ DOMAIN hint : \E r \in NextEntry(f) :
        IF r.val = NoValue THEN keydir' = Without(keydir, r.key)
        ELSE keydir' = Upd(keydir, r.key, [fileid |-> f, pos |-> r.pos, len |-> r.len])
  BY DEF ScanData, Unindex, Indexed
<1>2. PICK rec \in data[f].recs :
        IF rec.val = NoValue THEN keydir' = Without(keydir, rec.key)
        ELSE keydir' = Upd(keydir, rec.key, [fileid |-> f, pos |-> rec.pos, len |-> rec.len])
  BY <1>1 DEF NextEntry
<1>3. data' = data /\ files' = files
  BY DEF ScanData, ScanKeeps, disk
<1>4. f \in files /\ f \in DOMAIN data
  BY DEF FreshInv, ScanData, StoppedInv, StoppedCore
<1>5. rec.val \in Values \cup {NoValue}
  BY <1>4 DEF StoppedInv, StoppedCore, TypeOK, DataFiles, Records
<1> DEFINE e == [fileid |-> f, pos |-> rec.pos, len |-> rec.len]
<1>6. rec.val # NoValue => Locates(data, e, rec.key)
  BY <1>4, <1>5 DEF Locates
<1>7. ASSUME NEW j \in DOMAIN keydir'
      PROVE  keydir'[j].fileid \in files /\ Locates(data, keydir'[j], j)
  <2>1. \/ j \in DOMAIN keydir /\ keydir'[j] = keydir[j]
        \/ rec.val # NoValue /\ j = rec.key /\ keydir'[j] = e
    BY <1>2 DEF Upd, Without
  <2> HIDE DEF e
  <2>2. e.fileid = f
    BY DEF e
  <2>3. QED
    BY <1>4, <1>6, <2>1, <2>2 DEF StoppedInv, KeydirValid
<1>8. KeydirValid'
  BY <1>3, <1>7 DEF KeydirValid
<1>9. QED
  BY <1>8, ScanCore DEF StoppedInv

\* The instance that Bitcask::open starts satisfies the invariant of a running
\* instance.
LEMMA OpenCore ==
  ASSUME StoppedCore, FreshInv, OpenFinish
  PROVE  CoreInv' /\ Grows(data, data')
<1> DEFINE b == latest + 1
<1>1. /\ phase = "rebuild" /\ todo = {} /\ active' = b
      /\ data' = Upd(data, b, EmptyFile) /\ files' = files \cup {b}
      /\ synced' = Upd(synced, b, 0)
      /\ mpc' \in {"stopped", "sleep"} /\ spc' \in {"stopped", "sleep"}
      /\ UNCHANGED <<hint, keydir, closed, lock, stats, written, pool, cache>>
      /\ UNCHANGED <<pc, req, ent, rdr, res, mfiles, mtodo, mid, mpos, mnew, nwrites, nmerges>>
  BY DEF OpenFinish, NewActive, ctx, rds, calls, bounds
<1>2. /\ b \in Nat /\ b \notin files /\ files \subseteq Nat
      /\ \A f \in files : f <= b
  BY <1>1 DEF FreshInv
<1>3. /\ TypeOK /\ DOMAIN data = files /\ data \in [DOMAIN data -> DataFiles]
      /\ synced \in [DOMAIN data -> Nat] /\ cache \in [Readers -> Seq(DOMAIN data)]
      /\ \A f \in DOMAIN data : WellFormed(data[f])
  BY DEF StoppedCore, TypeOK, LogInv
<1> HIDE DEF b
<1>4. /\ DOMAIN data' = files' /\ data' \in [DOMAIN data' -> DataFiles]
      /\ \A f \in DOMAIN data' : WellFormed(data'[f])
      /\ Grows(data, data')
  BY <1>1, <1>2, <1>3, CreateFile
<1>5. /\ synced' \in [DOMAIN data' -> Nat] /\ DOMAIN data' \subseteq Nat
      /\ cache' \in [Readers -> Seq(DOMAIN data')]
  <2>1. synced' \in [DOMAIN data \cup {b} -> Nat]
    BY <1>1, <1>3, UpdMap
  <2>2. ASSUME NEW r \in Readers
        PROVE  cache[r] \in Seq(DOMAIN data')
    <3>1. cache[r] \in Seq(DOMAIN data) /\ DOMAIN data \subseteq DOMAIN data'
      BY <1>1, <1>3, <1>4
    <3>2. QED
      BY <3>1, SeqMonotone
  <2>3. QED
    BY <1>1, <1>2, <1>3, <1>4, <2>1, <2>2
<1>6. TypeOK'
  BY <1>1, <1>2, <1>3, <1>4, <1>5 DEF TypeOK
<1>7. LogInv'
  BY <1>4 DEF LogInv
<1>8. LockInv'
  BY <1>1 DEF LockInv, StoppedCore
<1>9. FileInv'
  BY <1>1, <1>2, <1>4 DEF FileInv, FreshInv, StoppedCore
<1>10. CoreIndex'
  BY <1>1 DEF CoreIndex, StoppedCore
<1>11. CoreMerge'
  BY <1>1 DEF CoreMerge, StoppedCore
<1>12. CoreKeydir'
  BY <1>1 DEF CoreKeydir, StoppedCore
<1>13. QED
  BY <1>4, <1>6, <1>7, <1>8, <1>9, <1>10, <1>11, <1>12 DEF CoreInv

\* Without hints the whole invariant of a running instance holds.
LEMMA OpenUnmerged ==
  ASSUME StoppedInv, FreshInv, OpenFinish
  PROVE  IndInv'
<1>1. CoreInv' /\ Grows(data, data')
  BY OpenCore DEF StoppedInv
<1>2. /\ UNCHANGED <<keydir, mnew, pc>> /\ DOMAIN mnew = {} /\ \A t \in Threads : pc[t] = "idle"
  BY DEF OpenFinish, StoppedInv, StoppedCore, ctx, calls
<1>3. PlaceInv'
  BY <1>1, <1>2, LocatesGrows DEF PlaceInv, StoppedInv, KeydirValid
<1>4. (IndInv <=> CoreInv /\ PlaceInv)'
  BY InvParts, PTL
<1>5. QED
  BY <1>1, <1>3, <1>4

\* What a step of a running instance does to a directory without merges: it
\* creates no hint file, and the step is not one of a merge.
LEMMA RunningUnmerged ==
  ASSUME RecoveryInv, Running, nmerges' = 0
  PROVE  /\ nmerges = 0 /\ hint' = hint /\ mpc' # "merge"
         /\ ~MergeBegin /\ ~MergeStep
<1>1. nmerges \in Nat /\ (MergeBegin => nmerges' = nmerges + 1)
  BY DEF RecoveryInv, MergeBegin
<1>2. ~MergeBegin
  BY <1>1
<1>3. ~MergeBegin => nmerges' = nmerges
  BY DEF Running, Next, Call, Write, KeydirSet, KeydirRemove, GetLookup, GetRead, Return,
         Close, MergeTick, MergeSkip, MergeStep, MergeCopy, MergeKeydirSet, MergeRemoveHint,
         MergeRemoveData, MergeFinish, MergeStop, SyncTick, SyncActive, SyncStop, bounds
<1>4. nmerges = 0
  BY <1>2, <1>3
<1>5. mpc # "merge"
  BY <1>4 DEF RecoveryInv, UnmergedInv
<1>6. ~MergeStep
  BY <1>5 DEF MergeStep, MergeCopy, MergeKeydirSet, MergeRemoveHint, MergeRemoveData,
              MergeFinish, Removing
<1>7. hint' = hint /\ mpc' # "merge"
  BY <1>2, <1>5, <1>6
     DEF Running, Next, Call, Write, KeydirSet, KeydirRemove, GetLookup, GetRead, Return,
         Close, MergeTick, MergeSkip, MergeStop, SyncTick, SyncActive, SyncStop, disk, merge
<1>8. QED
  BY <1>2, <1>4, <1>6, <1>7

\* Every step keeps UnmergedInv.
LEMMA UnmergedStep ==
  ASSUME RecoveryInv, RecoveryNext
  PROVE  UnmergedInv'
<1> SUFFICES ASSUME nmerges' = 0
             PROVE  /\ DOMAIN hint' = {} /\ mpc' # "merge"
                    /\ IF phase' = "open" THEN IndInv' ELSE StoppedInv'
  BY DEF UnmergedInv
<1>0. FreshInv /\ UnmergedInv /\ nmerges \in Nat
  BY DEF RecoveryInv
<1>1. CASE Running
  <2>1. nmerges = 0 /\ hint' = hint /\ mpc' # "merge" /\ phase = "open" /\ phase' = "open"
    BY <1>1, RunningUnmerged DEF Running, rvars
  <2>2. IndInv /\ DOMAIN hint = {} /\ [Next]_vars
    BY <1>0, <1>1, <2>1 DEF UnmergedInv, Running
  <2>3. IndInv'
    BY <2>2, NextInv
  <2>4. QED
    BY <2>1, <2>2, <2>3
<1>2. CASE ~Running
  <2>1. nmerges' = nmerges
    BY <1>2 DEF RecoveryNext, Crash, CrashInOpen, DropWriter, OpenBegin, ScanHint, ScanData,
                ScanNext, OpenFinish, ScanKeeps, vars, bounds
  <2>2. /\ DOMAIN hint = {} /\ mpc # "merge"
        /\ IF phase = "open" THEN IndInv ELSE StoppedInv
    BY <1>0, <2>1 DEF UnmergedInv
  <2>3. TypeOK /\ LogInv
    BY <2>2 DEF IndInv, StoppedInv, StoppedCore
  <2>4. CASE Crash \/ CrashInOpen \/ DropWriter
    <3>1. StoppedInv'
      BY <2>2, <2>3, <2>4, StopCore DEF StoppedInv, KeydirValid
    <3>2. phase' = "down" /\ hint' = hint
      BY <2>2, <2>3, <2>4, StopLeaves
    <3>3. QED
      BY <2>2, <3>1, <3>2 DEF StoppedInv, StoppedCore
  <2>5. CASE OpenBegin \/ ScanNext
    <3>1. /\ phase # "open" /\ phase' # "open" /\ UNCHANGED vars
      BY <2>5 DEF OpenBegin, ScanNext
    <3>2. StoppedInv
      BY <2>2, <3>1
    <3>3. StoppedCore' /\ KeydirValid' /\ hint' = hint
      BY <2>5, <3>1, <3>2, StoppedKept DEF StoppedInv, KeydirValid, vars, disk, ctx
    <3>4. QED
      BY <2>2, <3>1, <3>3 DEF StoppedInv, StoppedCore
  <2>6. CASE ScanData
    <3>1. phase = "rebuild" /\ phase' = phase /\ hint' = hint
      BY <2>6 DEF ScanData, ScanKeeps, disk
    <3>2. StoppedInv'
      BY <1>0, <2>2, <2>6, <3>1, ScanUnmerged
    <3>3. QED
      BY <2>2, <3>1, <3>2 DEF StoppedInv, StoppedCore
  <2>7. CASE OpenFinish
    <3>1. phase = "rebuild" /\ phase' = "open" /\ hint' = hint /\ mpc' # "merge"
      BY <2>7 DEF OpenFinish
    <3>2. IndInv'
      BY <1>0, <2>2, <2>7, <3>1, OpenUnmerged
    <3>3. QED
      BY <2>2, <3>1, <3>2
  <2>8. ~ScanHint
    BY <2>2 DEF ScanHint
  <2>9. QED
    BY <1>2, <2>4, <2>5, <2>6, <2>7, <2>8 DEF RecoveryNext
<1>3. QED
  BY <1>1, <1>2

\* Writer::write with its fsync.
LEMMA WriteSynced ==
  ASSUME IndInv, EntriesSynced, SyncStrategy = "always", NEW t \in Threads, Write(t),
         unsynced' = unsynced
  PROVE  EntriesSynced' /\ AppendedLast'
<1> DEFINE v == req[t].val
           n == EntryLen[v]
           after == AppendEntry(data[active], req[t].key, v, n)
           grown == Upd(data, active, after)
           forced == Upd(synced, active, after.size)
<1>1. TypeOK /\ mpc # "merge" /\ \A u \in Threads : pc[u] # "index"
  BY ThreadsAssumption DEF Write, IndInv, LockInv
<1>2. /\ active \in DOMAIN data /\ active \in Nat /\ \A g \in DOMAIN data : g <= active
      /\ DOMAIN synced = DOMAIN data
      /\ data[active] \in DataFiles /\ WellFormed(data[active])
  BY <1>1 DEF IndInv, FileInv, TypeOK, LogInv
<1>3. n \in Nat \ {0} /\ data[active].size \in Nat
  <2>1. req[t] \in Requests \cup {NoReq}
    BY <1>1 DEF TypeOK
  <2>2. v \in Values \cup {NoValue}
    BY <2>1 DEF Requests, NoReq
  <2>3. QED
    BY <1>2, <2>2, EntryLenAssumption DEF DataFiles
<1>4. /\ data' = IF Exceeds(n) THEN Upd(grown, active + 1, EmptyFile) ELSE grown
      /\ synced' = IF Exceeds(n) THEN Upd(forced, active + 1, 0) ELSE forced
      /\ pc' = [pc EXCEPT ![t] = "index"]
      /\ ent' = [ent EXCEPT ![t] = [fileid |-> active, pos |-> data[active].size, len |-> n]]
  BY DEF Write, SyncAfterWrite, NextFileid, EntryIndex
<1>5. ASSUME NEW rec \in after.recs
      PROVE  /\ rec.pos + rec.len <= after.size
             /\ \/ rec.pos + rec.len <= data[active].size
                \/ rec.pos = data[active].size /\ rec.len = n
  <2>1. CASE rec \in data[active].recs
    <3>1. /\ rec.pos + rec.len <= data[active].size
          /\ rec.pos \in Nat /\ rec.len \in Nat
      BY <1>2, <2>1 DEF WellFormed, DataFiles, Records
    <3>2. QED
      BY <1>3, <3>1 DEF AppendEntry
  <2>2. CASE rec \notin data[active].recs
    BY <1>3, <1>5, <2>2 DEF AppendEntry
  <2>3. QED
    BY <2>1, <2>2
<1> HIDE DEF after, n
<1>6. ASSUME NEW g \in DOMAIN grown, NEW rec \in grown[g].recs
      PROVE  g \in DOMAIN data
             /\ (rec.pos + rec.len <= forced[g] \/ Place(g, rec) \in unsynced)
  BY <1>2, <1>5, <1>6 DEF Upd, EntriesSynced
<1>7. /\ DOMAIN grown = DOMAIN data /\ DOMAIN forced = DOMAIN data /\ grown[active] = after
      /\ active + 1 # active /\ active + 1 \notin DOMAIN data
  BY <1>2 DEF Upd
<1> HIDE DEF grown, forced
<1>8. EntriesSynced'
  <2> SUFFICES ASSUME NEW f \in DOMAIN data', NEW rec \in data'[f].recs
               PROVE  rec.pos + rec.len <= synced'[f] \/ Place(f, rec) \in unsynced
    BY DEF EntriesSynced, Place
  <2>1. CASE Exceeds(n)
    <3>1. f # active + 1
      <4>1. SUFFICES ASSUME f = active + 1 PROVE FALSE
        OBVIOUS
      <4>2. data'[f] = EmptyFile
        BY <1>4, <2>1, <4>1, UpdNew
      <4>3. QED
        BY <4>2 DEF EmptyFile
    <3>2. f \in DOMAIN grown
      <4>1. data' = Upd(grown, active + 1, EmptyFile)
        BY <1>4, <2>1
      <4>2. QED
        BY <3>1, <4>1 DEF Upd
    <3>3. data'[f] = grown[f] /\ synced'[f] = forced[f]
      BY <1>4, <1>7, <2>1, <3>1, <3>2, UpdOld
    <3>4. QED
      BY <1>6, <3>2, <3>3
  <2>2. CASE ~Exceeds(n)
    BY <1>4, <1>6, <2>2
  <2>3. QED
    BY <2>1, <2>2
<1>9. AppendedLast'
  <2> SUFFICES ASSUME NEW u \in Threads, pc'[u] = "index", NEW rec \in data'[ent'[u].fileid].recs
               PROVE  rec.pos + rec.len <= ent'[u].pos \/ Place(ent'[u].fileid, rec) = ent'[u]
    BY DEF AppendedLast, Place
  <2>1. u = t /\ ent'[t] = [fileid |-> active, pos |-> data[active].size, len |-> n]
    BY <1>1, <1>4 DEF TypeOK
  <2>2. data'[active] = after
    <3>1. CASE Exceeds(n)
      BY <1>2, <1>4, <1>7, <3>1, UpdOld
    <3>2. CASE ~Exceeds(n)
      BY <1>4, <1>7, <3>2
    <3>3. QED
      BY <3>1, <3>2
  <2>3. QED
    BY <1>5, <2>1, <2>2 DEF Place
<1>10. QED
  BY <1>8, <1>9

\* A step of a running instance keeps every entry on the device.
LEMMA RunningSynced ==
  ASSUME RecoveryInv, Running, nmerges' = 0, SyncStrategy = "always"
  PROVE  EntriesSynced' /\ AppendedLast'
<1>1. /\ nmerges = 0 /\ ~MergeBegin /\ ~MergeStep /\ phase = "open" /\ Next
      /\ unsynced' = unsynced
  BY RunningUnmerged DEF Running, rvars
<1>2. IndInv /\ TypeOK /\ EntriesSynced /\ AppendedLast
  BY <1>1 DEF RecoveryInv, UnmergedInv, SyncedInv, IndInv
<1>3. CASE \E t \in Threads : Write(t)
  BY <1>1, <1>2, <1>3, WriteSynced
<1>4. CASE ~\E t \in Threads : Write(t)
  <2>1. data' = data
    BY <1>1, <1>4 DEF Next, Call, KeydirSet, KeydirRemove, GetLookup, GetRead, Return,
         Close, MergeTick, MergeSkip, MergeStop, SyncTick, SyncActive, SyncStop, disk
  <2>2. ASSUME NEW u \in Threads, pc'[u] = "index"
        PROVE  pc[u] = "index" /\ ent'[u] = ent[u]
    BY <1>1, <1>2, <1>4, <2>2 DEF Next, Call, KeydirSet, KeydirRemove, GetLookup, GetRead, Return,
         Close, MergeTick, MergeSkip, MergeStop, SyncTick, SyncActive, SyncStop, calls, TypeOK
  <2>3. AppendedLast'
    BY <1>2, <2>1, <2>2 DEF AppendedLast, Place
  <2>4. CASE SyncActive
    <3>1. synced' = Upd(synced, active, data[active].size)
      BY <2>4 DEF SyncActive
    <3>2. active \in DOMAIN data /\ DOMAIN synced = DOMAIN data /\ WellFormed(data[active])
      BY <1>2 DEF IndInv, FileInv, TypeOK, LogInv
    <3>3. ASSUME NEW f \in DOMAIN data, NEW rec \in data[f].recs
          PROVE  rec.pos + rec.len <= synced'[f] \/ Place(f, rec) \in unsynced
      BY <1>2, <3>1, <3>2, <3>3 DEF Upd, EntriesSynced, WellFormed
    <3>4. QED
      BY <1>1, <2>1, <2>3, <3>3 DEF EntriesSynced, Place
  <2>5. CASE ~SyncActive
    <3>1. synced' = synced
      BY <1>1, <1>4, <2>5 DEF Next, Call, KeydirSet, KeydirRemove, GetLookup, GetRead, Return,
           Close, MergeTick, MergeSkip, MergeStop, SyncTick, SyncStop, disk
    <3>2. QED
      BY <1>1, <1>2, <2>1, <2>3, <3>1 DEF EntriesSynced, Place
  <2>6. QED
    BY <2>4, <2>5
<1>5. QED
  BY <1>3, <1>4

\* A stop: of a killed write only the entry it had appended may have missed
\* its fsync, and that is recorded.
LEMMA StopSynced ==
  ASSUME TypeOK, mpc # "merge", EntriesSynced, AppendedLast, SyncStrategy = "always",
         Crash \/ CrashInOpen \/ DropWriter
  PROVE  EntriesSynced' /\ AppendedLast'
<1>1. /\ MemoryLost /\ files' \subseteq files
      /\ data' = [g \in files' |-> data'[g]] /\ \A g \in files' : data'[g] = data[g]
  BY StopLeaves DEF Remains
<1>2. files \subseteq DOMAIN data /\ DOMAIN synced = DOMAIN data
  BY DEF TypeOK
<1>3. AppendedLast'
  BY <1>1 DEF MemoryLost, AppendedLast
<1>4. \/ synced' = Restrict(synced, files') /\ unsynced' = unsynced
      \/ \E t \in Threads : /\ pc[t] = "index" /\ synced' = Restrict(SyncedBefore(t), files')
                             /\ unsynced' = unsynced \cup {ent[t]}
  <2>1. CASE Crash
    BY <2>1 DEF Crash, KilledInWrite, FilesLeft
  <2>2. CASE CrashInOpen \/ DropWriter
    BY <2>2 DEF CrashInOpen, DropWriter, FilesLeft
  <2>3. QED
    BY <2>1, <2>2
<1>5. CASE synced' = Restrict(synced, files') /\ unsynced' = unsynced
  <2>1. \A f \in files' : f \in DOMAIN data /\ synced'[f] = synced[f]
    BY <1>1, <1>2, <1>5 DEF Restrict
  <2>2. DOMAIN data' = files'
    BY <1>1
  <2>3. EntriesSynced'
    BY <1>1, <1>5, <2>1, <2>2 DEF EntriesSynced, Place
  <2>4. QED
    BY <1>3, <2>3
<1>6. ASSUME NEW t \in Threads, pc[t] = "index", synced' = Restrict(SyncedBefore(t), files'),
             unsynced' = unsynced \cup {ent[t]}
      PROVE  EntriesSynced'
  <2> SUFFICES ASSUME NEW f \in files', NEW rec \in data[f].recs
               PROVE  rec.pos + rec.len <= synced'[f] \/ Place(f, rec) \in unsynced'
    <3>1. DOMAIN data' = files'
      BY <1>1
    <3>2. QED
      BY <1>1, <3>1 DEF EntriesSynced, Place
  <2>1. f \in DOMAIN data /\ f \in DOMAIN synced
    BY <1>1, <1>2
  <2>2. synced'[f] = IF f = ent[t].fileid THEN ent[t].pos ELSE synced[f]
    BY <1>6, <2>1 DEF Restrict, SyncedBefore, Upd
  <2>3. CASE f = ent[t].fileid
    BY <1>6, <2>2, <2>3 DEF AppendedLast
  <2>4. CASE f # ent[t].fileid
    BY <1>6, <2>1, <2>2, <2>4 DEF EntriesSynced
  <2>5. QED
    BY <2>3, <2>4
<1>7. QED
  BY <1>3, <1>4, <1>5, <1>6

\* Every step keeps SyncedInv: what a stop leaves are whole files, and a new
\* active file is empty.
LEMMA SyncedStep ==
  ASSUME RecoveryInv, RecoveryNext
  PROVE  SyncedInv'
<1> SUFFICES ASSUME nmerges' = 0, SyncStrategy = "always"
             PROVE  EntriesSynced' /\ AppendedLast'
  BY DEF SyncedInv
<1>1. CASE Running
  BY <1>1, RunningSynced
<1>2. CASE ~Running
  <2>1. nmerges' = nmerges
    BY <1>2 DEF RecoveryNext, Crash, CrashInOpen, DropWriter, OpenBegin, ScanHint, ScanData,
                ScanNext, OpenFinish, ScanKeeps, vars, bounds
  <2>2. /\ mpc # "merge" /\ (IF phase = "open" THEN IndInv ELSE StoppedInv)
        /\ EntriesSynced /\ AppendedLast
    BY <2>1 DEF RecoveryInv, UnmergedInv, SyncedInv
  <2>3. TypeOK
    BY <2>2 DEF IndInv, StoppedInv, StoppedCore
  <2>4. CASE Crash \/ CrashInOpen \/ DropWriter
    BY <2>2, <2>3, <2>4, StopSynced
  <2>5. CASE OpenFinish
    <3>1. /\ data' = Upd(data, latest + 1, EmptyFile) /\ synced' = Upd(synced, latest + 1, 0)
          /\ unsynced' = unsynced /\ pc' = pc /\ phase = "rebuild"
      BY <2>5 DEF OpenFinish, NewActive, calls
    <3>2. DOMAIN synced = DOMAIN data
      BY <2>3 DEF TypeOK
    <3>3. EntriesSynced'
      <4> SUFFICES ASSUME NEW f \in DOMAIN data', NEW rec \in data'[f].recs
                   PROVE  rec.pos + rec.len <= synced'[f] \/ Place(f, rec) \in unsynced
        BY <3>1 DEF EntriesSynced, Place
      <4>1. f # latest + 1 /\ f \in DOMAIN data /\ data'[f] = data[f] /\ synced'[f] = synced[f]
        BY <3>1, <3>2 DEF Upd, EmptyFile
      <4>2. QED
        BY <2>2, <4>1 DEF EntriesSynced
    <3>4. AppendedLast'
      BY <2>2, <3>1 DEF AppendedLast, StoppedInv, StoppedCore
    <3>5. QED
      BY <3>3, <3>4
  <2>6. CASE OpenBegin \/ ScanHint \/ ScanData \/ ScanNext
    <3>1. UNCHANGED <<data, synced, pc, ent, unsynced>>
      BY <2>6 DEF OpenBegin, ScanHint, ScanData, ScanNext, ScanKeeps, vars, disk, calls
    <3>2. QED
      BY <2>2, <3>1 DEF EntriesSynced, AppendedLast, Place
  <2>7. QED
    BY <1>2, <2>4, <2>5, <2>6 DEF RecoveryNext
<1>3. QED
  BY <1>1, <1>2

-----------------------------------------------------------------------------
(* The theorems *)

\* An empty directory satisfies the invariant.
LEMMA RecoveryInitInv ==
  ASSUME RecoveryInit
  PROVE  RecoveryInv
<1>1. Init /\ phase = "open" /\ latest = -1
  BY DEF RecoveryInit
<1>2. IndInv
  BY <1>1, InitInv
<1>3. /\ files = {0} /\ active = 0 /\ mid = 0 /\ DOMAIN hint = {} /\ mpc # "merge"
      /\ pc = [t \in Threads |-> "idle"] /\ nmerges = 0
      /\ data = [f \in {0} |-> EmptyFile] /\ synced = [f \in {0} |-> 0]
  BY <1>1 DEF Init, EmptyMap
<1>4. FreshInv
  BY <1>1, <1>3 DEF FreshInv, Newest
<1>5. UnmergedInv
  BY <1>1, <1>2, <1>3 DEF UnmergedInv
<1>6. SyncedInv
  BY <1>3 DEF SyncedInv, EntriesSynced, AppendedLast, EmptyFile
<1>7. QED
  BY <1>3, <1>4, <1>5, <1>6 DEF RecoveryInv

\* Every step preserves the invariant.
LEMMA RecoveryNextInv ==
  ASSUME RecoveryInv, [RecoveryNext]_allvars
  PROVE  RecoveryInv'
<1>1. CASE RecoveryNext
  <2>1. FreshInv'
    BY <1>1, RunningFresh, ReopenFresh DEF RecoveryInv, RecoveryNext
  <2>2. UnmergedInv' /\ SyncedInv'
    BY <1>1, UnmergedStep, SyncedStep
  <2>3. nmerges' \in Nat
    <3>1. nmerges' = nmerges \/ nmerges' = nmerges + 1
      BY <1>1 DEF RecoveryNext, Crash, CrashInOpen, DropWriter, OpenBegin, ScanHint, ScanData,
         ScanNext, OpenFinish, ScanKeeps, vars, bounds,
         Running, Next, Call, Write, KeydirSet, KeydirRemove, GetLookup, GetRead, Return,
         Close, MergeTick, MergeSkip, MergeBegin, MergeStep, MergeCopy, MergeKeydirSet,
         MergeRemoveHint, MergeRemoveData, MergeFinish, MergeStop, SyncTick, SyncActive, SyncStop
    <3>2. QED
      BY <3>1 DEF RecoveryInv
  <2>4. QED
    BY <2>1, <2>2, <2>3 DEF RecoveryInv
<1>2. CASE UNCHANGED allvars
  <2>1. UNCHANGED vars /\ UNCHANGED rvars
    BY <1>2 DEF allvars
  <2>2. FreshInv'
    BY <2>1 DEF RecoveryInv, FreshInv, Newest, vars, rvars, disk, ctx, writer, calls, merge
  <2>3. UnmergedInv'
    BY <2>1 DEF RecoveryInv, UnmergedInv, IndInv, StoppedInv, StoppedCore, TypeOK, LogInv, LockInv,
       FileInv, IndexInv, MergeInv, KeydirValid, CoreKeydir, vars, rvars, disk, ctx, writer, rds, calls, merge, bounds
  <2>4. SyncedInv' /\ nmerges' \in Nat
    BY <2>1 DEF RecoveryInv, SyncedInv, EntriesSynced, AppendedLast, Place, vars, rvars, disk, calls,
                bounds
  <2>5. QED
    BY <2>2, <2>3, <2>4 DEF RecoveryInv
<1>3. QED
  BY <1>1, <1>2

\* The invariant holds through all stops and starts.
LEMMA RecoveryInvariant == RecoverySpec => []RecoveryInv
<1>1. RecoveryInit => RecoveryInv
  BY RecoveryInitInv
<1>2. RecoveryInv /\ [RecoveryNext]_allvars => RecoveryInv'
  BY RecoveryNextInv
<1>3. QED
  BY <1>1, <1>2, PTL DEF RecoverySpec

\* log::create never meets an existing file: neither while the store runs nor
\* when Bitcask::open creates the active file after a kill, halfway through a
\* merge or the removal of the merged files included; and no hint file is left
\* without its data file.  This is for a directory that has seen one merge at
\* most: a second one may panic over wrong hints and leave its files behind.
THEOREM FreshAfterReopen == RecoverySpec => []RebuiltFreshFileids
<1>1. ASSUME RecoveryInv
      PROVE  RebuiltFreshFileids
  <2>1. FreshInv
    BY <1>1 DEF RecoveryInv
  <2>2. phase = "open" => FreshFileids
    BY <2>1 DEF FreshInv, Newest, FreshFileids
  <2>3. Rebuilt => NewActive \notin files
    BY <2>1 DEF FreshInv, Rebuilt, NewActive
  <2>4. QED
    BY <2>1, <2>2, <2>3 DEF FreshInv, RebuiltFreshFileids
<1>2. QED
  BY <1>1, RecoveryInvariant, PTL

\* Up to the first merge, the KeyDir points at valid file locations through
\* any number of kills, clean stops and reopenings, and while it is rebuilt
\* from the data files.
THEOREM KeydirValidAfterReopen == RecoverySpec => []RebuiltKeydirValid
<1>1. RecoveryInv => RebuiltKeydirValid
  BY DEF RecoveryInv, UnmergedInv, IndInv, StoppedInv, RebuiltKeydirValid
<1>2. QED
  BY <1>1, RecoveryInvariant, PTL

\* With SyncStrategy::Always, up to the first merge, every entry that a key
\* points at is on the device, after any number of kills and reopenings too,
\* but for the entries whose calls were killed between append and fsync.
THEOREM SyncedCorrect == RecoverySpec => []SyncedUntilMerge
<1>1. ASSUME RecoveryInv
      PROVE  SyncedUntilMerge
  <2> SUFFICES ASSUME nmerges = 0, SyncStrategy = "always", NEW k \in DOMAIN keydir
               PROVE  OnDevice(keydir[k]) \/ keydir[k] \in unsynced
    BY DEF SyncedUntilMerge
  <2> DEFINE e == keydir[k]
  <2>1. TypeOK /\ KeydirValid /\ EntriesSynced
    BY <1>1 DEF RecoveryInv, UnmergedInv, SyncedInv, IndInv, StoppedInv, StoppedCore
  <2>2. PICK rec \in data[e.fileid].recs : rec.pos = e.pos /\ rec.len = e.len
    BY <2>1 DEF KeydirValid, Locates
  <2>3. e.fileid \in DOMAIN data /\ e \in Entries
    BY <2>1 DEF KeydirValid, Locates, TypeOK
  <2>4. Place(e.fileid, rec) = e
    BY <2>2, <2>3 DEF Place, Entries
  <2>5. QED
    BY <2>1, <2>2, <2>3, <2>4 DEF OnDevice, EntriesSynced
<1>2. QED
  BY <1>1, RecoveryInvariant, PTL

-----------------------------------------------------------------------------
(* Where a key is found again, in a directory of the data files d, the hint
   files h and the ids S. *)

\* The tombstones of key k come before position p of file f.
TombsBefore(d, S, k, f, p) ==
  \A g \in S : \A rec \in d[g].recs :
    rec.key = k /\ rec.val = NoValue => g < f \/ (g = f /\ rec.pos < p)

\* Reading file f meets key k: in its hint file if it has one, and otherwise
\* at position p.
Listed(d, h, S, k, f, p) ==
  /\ f \in S
  /\ IF f \in DOMAIN h THEN \E i \in 1..Len(h[f]) : h[f][i].key = k
     ELSE \E rec \in d[f].recs : rec.pos = p /\ rec.key = k /\ rec.val # NoValue

\* A rebuilding would find k at entry e, and nothing later that removes it.
Stored(d, h, S, k, e) ==
  /\ Listed(d, h, S, k, e.fileid, e.pos)
  /\ TombsBefore(d, S, k, e.fileid, e.pos)

\* Entries do not overlap, and a file with a hint file, which a merge wrote,
\* holds no tombstone.
EntriesInv ==
  /\ \A f \in DOMAIN data : Disjoint(data[f])
  /\ \A f \in DOMAIN hint : \A rec \in data[f].recs : rec.val # NoValue

\* While the store runs, each key is stored unless its tombstone has just been
\* appended; so are the entry about to be indexed and the copies of a merge.
StoredInv ==
  /\ \A k \in DOMAIN keydir :
       (\A t \in Threads : pc[t] = "index" /\ req[t].op = "del" => req[t].key # k)
         => Stored(data, hint, files, k, keydir[k])
  /\ \A t \in Threads : pc[t] = "index" /\ req[t].op = "set" =>
       Stored(data, hint, files, req[t].key, ent[t])
  /\ \A k \in DOMAIN mnew : Stored(data, hint, files, k, mnew[k])

OpenInv == CoreInv /\ EntriesInv /\ StoredInv /\ data[active].size = written

\* LogIterator has read past position p of file f.
ReadPast(f, p) == f \notin todo \/ (Current(f) /\ p < at)

\* Key k, which is to be there again, is stored at some place, and in the
\* KeyDir once that place is read.
KeptByHint(k, f) ==
  /\ TombsBefore(data, files, k, f, 0)
  /\ \E i \in 1..Len(hint[f]) :
       /\ hint[f][i].key = k
       /\ phase = "rebuild" /\ ReadPast(f, i - 1) => k \in DOMAIN keydir
KeptByEntry(k, f) ==
  \E rec \in data[f].recs :
    /\ rec.key = k /\ rec.val # NoValue
    /\ TombsBefore(data, files, k, f, rec.pos)
    /\ phase = "rebuild" /\ ReadPast(f, rec.pos) => k \in DOMAIN keydir
Kept(k) == \E f \in files : IF f \in DOMAIN hint THEN KeptByHint(k, f) ELSE KeptByEntry(k, f)

\* A key of the KeyDir being rebuilt has no later tombstone among the entries
\* read.
Found(k, e) ==
  /\ Listed(data, hint, files, k, e.fileid, e.pos)
  /\ \A g \in files : \A rec \in data[g].recs :
       rec.key = k /\ rec.val = NoValue /\ ReadPast(g, rec.pos)
         => g < e.fileid \/ (g = e.fileid /\ rec.pos < e.pos)

\* Files are read in the order of their ids.
ScanInv ==
  /\ \A f \in files \ todo : \A g \in todo : f < g
  /\ \A k \in DOMAIN keydir : Found(k, keydir[k])

DownInv ==
  /\ StoppedCore /\ EntriesInv
  /\ \A k \in must : Kept(k)
  /\ phase = "rebuild" => ScanInv
  /\ phase = "down" => DOMAIN keydir = {} /\ at = 0

SurviveInv == IF phase = "open" THEN OpenInv ELSE DownInv

-----------------------------------------------------------------------------
(* Data files *)

\* An empty file holds no entry.
LEMMA EmptyHolds == Disjoint(EmptyFile) /\ EmptyFile.recs = {} /\ EmptyFile.size = 0
BY DEF Disjoint, EmptyFile

\* Within a file without overlaps an entry before another ends before it.
LEMMA EndsBefore ==
  ASSUME NEW file, Disjoint(file), NEW r1 \in file.recs, NEW r2 \in file.recs,
         r1.pos < r2.pos
  PROVE  r1.pos + r1.len <= r2.pos
BY DEF Disjoint

-----------------------------------------------------------------------------
(* Stored keys stay stored *)

\* Hint file f is extended at most, and no hint file appears.
HintsKept(h, h2, f) ==
  IF f \in DOMAIN h
  THEN f \in DOMAIN h2 /\ \A i \in 1..Len(h[f]) : i \in 1..Len(h2[f]) /\ h2[f][i] = h[f][i]
  ELSE f \notin DOMAIN h2

\* All tombstones of k were there before.
NoNewTombs(d, S, d2, S2, k) ==
  \A g \in S2 : \A rec \in d2[g].recs :
    rec.key = k /\ rec.val = NoValue => g \in S /\ rec \in d[g].recs

\* A step that appends no tombstone of k, keeps the file that k is stored in
\* and its hint file, leaves k stored.
LEMMA StoredStable ==
  ASSUME NEW d, NEW h, NEW S, NEW d2, NEW h2, NEW S2, NEW k, NEW e,
         Stored(d, h, S, k, e), e.fileid \in S2,
         d[e.fileid].recs \subseteq d2[e.fileid].recs,
         HintsKept(h, h2, e.fileid), NoNewTombs(d, S, d2, S2, k)
  PROVE  Stored(d2, h2, S2, k, e)
<1>1. TombsBefore(d2, S2, k, e.fileid, e.pos)
  BY DEF Stored, TombsBefore, NoNewTombs
<1>2. CASE e.fileid \in DOMAIN h
  BY <1>1, <1>2 DEF Stored, Listed, HintsKept
<1>3. CASE e.fileid \notin DOMAIN h
  BY <1>1, <1>3 DEF Stored, Listed, HintsKept
<1>4. QED
  BY <1>2, <1>3

-----------------------------------------------------------------------------
(* Steps of a running instance *)

\* A step that leaves the directory and the copies of a merge alone, and points
\* no key at another entry, keeps the keys stored.
LEMMA StoredQuiet ==
  ASSUME OpenInv, CoreInv', UNCHANGED <<data, hint, files, keydir, mnew, active, written>>,
         \A t \in Threads : /\ pc'[t] = "index" <=> pc[t] = "index"
                            /\ pc[t] = "index" => req'[t] = req[t] /\ ent'[t] = ent[t]
  PROVE  OpenInv'
<1>1. EntriesInv'
  BY DEF OpenInv, EntriesInv
<1>2. ASSUME NEW k \in DOMAIN keydir',
             \A t \in Threads : pc'[t] = "index" /\ req'[t].op = "del" => req'[t].key # k
      PROVE  Stored(data', hint', files', k, keydir'[k])
  <2>1. \A t \in Threads : pc[t] = "index" /\ req[t].op = "del" => req[t].key # k
    BY <1>2
  <2>2. QED
    BY <2>1 DEF OpenInv, StoredInv
<1>3. ASSUME NEW t \in Threads, pc'[t] = "index", req'[t].op = "set"
      PROVE  Stored(data', hint', files', req'[t].key, ent'[t])
  <2>1. pc[t] = "index" /\ req[t].op = "set" /\ req'[t] = req[t] /\ ent'[t] = ent[t]
    BY <1>3
  <2>2. QED
    BY <2>1 DEF OpenInv, StoredInv
<1>4. \A k \in DOMAIN mnew' : Stored(data', hint', files', k, mnew'[k])
  BY DEF OpenInv, StoredInv
<1>5. StoredInv'
  BY <1>2, <1>3, <1>4 DEF StoredInv
<1>6. QED
  BY <1>1, <1>5 DEF OpenInv

\* What Writer::write does to the data files.
LEMMA WriteFiles ==
  ASSUME OpenInv, FreshInv, phase = "open", NEW t \in Threads, Write(t)
  PROVE  LET v == req[t].val
             n == EntryLen[v]
             b == active + 1
         IN  /\ v \in Values \cup {NoValue} /\ n \in Nat \ {0} /\ req[t].key \in Keys
             /\ req[t].op = "set" <=> v # NoValue
             /\ mpc # "merge" /\ (\A u \in Threads : pc[u] # "index")
             /\ active \in files /\ active \notin DOMAIN hint /\ active \in Nat
             /\ \A f \in DOMAIN data : f <= active
             /\ hint' = hint /\ keydir' = keydir /\ mnew' = mnew /\ DOMAIN mnew = {}
             /\ data'[active] = AppendEntry(data[active], req[t].key, v, n)
             /\ \A f \in DOMAIN data : f # active => data'[f] = data[f]
             /\ \/ DOMAIN data' = DOMAIN data /\ files' = files
                   /\ active' = active /\ written' = written + n
                \/ /\ DOMAIN data' = DOMAIN data \cup {b} /\ files' = files \cup {b}
                   /\ data'[b] = EmptyFile /\ b \notin DOMAIN data
                   /\ active' = b /\ written' = 0
             /\ req' = req /\ pc' = [pc EXCEPT ![t] = "index"]
             /\ ent' = [ent EXCEPT ![t] = [fileid |-> active, pos |-> data[active].size, len |-> n]]
<1> DEFINE v == req[t].val
           n == EntryLen[v]
           b == active + 1
           after == AppendEntry(data[active], req[t].key, v, n)
           grown == Upd(data, active, after)
<1>1. req[t] \in Requests \cup {NoReq} /\ req[t].op \in {"set", "del"}
  BY DEF Write, OpenInv, CoreInv, TypeOK
<1>2. /\ req[t].key \in Keys
      /\ \/ req[t].op = "set" /\ v \in Values
         \/ req[t].op = "del" /\ v = NoValue
  BY <1>1 DEF Requests, NoReq
<1>3. v \in Values \cup {NoValue} /\ (req[t].op = "set" <=> v # NoValue)
  BY <1>2, ValuesAssumption
<1>4. n \in Nat \ {0}
  BY <1>3, EntryLenAssumption
<1>5. mpc # "merge" /\ (\A u \in Threads : pc[u] # "index") /\ DOMAIN mnew = {}
  BY ThreadsAssumption DEF Write, OpenInv, CoreInv, LockInv, CoreMerge
<1>6. /\ active \in files /\ active \in Nat /\ active \in DOMAIN data /\ DOMAIN data \subseteq Nat
      /\ \A f \in DOMAIN data : f <= active
  BY <1>5 DEF OpenInv, CoreInv, TypeOK, FileInv
<1>7. active \notin DOMAIN hint
  BY <1>5 DEF FreshInv
<1>8. b \notin DOMAIN data /\ b # active
  BY <1>6
<1>9. /\ data' = IF Exceeds(n) THEN Upd(grown, b, EmptyFile) ELSE grown
      /\ files' = IF Exceeds(n) THEN files \cup {b} ELSE files
      /\ active' = IF Exceeds(n) THEN b ELSE active
      /\ written' = IF Exceeds(n) THEN 0 ELSE written + n
      /\ hint' = hint /\ keydir' = keydir /\ mnew' = mnew /\ req' = req
      /\ pc' = [pc EXCEPT ![t] = "index"]
      /\ ent' = [ent EXCEPT ![t] = [fileid |-> active, pos |-> data[active].size, len |-> n]]
  BY DEF Write, NextFileid, ctx, merge, EntryIndex
<1>10. /\ DOMAIN grown = DOMAIN data /\ grown[active] = after
       /\ \A f \in DOMAIN data : f # active => grown[f] = data[f]
  BY <1>6 DEF Upd
<1> HIDE DEF n, v, after, grown
<1>11. CASE Exceeds(n)
  <2>1. /\ DOMAIN data' = DOMAIN data \cup {b} /\ data'[b] = EmptyFile
        /\ \A f \in DOMAIN data : data'[f] = grown[f]
    BY <1>8, <1>9, <1>10, <1>11 DEF Upd
  <2>2. QED
    BY <1>2, <1>3, <1>4, <1>5, <1>6, <1>7, <1>8, <1>9, <1>10, <1>11, <2>1 DEF n, v, after
<1>12. CASE ~Exceeds(n)
  BY <1>2, <1>3, <1>4, <1>5, <1>6, <1>7, <1>9, <1>10, <1>12 DEF n, v, after
<1>13. QED
  BY <1>11, <1>12

\* Writer::write stores the entry it appends, and a tombstone disturbs no
\* other key.
LEMMA WriteStored ==
  ASSUME OpenInv, FreshInv, phase = "open", NEW t \in Threads, Write(t)
  PROVE  OpenInv'
<1> DEFINE v == req[t].val
           n == EntryLen[v]
           b == active + 1
           key == req[t].key
           size == data[active].size
           new == [pos |-> size, len |-> n, key |-> key, val |-> v]
           e == [fileid |-> active, pos |-> size, len |-> n]
<1>1. /\ v \in Values \cup {NoValue} /\ n \in Nat \ {0} /\ key \in Keys
      /\ req[t].op = "set" <=> v # NoValue
      /\ mpc # "merge" /\ (\A u \in Threads : pc[u] # "index")
      /\ active \in files /\ active \notin DOMAIN hint /\ active \in Nat
      /\ \A f \in DOMAIN data : f <= active
      /\ hint' = hint /\ keydir' = keydir /\ mnew' = mnew /\ DOMAIN mnew = {}
      /\ data'[active] = AppendEntry(data[active], key, v, n)
      /\ \A f \in DOMAIN data : f # active => data'[f] = data[f]
      /\ req' = req /\ pc' = [pc EXCEPT ![t] = "index"]
      /\ ent' = [ent EXCEPT ![t] = e]
  BY WriteFiles
<1>2. \/ DOMAIN data' = DOMAIN data /\ files' = files
         /\ active' = active /\ written' = written + n
      \/ /\ DOMAIN data' = DOMAIN data \cup {b} /\ files' = files \cup {b}
         /\ data'[b] = EmptyFile /\ b \notin DOMAIN data
         /\ active' = b /\ written' = 0
  BY WriteFiles
<1> HIDE DEF v, n
<1>3. CoreInv'
  BY WriteStep DEF OpenInv
<1>4. /\ TypeOK /\ files \subseteq DOMAIN data /\ data[active] \in DataFiles /\ size \in Nat
      /\ WellFormed(data[active]) /\ Disjoint(data[active]) /\ size = written
      /\ DOMAIN data \subseteq Nat
  BY <1>1 DEF OpenInv, CoreInv, TypeOK, LogInv, EntriesInv, DataFiles
<1>5. /\ data'[active].recs = data[active].recs \cup {new}
      /\ data'[active].size = size + n /\ Disjoint(data'[active])
  <2>1. Disjoint(AppendEntry(data[active], key, v, n))
    BY <1>1, <1>4, AppendDisjoint
  <2>2. /\ AppendEntry(data[active], key, v, n).recs = data[active].recs \cup {new}
        /\ AppendEntry(data[active], key, v, n).size = size + n
    BY DEF AppendEntry
  <2>3. QED
    BY <1>1, <2>1, <2>2
<1>6. EntriesInv'
  <2>1. \A f \in DOMAIN data' : Disjoint(data'[f])
    <3> SUFFICES ASSUME NEW f \in DOMAIN data'
                 PROVE  Disjoint(data'[f])
      OBVIOUS
    <3>1. CASE f = active
      BY <1>5, <3>1
    <3>2. CASE f \in DOMAIN data /\ f # active
      BY <1>1, <3>2 DEF OpenInv, EntriesInv
    <3>3. CASE f \notin DOMAIN data
      BY <1>2, <3>3, EmptyHolds
    <3>4. QED
      BY <3>1, <3>2, <3>3
  <2>2. DOMAIN hint \subseteq DOMAIN data
    BY <1>4 DEF OpenInv, CoreInv, FileInv
  <2>3. QED
    BY <1>1, <2>1, <2>2 DEF OpenInv, EntriesInv
<1>7. data'[active'].size = written'
  <2>1. CASE active' = active /\ written' = written + n
    BY <1>4, <1>5, <2>1
  <2>2. CASE active' = b /\ data'[b] = EmptyFile /\ written' = 0
    BY <2>2, EmptyHolds
  <2>3. QED
    BY <1>2, <2>1, <2>2
\* The tombstones in the directory afterwards.
<1>8. ASSUME NEW g \in files', NEW rec \in data'[g].recs
      PROVE  \/ g \in files /\ rec \in data[g].recs
             \/ g = active /\ rec = new
  <2>1. CASE g = active
    BY <1>1, <1>5, <1>8, <2>1
  <2>2. CASE g \in files /\ g # active
    BY <1>1, <1>4, <1>8, <2>2
  <2>3. CASE g \notin files
    <3>1. g = b /\ data'[b] = EmptyFile
      BY <1>2, <2>3
    <3>2. QED
      BY <1>8, <3>1, EmptyHolds
  <2>4. QED
    BY <2>1, <2>2, <2>3
<1>9. ASSUME NEW k \in DOMAIN keydir', v # NoValue \/ k # key
      PROVE  Stored(data', hint', files', k, keydir'[k])
  <2>1. Stored(data, hint, files, k, keydir[k])
    BY <1>1, <1>9 DEF OpenInv, StoredInv
  <2>2. keydir[k].fileid \in files /\ files \subseteq files'
    BY <1>2, <2>1 DEF Stored, Listed
  <2>3. data[keydir[k].fileid].recs \subseteq data'[keydir[k].fileid].recs
    BY <1>1, <1>4, <1>5, <2>2
  <2>4. HintsKept(hint, hint', keydir[k].fileid)
    BY <1>1 DEF HintsKept
  <2>5. NoNewTombs(data, files, data', files', k)
    BY <1>8, <1>9 DEF NoNewTombs
  <2>6. QED
    BY <1>1, <2>1, <2>2, <2>3, <2>4, <2>5, StoredStable
<1>10. ASSUME v # NoValue
       PROVE  Stored(data', hint', files', key, e)
  <2>1. Listed(data', hint', files', key, active, size)
    <3>1. active \in files' /\ active \notin DOMAIN hint' /\ new \in data'[active].recs
      BY <1>1, <1>2, <1>5
    <3>2. new.pos = size /\ new.key = key /\ new.val # NoValue
      BY <1>10
    <3> HIDE DEF new
    <3>3. QED
      BY <3>1, <3>2 DEF Listed
  <2>2. TombsBefore(data', files', key, active, size)
    <3> SUFFICES ASSUME NEW g \in files', NEW rec \in data'[g].recs, rec.val = NoValue
                 PROVE  g < active \/ (g = active /\ rec.pos < size)
      BY DEF TombsBefore
    <3>1. g \in files /\ rec \in data[g].recs
      BY <1>8, <1>10
    <3>2. CASE g = active
      <4>1. rec.pos \in Nat /\ rec.len \in Nat \ {0} /\ rec.pos + rec.len <= size
        BY <1>4, <3>1, <3>2 DEF DataFiles, Records, WellFormed
      <4>2. QED
        BY <1>4, <3>2, <4>1
    <3>3. CASE g # active
      BY <1>1, <1>4, <3>1, <3>3
    <3>4. QED
      BY <3>2, <3>3
  <2>3. QED
    BY <2>1, <2>2 DEF Stored
<1>11. /\ pc'[t] = "index" /\ ent'[t] = e
       /\ \A u \in Threads : u # t => pc'[u] # "index"
  <2>1. DOMAIN pc = Threads /\ DOMAIN ent = Threads
    BY <1>4 DEF TypeOK
  <2> HIDE DEF e
  <2>2. QED
    BY <1>1, <2>1
<1>12. StoredInv'
  <2>1. ASSUME NEW k \in DOMAIN keydir',
               \A u \in Threads : pc'[u] = "index" /\ req'[u].op = "del" => req'[u].key # k
        PROVE  Stored(data', hint', files', k, keydir'[k])
    <3>1. v # NoValue \/ k # key
      <4>1. CASE v = NoValue
        <5>1. req[t].op = "del"
          BY <1>1, <4>1 DEF Write
        <5>2. QED
          BY <1>1, <1>11, <2>1, <5>1
      <4>2. QED
        BY <4>1
    <3>2. QED
      BY <1>9, <3>1
  <2>2. ASSUME NEW u \in Threads, pc'[u] = "index", req'[u].op = "set"
        PROVE  Stored(data', hint', files', req'[u].key, ent'[u])
    <3>1. u = t /\ v # NoValue
      BY <1>1, <1>11, <2>2
    <3>2. QED
      BY <1>1, <1>10, <1>11, <3>1
  <2>3. QED
    BY <1>1, <2>1, <2>2 DEF StoredInv
<1>13. QED
  BY <1>3, <1>6, <1>7, <1>12 DEF OpenInv

\* The rest of Writer::put and of Writer::delete: the key's tombstone, if one
\* was appended, goes with the key.
LEMMA IndexStored ==
  ASSUME OpenInv, NEW t \in Threads, KeydirSet(t) \/ KeydirRemove(t)
  PROVE  OpenInv'
<1>1. CoreInv'
  BY IndexStep DEF OpenInv
<1>2. /\ pc[t] = "index" /\ lock = t /\ pc' = [pc EXCEPT ![t] = "ret"]
      /\ UNCHANGED <<data, files, hint, active, written, mnew>>
  BY DEF KeydirSet, KeydirRemove, OpenInv, CoreInv, LockInv, disk, merge
<1>3. /\ \A u \in Threads : pc[u] = "index" => u = t
      /\ \A u \in Threads : pc'[u] # "index"
  BY <1>2 DEF OpenInv, CoreInv, LockInv, TypeOK
<1>4. \/ req[t].op = "set" /\ keydir' = Upd(keydir, req[t].key, ent[t])
      \/ req[t].op = "del" /\ keydir' = Without(keydir, req[t].key)
  BY DEF KeydirSet, KeydirRemove
<1>5. ASSUME NEW k \in DOMAIN keydir'
      PROVE  Stored(data, hint, files, k, keydir'[k])
  <2>1. CASE req[t].op = "set" /\ k = req[t].key
    <3>1. keydir'[k] = ent[t]
      BY <1>4, <2>1 DEF Upd
    <3>2. QED
      BY <1>2, <2>1, <3>1 DEF OpenInv, StoredInv
  <2>2. CASE ~(req[t].op = "set" /\ k = req[t].key)
    <3>1. /\ k \in DOMAIN keydir /\ keydir'[k] = keydir[k]
          /\ req[t].op = "del" => req[t].key # k
      BY <1>4, <2>2 DEF Upd, Without
    <3>2. \A u \in Threads : pc[u] = "index" /\ req[u].op = "del" => req[u].key # k
      BY <1>3, <3>1
    <3>3. QED
      BY <3>1, <3>2 DEF OpenInv, StoredInv
  <2>3. QED
    BY <2>1, <2>2
<1>6. StoredInv'
  BY <1>2, <1>3, <1>5 DEF OpenInv, StoredInv
<1>7. EntriesInv' /\ data'[active'].size = written'
  BY <1>2 DEF OpenInv, EntriesInv
<1>8. QED
  BY <1>1, <1>6, <1>7 DEF OpenInv

\* log::create of a data file, with an empty hint file or without, keeps what
\* is stored.
LEMMA CreateStored ==
  ASSUME NEW d, NEW h, NEW S, S \subseteq DOMAIN d, NEW b, b \notin DOMAIN d,
         NEW h2, h2 = h \/ h2 = Upd(h, b, <<>>), NEW k, NEW e, Stored(d, h, S, k, e)
  PROVE  Stored(Upd(d, b, EmptyFile), h2, S \cup {b}, k, e)
<1> DEFINE d2 == Upd(d, b, EmptyFile)
<1>1. /\ e.fileid \in S /\ e.fileid # b
  BY DEF Stored, Listed
<1>2. d2[b] = EmptyFile /\ \A f \in DOMAIN d : d2[f] = d[f]
  BY UpdNew, UpdOld
<1> HIDE DEF d2
<1>3. HintsKept(h, h2, e.fileid)
  BY <1>1 DEF HintsKept, Upd
<1>4. NoNewTombs(d, S, d2, S \cup {b}, k)
  BY <1>2, EmptyHolds DEF NoNewTombs
<1>5. d[e.fileid].recs \subseteq d2[e.fileid].recs
  BY <1>1, <1>2
<1>6. Stored(d2, h2, S \cup {b}, k, e)
  BY <1>1, <1>3, <1>4, <1>5, StoredStable
<1>7. QED
  BY <1>6 DEF d2

\* It adds no entry.
LEMMA CreateEntries ==
  ASSUME EntriesInv, NEW b, b \notin DOMAIN data, DOMAIN hint \subseteq DOMAIN data,
         data' = Upd(data, b, EmptyFile), hint' = hint \/ hint' = Upd(hint, b, <<>>)
  PROVE  EntriesInv'
<1>1. /\ data'[b] = EmptyFile /\ DOMAIN data' = DOMAIN data \cup {b}
      /\ \A f \in DOMAIN data : data'[f] = data[f]
  BY DEF Upd
<1>2. DOMAIN hint' \subseteq DOMAIN hint \cup {b}
  BY UpdDomain
<1>3. QED
  BY <1>1, <1>2, EmptyHolds DEF EntriesInv

\* The first and the last step of a merge create a file each.
LEMMA MergeEndsStored ==
  ASSUME OpenInv, MergeBegin \/ MergeFinish
  PROVE  OpenInv'
<1> DEFINE b == IF MergeBegin THEN active + 1 ELSE mid + 1
<1>1. CoreInv'
  BY MergeBeginStep, MergeFinishStep DEF OpenInv
<1>2. /\ data' = Upd(data, b, EmptyFile) /\ files' = files \cup {b}
      /\ hint' = hint \/ hint' = Upd(hint, b, <<>>)
      /\ UNCHANGED <<keydir, mnew, pc, req, ent>>
  BY DEF MergeBegin, MergeFinish, NextFileid, ctx, calls
<1>3. b \notin DOMAIN data /\ files \subseteq DOMAIN data /\ DOMAIN hint \subseteq DOMAIN data
  <2>1. mpc = "merge" <=> ~MergeBegin
    BY DEF MergeBegin, MergeFinish, Removing
  <2>2. \A f \in DOMAIN data : f <= (IF mpc = "merge" THEN mid ELSE active)
    BY DEF OpenInv, CoreInv, FileInv
  <2>3. active \in Nat /\ mid \in Nat /\ DOMAIN data \subseteq Nat
    BY DEF OpenInv, CoreInv, TypeOK
  <2>4. QED
    BY <2>1, <2>2, <2>3 DEF OpenInv, CoreInv, TypeOK, FileInv
<1>4. data'[active'].size = written'
  <2>1. CASE MergeBegin
    <3>1. active' = active /\ written' = written /\ active \in DOMAIN data
      BY <2>1 DEF MergeBegin, OpenInv, CoreInv, FileInv
    <3>2. QED
      BY <1>2, <1>3, <3>1, UpdOld DEF OpenInv
  <2>2. CASE MergeFinish
    <3>1. active' = mid + 1 /\ written' = 0 /\ data' = Upd(data, mid + 1, EmptyFile)
      BY <2>2 DEF MergeFinish
    <3>2. QED
      BY <3>1, UpdNew, EmptyHolds
  <2>3. QED
    BY <2>1, <2>2
<1>5. EntriesInv'
  BY <1>2, <1>3, CreateEntries DEF OpenInv
<1> HIDE DEF b
<1>6. \A k, e : Stored(data, hint, files, k, e) => Stored(data', hint', files', k, e)
  BY <1>2, <1>3, CreateStored
<1>7. StoredInv'
  BY <1>2, <1>6 DEF OpenInv, StoredInv
<1>8. QED
  BY <1>1, <1>4, <1>5, <1>7 DEF OpenInv

\* All keys are moved to their copies one by one.
LEMMA MoveStored ==
  ASSUME OpenInv, MergeKeydirSet
  PROVE  OpenInv'
<1>1. CoreInv'
  BY MergeKeydirSetStep DEF OpenInv
<1>2. PICK k \in DOMAIN mnew : keydir' = Upd(keydir, k, mnew[k]) /\ mnew' = Without(mnew, k)
  BY DEF MergeKeydirSet
<1>3. UNCHANGED <<data, files, hint, active, written, pc, req, ent>>
  BY DEF MergeKeydirSet, disk, writer, calls
<1>4. \A j \in DOMAIN keydir' :
        \/ j \in DOMAIN keydir /\ keydir'[j] = keydir[j]
        \/ j = k /\ keydir'[j] = mnew[k]
  BY <1>2 DEF Upd
<1>5. \A j \in DOMAIN mnew' : j \in DOMAIN mnew /\ mnew'[j] = mnew[j]
  BY <1>2 DEF Without
<1>6. StoredInv'
  BY <1>3, <1>4, <1>5 DEF OpenInv, StoredInv
<1>7. EntriesInv' /\ data'[active'].size = written'
  BY <1>3 DEF OpenInv, EntriesInv
<1>8. QED
  BY <1>1, <1>6, <1>7 DEF OpenInv

\* No key points into a merged file when it is removed, hint file first.
LEMMA RemoveStored ==
  ASSUME OpenInv, MergeRemoveHint \/ MergeRemoveData
  PROVE  OpenInv'
<1>1. CoreInv'
  BY MergeRemoveHintStep, MergeRemoveDataStep DEF OpenInv
<1>2. Removing /\ UNCHANGED <<data, keydir, mnew, active, written, pc, req, ent>>
  BY DEF MergeRemoveHint, MergeRemoveData, ctx, calls, merge
<1>3. PICK f \in mfiles : \/ hint' = Without(hint, f) /\ files' = files
                          \/ hint' = hint /\ files' = files \ {f}
  BY DEF MergeRemoveHint, MergeRemoveData
<1>4. /\ mpc = "merge" /\ DOMAIN mnew = {} /\ mtodo = {}
      /\ \A k \in DOMAIN keydir : keydir[k].fileid # f
      /\ \A t \in Threads : pc[t] # "index"
  BY <1>2, ThreadsAssumption DEF Removing, OpenInv, CoreInv, CoreMerge, LockInv
<1>5. ASSUME NEW k \in DOMAIN keydir
      PROVE  Stored(data', hint', files', k, keydir[k])
  <2>1. Stored(data, hint, files, k, keydir[k])
    BY <1>4 DEF OpenInv, StoredInv
  <2>2. keydir[k].fileid \in files'
    BY <1>3, <1>4, <2>1 DEF Stored, Listed
  <2>3. HintsKept(hint, hint', keydir[k].fileid)
    BY <1>3, <1>4 DEF HintsKept, Without
  <2>4. NoNewTombs(data, files, data', files', k)
    BY <1>2, <1>3 DEF NoNewTombs
  <2>5. QED
    BY <1>2, <2>1, <2>2, <2>3, <2>4, StoredStable
<1>6. StoredInv'
  BY <1>2, <1>4, <1>5 DEF StoredInv
<1>7. DOMAIN hint' \subseteq DOMAIN hint
  BY <1>3 DEF Without
<1>8. EntriesInv' /\ data'[active'].size = written'
  BY <1>2, <1>7 DEF OpenInv, EntriesInv
<1>9. QED
  BY <1>1, <1>6, <1>8 DEF OpenInv

\* What one turn of the copying loop does to the files.
LEMMA CopyFiles ==
  ASSUME CoreInv, NEW k \in mtodo, NEW rec \in CopySource(k), CopyEntry(k, rec), mpc = "merge"
  PROVE  LET n == keydir[k].len
             b == mid + 1
         IN  /\ k \in DOMAIN keydir /\ n \in Nat \ {0} /\ rec \in data[keydir[k].fileid].recs
             /\ mid \in Nat /\ mid \in files /\ mid \in DOMAIN data /\ mid \in DOMAIN hint
             /\ data'[mid] = AppendEntry(data[mid], rec.key, rec.val, n)
             /\ \A f \in DOMAIN data : f # mid => data'[f] = data[f]
             /\ hint'[mid] = Append(hint[mid], HintEntry(k, keydir[k]))
             /\ \A f \in DOMAIN hint : f # mid => hint'[f] = hint[f]
             /\ b \notin DOMAIN data /\ b \notin DOMAIN hint
             /\ \/ DOMAIN data' = DOMAIN data /\ DOMAIN hint' = DOMAIN hint /\ files' = files
                \/ /\ DOMAIN data' = DOMAIN data \cup {b} /\ files' = files \cup {b}
                   /\ DOMAIN hint' = DOMAIN hint \cup {b} /\ data'[b] = EmptyFile
             /\ mnew' = Upd(mnew, k, [fileid |-> mid, pos |-> mpos, len |-> n])
<1> DEFINE n == keydir[k].len
           b == mid + 1
           after == AppendEntry(data[mid], rec.key, rec.val, n)
           d2 == Upd(data, mid, after)
           h2 == Upd(hint, mid, Append(hint[mid], HintEntry(k, keydir[k])))
<1>1. k \in DOMAIN keydir
  BY DEF CoreInv, CoreMerge
<1>2. n \in Nat \ {0} /\ rec \in data[keydir[k].fileid].recs
  BY <1>1 DEF CoreInv, TypeOK, Entries, CopySource
<1>3. /\ mid \in Nat /\ mid \in files /\ mid \in DOMAIN data /\ mid \in DOMAIN hint
      /\ \A f \in DOMAIN data : f <= mid
      /\ DOMAIN hint \subseteq DOMAIN data /\ DOMAIN data \subseteq Nat
  BY DEF CoreInv, CoreMerge, TypeOK, FileInv
<1>4. b \notin DOMAIN data /\ b \notin DOMAIN hint /\ b # mid
  BY <1>3
<1>5. /\ DOMAIN d2 = DOMAIN data /\ d2[mid] = after
      /\ \A f \in DOMAIN data : f # mid => d2[f] = data[f]
      /\ DOMAIN h2 = DOMAIN hint /\ h2[mid] = Append(hint[mid], HintEntry(k, keydir[k]))
      /\ \A f \in DOMAIN hint : f # mid => h2[f] = hint[f]
  BY <1>3 DEF Upd
<1>6. /\ data' = IF MergeExceeds(n) THEN Upd(d2, b, EmptyFile) ELSE d2
      /\ hint' = IF MergeExceeds(n) THEN Upd(h2, b, <<>>) ELSE h2
      /\ files' = IF MergeExceeds(n) THEN files \cup {b} ELSE files
      /\ mnew' = Upd(mnew, k, [fileid |-> mid, pos |-> mpos, len |-> n])
  BY DEF CopyEntry, MergedEntry
<1> HIDE DEF d2, h2, n, after
<1>7. CASE MergeExceeds(n)
  <2>1. /\ DOMAIN data' = DOMAIN data \cup {b} /\ DOMAIN hint' = DOMAIN hint \cup {b}
        /\ data'[b] = EmptyFile
        /\ \A f \in DOMAIN data : data'[f] = d2[f]
        /\ \A f \in DOMAIN hint : hint'[f] = h2[f]
    BY <1>4, <1>5, <1>6, <1>7 DEF Upd
  <2>2. QED
    BY <1>1, <1>2, <1>3, <1>4, <1>5, <1>6, <1>7, <2>1 DEF n, after
<1>8. CASE ~MergeExceeds(n)
  BY <1>1, <1>2, <1>3, <1>4, <1>5, <1>6, <1>8 DEF n, after
<1>9. QED
  BY <1>7, <1>8

\* The copy of a key's entry is stored, and is no tombstone.
LEMMA CopyStored ==
  ASSUME OpenInv, MergeCopy
  PROVE  OpenInv'
<1>1. CoreInv'
  BY MergeCopyStep DEF OpenInv
<1>2. PICK k \in mtodo : \E r \in CopySource(k) : CopyEntry(k, r)
  BY DEF MergeCopy
<1>3. PICK rec \in CopySource(k) : CopyEntry(k, rec)
  BY <1>2
<1>4. /\ mpc = "merge" /\ CoreInv
      /\ UNCHANGED <<keydir, active, written, pc, req, ent>>
  BY DEF MergeCopy, ctx, calls, OpenInv
<1> DEFINE n == keydir[k].len
           b == mid + 1
           f0 == keydir[k].fileid
           new == [pos |-> data[mid].size, len |-> n, key |-> rec.key, val |-> rec.val]
           c == [fileid |-> mid, pos |-> mpos, len |-> n]
<1>5. /\ k \in DOMAIN keydir /\ n \in Nat \ {0} /\ rec \in data[f0].recs
      /\ mid \in Nat /\ mid \in files /\ mid \in DOMAIN data /\ mid \in DOMAIN hint
      /\ data'[mid] = AppendEntry(data[mid], rec.key, rec.val, n)
      /\ \A f \in DOMAIN data : f # mid => data'[f] = data[f]
      /\ hint'[mid] = Append(hint[mid], HintEntry(k, keydir[k]))
      /\ \A f \in DOMAIN hint : f # mid => hint'[f] = hint[f]
      /\ b \notin DOMAIN data /\ b \notin DOMAIN hint
      /\ mnew' = Upd(mnew, k, c)
  BY <1>3, <1>4, CopyFiles
<1>6. \/ DOMAIN data' = DOMAIN data /\ DOMAIN hint' = DOMAIN hint /\ files' = files
      \/ /\ DOMAIN data' = DOMAIN data \cup {b} /\ files' = files \cup {b}
         /\ DOMAIN hint' = DOMAIN hint \cup {b} /\ data'[b] = EmptyFile
  BY <1>3, <1>4, CopyFiles
<1>7. \A t \in Threads : pc[t] # "index"
  BY <1>4, ThreadsAssumption DEF CoreInv, LockInv
<1>8. /\ files \subseteq DOMAIN data /\ DOMAIN hint \subseteq files /\ DOMAIN data \subseteq Nat
      /\ active \in DOMAIN data /\ active < mid /\ active \in Nat
      /\ \A f \in DOMAIN data : f <= mid
      /\ data[mid] \in DataFiles /\ WellFormed(data[mid]) /\ Disjoint(data[mid])
      /\ hint[mid] \in Seq(Hints)
  BY <1>4, <1>5 DEF CoreInv, TypeOK, FileInv, CoreMerge, LogInv, OpenInv, EntriesInv
\* The entry copied is the one that k is stored at, or is in a merge file.
<1>9. rec.val # NoValue
  <2>1. Stored(data, hint, files, k, keydir[k])
    BY <1>5, <1>7 DEF OpenInv, StoredInv
  <2>2. CASE f0 \in DOMAIN hint
    BY <1>5, <2>2 DEF OpenInv, EntriesInv
  <2>3. CASE f0 \notin DOMAIN hint
    <3>1. PICK r \in data[f0].recs : r.pos = keydir[k].pos /\ r.val # NoValue
      BY <2>1, <2>3 DEF Stored, Listed
    <3>2. f0 \in DOMAIN data /\ WellFormed(data[f0])
      BY <1>4, <1>8, <2>1 DEF Stored, Listed, CoreInv, LogInv
    <3>3. r = rec
      BY <1>3, <3>1, <3>2 DEF CopySource, WellFormed
    <3>4. QED
      BY <3>1, <3>3
  <2>4. QED
    BY <2>2, <2>3
<1> HIDE DEF n
<1>10. /\ data'[mid].recs = data[mid].recs \cup {new} /\ Disjoint(data'[mid])
  <2>1. Disjoint(AppendEntry(data[mid], rec.key, rec.val, n))
    BY <1>5, <1>8, AppendDisjoint
  <2>2. AppendEntry(data[mid], rec.key, rec.val, n).recs = data[mid].recs \cup {new}
    BY DEF AppendEntry
  <2>3. QED
    BY <1>5, <2>1, <2>2
<1>11. new.val # NoValue
  BY <1>9
<1> HIDE DEF new
<1>12. EntriesInv'
  <2>1. \A f \in DOMAIN data : f # mid => Disjoint(data'[f])
    BY <1>5 DEF OpenInv, EntriesInv
  <2>2. \A f \in DOMAIN data' : Disjoint(data'[f])
    BY <1>6, <1>10, <2>1, EmptyHolds
  <2>3. ASSUME NEW f \in DOMAIN hint', NEW r \in data'[f].recs
        PROVE  r.val # NoValue
    <3>1. CASE f = mid
      BY <1>5, <1>10, <1>11, <2>3, <3>1 DEF OpenInv, EntriesInv
    <3>2. CASE f \in DOMAIN hint /\ f # mid
      BY <1>5, <1>8, <2>3, <3>2 DEF OpenInv, EntriesInv
    <3>3. CASE f \notin DOMAIN hint
      BY <1>6, <2>3, <3>3, EmptyHolds
    <3>4. QED
      BY <3>1, <3>2, <3>3
  <2>4. QED
    BY <2>2, <2>3 DEF EntriesInv
<1>13. ASSUME NEW j
       PROVE  NoNewTombs(data, files, data', files', j)
  <2> SUFFICES ASSUME NEW g \in files', NEW r \in data'[g].recs, r.val = NoValue
               PROVE  g \in files /\ r \in data[g].recs
    BY DEF NoNewTombs
  <2>1. CASE g = mid
    BY <1>5, <1>10, <1>11, <2>1
  <2>2. CASE g \in files /\ g # mid
    BY <1>5, <1>8, <2>2
  <2>3. CASE g \notin files
    BY <1>6, <2>3, EmptyHolds
  <2>4. QED
    BY <2>1, <2>2, <2>3
<1>14. \A f \in files : HintsKept(hint, hint', f)
  <2> SUFFICES ASSUME NEW f \in files
               PROVE  HintsKept(hint, hint', f)
    OBVIOUS
  <2>1. CASE f = mid
    <3>1. mid \in DOMAIN hint'
      BY <1>5, <1>6
    <3>2. \A i \in 1..Len(hint[mid]) : i \in 1..Len(hint'[mid]) /\ hint'[mid][i] = hint[mid][i]
      <4> DEFINE x == HintEntry(k, keydir[k])
                 s == hint[mid]
      <4> HIDE DEF x, s
      <4>1. s \in Seq(Hints) /\ hint'[mid] = Append(s, x)
        BY <1>5, <1>8 DEF s, x
      <4>2. \A i \in 1..Len(s) : i \in 1..Len(Append(s, x)) /\ Append(s, x)[i] = s[i]
        BY <4>1
      <4>3. QED
        BY <4>1, <4>2 DEF s
    <3>3. QED
      BY <1>5, <2>1, <3>1, <3>2 DEF HintsKept
  <2>2. CASE f # mid /\ f \in DOMAIN hint
    BY <1>5, <1>6, <2>2 DEF HintsKept
  <2>3. CASE f \notin DOMAIN hint
    BY <1>5, <1>6, <1>8, <2>3 DEF HintsKept
  <2>4. QED
    BY <2>1, <2>2, <2>3
<1>15. ASSUME NEW j, NEW e, Stored(data, hint, files, j, e)
       PROVE  Stored(data', hint', files', j, e)
  <2>1. e.fileid \in files /\ e.fileid \in files'
    BY <1>6, <1>15 DEF Stored, Listed
  <2>2. data[e.fileid].recs \subseteq data'[e.fileid].recs
    BY <1>5, <1>8, <1>10, <2>1
  <2>3. QED
    BY <1>13, <1>14, <1>15, <2>1, <2>2, StoredStable
<1>16. Stored(data', hint', files', k, c)
  <2>1. Listed(data', hint', files', k, mid, mpos)
    <3>1. mid \in files' /\ mid \in DOMAIN hint'
      BY <1>5, <1>6
    <3>2. \E i \in 1..Len(hint'[mid]) : hint'[mid][i].key = k
      <4> DEFINE x == HintEntry(k, keydir[k])
                 s == hint[mid]
      <4>1. s \in Seq(Hints) /\ hint'[mid] = Append(s, x)
        BY <1>5, <1>8
      <4>2. x.key = k
        BY DEF HintEntry
      <4> HIDE DEF x, s
      <4>3. /\ Len(s) + 1 \in 1..Len(Append(s, x)) /\ Append(s, x)[Len(s) + 1] = x
        BY <4>1
      <4>4. QED
        BY <4>1, <4>2, <4>3
    <3>3. QED
      BY <3>1, <3>2 DEF Listed
  <2>2. TombsBefore(data', files', k, mid, mpos)
    <3> SUFFICES ASSUME NEW g \in files', NEW r \in data'[g].recs, r.key = k, r.val = NoValue
                 PROVE  g < mid
      BY DEF TombsBefore
    <3>1. g \in files /\ r \in data[g].recs
      BY <1>13 DEF NoNewTombs
    <3>2. g # mid
      BY <1>5, <3>1 DEF OpenInv, EntriesInv
    <3>3. QED
      BY <1>5, <1>8, <3>1, <3>2
  <2>3. QED
    BY <2>1, <2>2 DEF Stored
<1>17. ASSUME NEW j \in DOMAIN mnew'
       PROVE  Stored(data', hint', files', j, mnew'[j])
  <2>1. CASE j = k
    BY <1>5, <1>16, <2>1, UpdNew
  <2>2. CASE j # k
    <3>1. j \in DOMAIN mnew /\ mnew'[j] = mnew[j]
      BY <1>5, <2>2 DEF Upd
    <3>2. QED
      BY <1>15, <3>1 DEF OpenInv, StoredInv
  <2>3. QED
    BY <2>1, <2>2
<1>18. StoredInv'
  BY <1>4, <1>7, <1>15, <1>17 DEF OpenInv, StoredInv
<1>19. data'[active'].size = written'
  BY <1>4, <1>5, <1>8 DEF OpenInv
<1>20. QED
  BY <1>1, <1>12, <1>18, <1>19 DEF OpenInv

\* Every step of a running instance keeps its keys stored.
LEMMA RunningStored ==
  ASSUME OpenInv, FreshInv, Running
  PROVE  OpenInv'
<1>0. Next /\ phase = "open" /\ CoreInv /\ TypeOK
  BY DEF Running, OpenInv, CoreInv
<1>1. CASE \E t \in Threads : Write(t)
  BY <1>0, <1>1, WriteStored
<1>2. CASE \E t \in Threads : KeydirSet(t) \/ KeydirRemove(t)
  BY <1>2, IndexStored
<1>3. CASE MergeBegin \/ MergeStep
  BY <1>3, MergeEndsStored, CopyStored, MoveStored, RemoveStored DEF MergeStep
<1>4. CASE \/ \E t \in Threads : \/ \E r \in Requests : Call(t, r)
                                \/ GetLookup(t) \/ GetRead(t) \/ Return(t)
           \/ Close \/ MergeTick \/ MergeSkip \/ MergeStop \/ SyncTick \/ SyncActive \/ SyncStop
  <2>1. CoreInv'
    BY <1>0, NextCore
  <2>2. UNCHANGED <<data, hint, files, keydir, mnew, active, written>>
    BY <1>4 DEF Call, GetLookup, GetRead, Return, Close, MergeTick, MergeSkip, MergeStop,
       SyncTick, SyncActive, SyncStop, disk, ctx, writer, merge
  <2>3. ASSUME NEW u \in Threads
        PROVE  /\ pc'[u] = "index" <=> pc[u] = "index"
               /\ pc[u] = "index" => req'[u] = req[u] /\ ent'[u] = ent[u]
    BY <1>0, <1>4 DEF TypeOK, Call, GetLookup, GetRead, Return, Close, MergeTick, MergeSkip,
       MergeStop, SyncTick, SyncActive, SyncStop, calls
  <2>4. QED
    BY <2>1, <2>2, <2>3, StoredQuiet
<1>5. QED
  BY <1>0, <1>1, <1>2, <1>3, <1>4 DEF Next

-----------------------------------------------------------------------------
(* Stopping *)

\* A key that is stored when the process stops is kept if its file stays.
LEMMA StoredKept ==
  ASSUME NEW k, NEW e, Stored(data, hint, files, k, e), EntriesInv',
         e.fileid \in files', files' \subseteq files, files \subseteq Nat, hint' = hint,
         \A g \in files' : data'[g].recs \subseteq data[g].recs,
         e.fileid \notin DOMAIN hint => data'[e.fileid] = data[e.fileid],
         \A g \in files' : \A rec \in data'[g].recs : rec.pos \in Nat,
         phase' = "down"
  PROVE  Kept(k)'
<1> DEFINE f == e.fileid
<1>1. TombsBefore(data', files', k, f, e.pos)
  BY DEF Stored, TombsBefore
<1>2. CASE f \in DOMAIN hint
  <2>1. TombsBefore(data', files', k, f, 0)
    BY <1>1, <1>2 DEF TombsBefore, EntriesInv
  <2>2. PICK i \in 1..Len(hint[f]) : hint[f][i].key = k
    BY <1>2 DEF Stored, Listed
  <2>3. KeptByHint(k, f)'
    BY <2>1, <2>2 DEF KeptByHint
  <2>4. QED
    BY <1>2, <2>3 DEF Kept
<1>3. CASE f \notin DOMAIN hint
  <2>1. PICK rec \in data[f].recs : rec.pos = e.pos /\ rec.key = k /\ rec.val # NoValue
    BY <1>3 DEF Stored, Listed
  <2>2. rec \in data'[f].recs
    BY <1>3, <2>1
  <2>3. KeptByEntry(k, f)'
    BY <1>1, <2>1, <2>2 DEF KeptByEntry
  <2>4. QED
    BY <1>3, <2>3 DEF Kept
<1>4. QED
  BY <1>2, <1>3

\* What a stop leaves has no overlaps and no tombstone in a merge file.
LEMMA StopEntries ==
  ASSUME TypeOK, LogInv, EntriesInv, files \subseteq DOMAIN data,
         files' \subseteq files, DOMAIN data' = files', hint' = hint, DOMAIN hint \subseteq files',
         \A f \in files' : data'[f].recs \subseteq data[f].recs
  PROVE  EntriesInv'
BY DEF EntriesInv, Disjoint

\* Whenever the process is killed, in the middle of a merge included, or stops
\* cleanly, its keys are kept.
LEMMA StopKept ==
  ASSUME SurviveInv, FreshInv, FreshInv', Crash \/ CrashInOpen \/ DropWriter
  PROVE  DownInv' /\ phase' = "down"
<1>0. /\ TypeOK /\ LogInv /\ EntriesInv
      /\ mpc = "merge" => mid \in DOMAIN data /\ mid \in DOMAIN hint
  <2>1. CASE phase = "open"
    BY <2>1 DEF SurviveInv, OpenInv, CoreInv, CoreMerge, TypeOK
  <2>2. CASE phase # "open"
    BY <2>2 DEF SurviveInv, DownInv, StoppedCore
  <2>3. QED
    BY <2>1, <2>2
<1>1. /\ MemoryLost /\ phase' = "down" /\ hint' = hint
      /\ files' \subseteq files
      /\ data' = [f \in files' |-> data'[f]]
      /\ \A f \in files' : Remains(f, data'[f])
  BY <1>0, StopLeaves
<1>2. StoppedCore' /\ DOMAIN keydir' = {}
  BY <1>0, StopCore
<1>3. /\ files \subseteq DOMAIN data /\ files \subseteq Nat /\ DOMAIN data' = files'
      /\ DOMAIN hint \subseteq files'
  BY <1>0, <1>1 DEF TypeOK, FreshInv
<1>4. ASSUME NEW f \in files'
      PROVE  /\ data'[f] \in DataFiles /\ data'[f].recs \subseteq data[f].recs
             /\ f \notin DOMAIN hint => data'[f] = data[f]
  BY <1>0, <1>1, <1>3, RemainsType
<1>5. EntriesInv'
  BY <1>0, <1>1, <1>3, <1>4, StopEntries
<1>6. \A f \in files' : \A rec \in data'[f].recs : rec.pos \in Nat
  BY <1>4 DEF DataFiles, Records
<1>7. ASSUME NEW k \in must'
      PROVE  Kept(k)'
  <2>1. files' = files \/ (files' = WrittenFiles /\ phase = "open" /\ mpc # "merge")
    BY StopFiles
  <2>2. CASE Crash \/ DropWriter
    <3>1. /\ phase = "open" /\ k \in DOMAIN keydir
          /\ \A t \in Threads : pc[t] = "index" /\ req[t].op = "del" => req[t].key # k
      BY <1>7, <2>2 DEF Crash, DropWriter, Unindexed
    <3>2. Stored(data, hint, files, k, keydir[k])
      BY <3>1 DEF SurviveInv, OpenInv, StoredInv
    <3>3. keydir[k].fileid \in files'
      <4>1. CASE files' = WrittenFiles /\ written = 0 /\ mpc # "merge"
        <5>1. active \in DOMAIN data /\ data[active].size = 0 /\ active \notin DOMAIN hint
          BY <3>1, <4>1 DEF SurviveInv, OpenInv, CoreInv, FileInv, FreshInv
        <5>2. data[active] \in DataFiles /\ WellFormed(data[active])
          BY <1>0, <5>1 DEF TypeOK, LogInv
        <5>3. \A rec \in data[active].recs : rec.pos \in Nat /\ rec.len \in Nat \ {0}
          BY <5>2 DEF DataFiles, Records
        <5>4. data[active].recs = {}
          BY <5>1, <5>2, <5>3 DEF WellFormed
        <5>5. QED
          BY <3>1, <3>2, <4>1, <5>1, <5>4 DEF Stored, Listed, WrittenFiles
      <4>2. CASE files' = files
        BY <3>2, <4>2 DEF Stored, Listed
      <4>3. QED
        BY <2>1, <4>1, <4>2 DEF WrittenFiles
    <3>4. QED
      BY <1>1, <1>3, <1>4, <1>5, <1>6, <3>2, <3>3, StoredKept
  <2>3. CASE CrashInOpen
    <3>1. /\ phase = "rebuild" /\ must' = must /\ files' = files
          /\ \A f \in files : data'[f] = data[f]
      BY <2>3 DEF CrashInOpen, FilesLeft, Restrict
    <3>2. PICK f \in files : IF f \in DOMAIN hint THEN KeptByHint(k, f) ELSE KeptByEntry(k, f)
      BY <1>7, <3>1 DEF SurviveInv, DownInv, Kept
    <3>3. \A p : TombsBefore(data, files, k, f, p) => TombsBefore(data', files', k, f, p)
      BY <3>1 DEF TombsBefore
    <3>4. CASE f \in DOMAIN hint
      <4>1. KeptByHint(k, f)'
        BY <1>1, <3>2, <3>3, <3>4 DEF KeptByHint
      <4>2. QED
        BY <1>1, <3>1, <3>4, <4>1 DEF Kept
    <3>5. CASE f \notin DOMAIN hint
      <4>1. KeptByEntry(k, f)'
        BY <1>1, <3>1, <3>2, <3>3, <3>5 DEF KeptByEntry
      <4>2. QED
        BY <1>1, <3>1, <3>5, <4>1 DEF Kept
    <3>6. QED
      BY <3>4, <3>5
  <2>4. QED
    BY <2>2, <2>3
<1>8. at' = 0
  BY <1>1 DEF MemoryLost
<1>9. QED
  BY <1>1, <1>2, <1>5, <1>7, <1>8 DEF DownInv

-----------------------------------------------------------------------------
(* Reopening *)

\* Before the first file is read.
LEMMA BeginKept ==
  ASSUME DownInv, OpenBegin
  PROVE  DownInv'
<1>1. /\ phase = "down" /\ phase' = "rebuild" /\ todo' = files /\ at = 0
      /\ UNCHANGED <<data, files, hint, keydir, at, must>> /\ DOMAIN keydir = {}
  BY DEF OpenBegin, DownInv, vars, disk, ctx
<1>2. StoppedCore' /\ EntriesInv'
  BY <1>1, StoppedKept DEF DownInv, EntriesInv
<1>3. ScanInv'
  BY <1>1 DEF ScanInv
<1>4. ASSUME NEW k \in must
      PROVE  Kept(k)'
  <2>1. PICK f \in files : IF f \in DOMAIN hint THEN KeptByHint(k, f) ELSE KeptByEntry(k, f)
    BY <1>4 DEF DownInv, Kept
  <2>2. \A p \in Nat : ~ReadPast(f, p)'
    BY <1>1 DEF ReadPast
  <2>3. CASE f \in DOMAIN hint
    <3>1. KeptByHint(k, f)'
      BY <1>1, <2>1, <2>2, <2>3 DEF KeptByHint
    <3>2. QED
      BY <1>1, <2>3, <3>1 DEF Kept
  <2>4. CASE f \notin DOMAIN hint
    <3>1. PICK rec \in data[f].recs : /\ rec.key = k /\ rec.val # NoValue
                                      /\ TombsBefore(data, files, k, f, rec.pos)
      BY <2>1, <2>4 DEF KeptByEntry
    <3>2. rec.pos \in Nat
      BY <3>1 DEF DownInv, StoppedCore, TypeOK, DataFiles, Records
    <3>3. KeptByEntry(k, f)'
      BY <1>1, <2>2, <3>1, <3>2 DEF KeptByEntry
    <3>4. QED
      BY <1>1, <2>4, <3>3 DEF Kept
  <2>5. QED
    BY <2>3, <2>4
<1>5. QED
  BY <1>1, <1>2, <1>3, <1>4 DEF DownInv

\* The files read come before the one being read.
LEMMA ScanOrder ==
  ASSUME DownInv, FreshInv, phase = "rebuild", NEW f \in todo, Current(f)
  PROVE  /\ f \in files /\ f \in Nat /\ f \in DOMAIN data /\ at \in Nat
         /\ \A g \in files \ todo : g < f
         /\ \A g \in todo : Current(g) => g = f
<1>1. /\ todo \subseteq files /\ files \subseteq Nat /\ DOMAIN data = files /\ at \in Nat
      /\ \A g \in files \ todo : g < f
  BY DEF FreshInv, DownInv, ScanInv, StoppedCore
<1>2. \A g \in todo : Current(g) => g = f
  <2> SUFFICES ASSUME NEW g \in todo, Current(g)
               PROVE  g = f
    OBVIOUS
  <2>1. f <= g /\ g <= f
    BY DEF Current
  <2>2. QED
    BY <1>1, <2>1
<1>3. QED
  BY <1>1, <1>2

\* A turn of the loop of populate_keydir_with_hintfile indexes a key, and
\* passes no tombstone.
LEMMA HintKept ==
  ASSUME DownInv, FreshInv, ScanHint
  PROVE  DownInv'
<1>1. /\ phase = "rebuild" /\ phase' = phase /\ at' = at + 1
      /\ UNCHANGED <<data, files, hint, todo, must>>
  BY DEF ScanHint, ScanKeeps, disk
<1>2. PICK f \in todo \cap DOMAIN hint :
        /\ Current(f) /\ at < Len(hint[f])
        /\ LET h == hint[f][at + 1]
           IN  keydir' = Upd(keydir, h.key, [fileid |-> f, pos |-> h.pos, len |-> h.len])
  BY DEF ScanHint, Indexed
<1>3. /\ f \in files /\ f \in Nat /\ f \in DOMAIN data /\ at \in Nat
      /\ \A g \in files \ todo : g < f
      /\ \A g \in todo : Current(g) => g = f
  BY <1>1, <1>2, ScanOrder
<1> DEFINE h == hint[f][at + 1]
           e == [fileid |-> f, pos |-> h.pos, len |-> h.len]
<1>4. keydir' = Upd(keydir, h.key, e) /\ e.fileid = f
  BY <1>2
<1> HIDE DEF e
<1>5. /\ DOMAIN keydir' = DOMAIN keydir \cup {h.key} /\ keydir'[h.key] = e
      /\ \A j \in DOMAIN keydir : j # h.key => keydir'[j] = keydir[j]
  BY <1>4 DEF Upd
<1>6. at + 1 \in 1..Len(hint[f])
  <2>1. hint[f] \in Seq(Hints)
    BY <1>2 DEF DownInv, StoppedCore, TypeOK
  <2>2. QED
    BY <1>2, <1>3, <2>1
<1>7. StoppedCore' /\ EntriesInv'
  BY <1>1, ScanCore DEF DownInv, EntriesInv
<1>8. ASSUME NEW g \in files, NEW p \in Nat
      PROVE  ReadPast(g, p)' <=> ReadPast(g, p) \/ (g = f /\ p = at)
  <2>1. ReadPast(g, p)' <=> g \notin todo \/ (Current(g) /\ p < at + 1)
    BY <1>1 DEF ReadPast, Current
  <2>2. p < at + 1 <=> p < at \/ p = at
    BY <1>3
  <2>3. QED
    BY <1>2, <1>3, <2>1, <2>2 DEF ReadPast
<1>9. ASSUME NEW k \in must
      PROVE  Kept(k)'
  <2>1. PICK g \in files : IF g \in DOMAIN hint THEN KeptByHint(k, g) ELSE KeptByEntry(k, g)
    BY <1>9 DEF DownInv, Kept
  <2>2. CASE g \in DOMAIN hint
    <3>1. PICK i \in 1..Len(hint[g]) :
            hint[g][i].key = k /\ (ReadPast(g, i - 1) => k \in DOMAIN keydir)
      BY <1>1, <2>1, <2>2 DEF KeptByHint
    <3>2. ReadPast(g, i - 1)' => k \in DOMAIN keydir'
      <4> SUFFICES ASSUME ReadPast(g, i - 1)'
                   PROVE  k \in DOMAIN keydir'
        OBVIOUS
      <4>1. CASE ReadPast(g, i - 1)
        BY <1>5, <3>1, <4>1
      <4>2. CASE g = f /\ i - 1 = at
        <5>1. i = at + 1
          BY <1>3, <4>2
        <5>2. QED
          BY <1>5, <3>1, <4>2, <5>1
      <4>3. QED
        BY <1>8, <4>1, <4>2
    <3>3. KeptByHint(k, g)'
      BY <1>1, <2>1, <2>2, <3>1, <3>2 DEF KeptByHint
    <3>4. QED
      BY <1>1, <2>2, <3>3 DEF Kept
  <2>3. CASE g \notin DOMAIN hint
    <3>1. PICK rec \in data[g].recs : /\ rec.key = k /\ rec.val # NoValue
                                      /\ TombsBefore(data, files, k, g, rec.pos)
                                      /\ ReadPast(g, rec.pos) => k \in DOMAIN keydir
      BY <1>1, <2>1, <2>3 DEF KeptByEntry
    <3>2. rec.pos \in Nat /\ g # f
      BY <1>2, <2>3, <3>1 DEF DownInv, StoppedCore, TypeOK, DataFiles, Records
    <3>3. ReadPast(g, rec.pos)' => k \in DOMAIN keydir'
      BY <1>5, <1>8, <3>1, <3>2
    <3>4. KeptByEntry(k, g)'
      BY <1>1, <3>1, <3>3 DEF KeptByEntry
    <3>5. QED
      BY <1>1, <2>3, <3>4 DEF Kept
  <2>4. QED
    BY <2>2, <2>3
\* No tombstone is passed, as the file has none.
<1>10. ASSUME NEW g \in files, NEW rec \in data[g].recs, rec.val = NoValue, ReadPast(g, rec.pos)'
       PROVE  ReadPast(g, rec.pos) /\ g # f
  <2>1. g \notin DOMAIN hint
    BY <1>10 DEF DownInv, EntriesInv
  <2>2. rec.pos \in Nat
    BY <1>10 DEF DownInv, StoppedCore, TypeOK, DataFiles, Records
  <2>3. QED
    BY <1>2, <1>8, <1>10, <2>1, <2>2
<1>11. ASSUME NEW j \in DOMAIN keydir'
       PROVE  Found(j, keydir[j])'
  <2>1. CASE j = h.key
    <3>1. Listed(data, hint, files, j, f, e.pos)
      BY <1>2, <1>3, <1>6, <2>1 DEF Listed
    <3>2. ASSUME NEW g \in files, NEW rec \in data[g].recs, rec.val = NoValue, ReadPast(g, rec.pos)'
          PROVE  g < f
      <4>1. g # f /\ ReadPast(g, rec.pos)
        BY <1>10, <3>2
      <4>2. QED
        BY <1>3, <4>1 DEF ReadPast, Current
    <3>3. QED
      BY <1>1, <1>4, <1>5, <2>1, <3>1, <3>2 DEF Found
  <2>2. CASE j # h.key
    <3>1. j \in DOMAIN keydir /\ keydir'[j] = keydir[j]
      BY <1>5, <2>2
    <3>2. Found(j, keydir[j])
      BY <1>1, <3>1 DEF DownInv, ScanInv
    <3>3. QED
      BY <1>1, <1>10, <3>1, <3>2 DEF Found
  <2>3. QED
    BY <2>1, <2>2
<1>12. ScanInv'
  BY <1>1, <1>11 DEF DownInv, ScanInv
<1>13. QED
  BY <1>1, <1>7, <1>9, <1>12 DEF DownInv

\* The only entry that a turn of the loop of populate_keydir_with_datafile passes
\* is the one it reads.
LEMMA ReadOne ==
  ASSUME DownInv, FreshInv, ScanData, NEW f \in todo, NEW rec \in data[f].recs,
         Current(f), rec.pos = at, at' = at + rec.len,
         NEW g \in files, NEW r \in data[g].recs
  PROVE  ReadPast(g, r.pos)' <=> ReadPast(g, r.pos) \/ (g = f /\ r = rec)
<1>1. phase = "rebuild" /\ UNCHANGED <<data, files, todo>>
  BY DEF ScanData, ScanKeeps, disk
<1>2. /\ f \in files /\ f \in Nat /\ f \in DOMAIN data /\ at \in Nat
      /\ \A h \in todo : Current(h) => h = f
  BY <1>1, ScanOrder
<1>3. /\ WellFormed(data[f]) /\ Disjoint(data[f])
      /\ \A q \in data[f].recs : q.pos \in Nat /\ q.len \in Nat \ {0}
  BY <1>2 DEF DownInv, StoppedCore, TypeOK, LogInv, EntriesInv, DataFiles, Records
<1>4. ReadPast(g, r.pos)' <=> g \notin todo \/ (Current(g) /\ r.pos < at + rec.len)
  BY <1>1 DEF ReadPast, Current
<1>5. ASSUME g = f
      PROVE  r.pos < at + rec.len <=> r.pos < at \/ r = rec
  <2>1. CASE r.pos < rec.pos
    BY <1>2, <1>3, <1>5, <2>1
  <2>2. CASE r.pos = rec.pos
    <3>1. r = rec
      BY <1>3, <1>5, <2>2 DEF WellFormed
    <3>2. QED
      BY <1>2, <1>3, <3>1
  <2>3. CASE rec.pos < r.pos
    <3>1. rec.pos + rec.len <= r.pos
      BY <1>3, <1>5, <2>3, EndsBefore
    <3>2. QED
      BY <1>2, <1>3, <1>5, <2>3, <3>1
  <2>4. r.pos \in Nat /\ rec.pos \in Nat
    BY <1>3, <1>5
  <2>5. QED
    BY <2>1, <2>2, <2>3, <2>4
<1>6. QED
  BY <1>2, <1>4, <1>5 DEF ReadPast

\* A turn of the loop of populate_keydir_with_datafile indexes the key of a
\* value, and removes a key by a tombstone only before the entry that keeps it.
LEMMA DataKept ==
  ASSUME DownInv, FreshInv, ScanData
  PROVE  DownInv'
<1>1. /\ phase = "rebuild" /\ phase' = phase
      /\ UNCHANGED <<data, files, hint, todo, must>>
  BY DEF ScanData, ScanKeeps, disk
<1>2. PICK f \in todo \ DOMAIN hint : \E r \in NextEntry(f) :
        /\ Current(f) /\ at' = at + r.len
        /\ IF r.val = NoValue THEN keydir' = Without(keydir, r.key)
           ELSE keydir' = Upd(keydir, r.key, [fileid |-> f, pos |-> r.pos, len |-> r.len])
  BY DEF ScanData, Indexed, Unindex
<1>3. PICK rec \in data[f].recs :
        /\ rec.pos = at /\ Current(f) /\ at' = at + rec.len
        /\ IF rec.val = NoValue THEN keydir' = Without(keydir, rec.key)
           ELSE keydir' = Upd(keydir, rec.key, [fileid |-> f, pos |-> rec.pos, len |-> rec.len])
  BY <1>2 DEF NextEntry
<1>4. /\ f \in files /\ f \in Nat /\ f \in DOMAIN data /\ at \in Nat
      /\ \A g \in files \ todo : g < f
      /\ \A g \in todo : Current(g) => g = f
  BY <1>1, <1>3, ScanOrder
<1>5. /\ data[f] \in DataFiles /\ WellFormed(data[f]) /\ Disjoint(data[f])
      /\ \A r \in data[f].recs : r.pos \in Nat /\ r.len \in Nat \ {0}
  BY <1>4 DEF DownInv, StoppedCore, TypeOK, LogInv, EntriesInv, DataFiles, Records
<1> DEFINE e == [fileid |-> f, pos |-> rec.pos, len |-> rec.len]
<1>6. /\ rec.val = NoValue => keydir' = Without(keydir, rec.key)
      /\ rec.val # NoValue => keydir' = Upd(keydir, rec.key, e)
      /\ e.fileid = f /\ e.pos = at
  BY <1>3
<1> HIDE DEF e
<1>7. /\ \A j \in DOMAIN keydir : j # rec.key \/ rec.val # NoValue => j \in DOMAIN keydir'
      /\ \A j \in DOMAIN keydir' : \/ j \in DOMAIN keydir /\ keydir'[j] = keydir[j] /\ j # rec.key
                                   \/ j = rec.key /\ rec.val # NoValue /\ keydir'[j] = e
      /\ rec.val # NoValue => rec.key \in DOMAIN keydir'
  BY <1>6 DEF Upd, Without
<1>8. StoppedCore' /\ EntriesInv'
  BY <1>1, ScanCore DEF DownInv, EntriesInv
<1>9. ASSUME NEW g \in files, NEW r \in data[g].recs
      PROVE  ReadPast(g, r.pos)' <=> ReadPast(g, r.pos) \/ (g = f /\ r = rec)
  BY <1>2, <1>3, ReadOne
<1>10. ASSUME NEW k \in must
       PROVE  Kept(k)'
  <2>1. PICK g \in files : IF g \in DOMAIN hint THEN KeptByHint(k, g) ELSE KeptByEntry(k, g)
    BY <1>10 DEF DownInv, Kept
  <2>2. CASE g \in DOMAIN hint
    <3>1. PICK i \in 1..Len(hint[g]) :
            hint[g][i].key = k /\ (ReadPast(g, i - 1) => k \in DOMAIN keydir)
      BY <1>1, <2>1, <2>2 DEF KeptByHint
    <3>2. ASSUME ReadPast(g, i - 1)'
          PROVE  g \in files \ todo
      BY <1>1, <1>2, <1>4, <2>2, <3>2 DEF ReadPast, Current
    <3>3. ReadPast(g, i - 1)' => k \in DOMAIN keydir'
      <4> SUFFICES ASSUME g \in files \ todo
                   PROVE  k \in DOMAIN keydir'
        BY <3>2
      <4>1. k \in DOMAIN keydir /\ g < f
        BY <1>4, <3>1 DEF ReadPast
      <4>2. ~(rec.key = k /\ rec.val = NoValue)
        <5>1. TombsBefore(data, files, k, g, 0)
          BY <2>1, <2>2 DEF KeptByHint
        <5>2. rec.key = k /\ rec.val = NoValue => f < g \/ (f = g /\ rec.pos < 0)
          BY <1>3, <1>4, <5>1 DEF TombsBefore
        <5>3. g \in Nat
          BY DEF FreshInv
        <5>4. QED
          BY <1>4, <4>1, <5>2, <5>3
      <4>3. QED
        BY <1>7, <4>1, <4>2
    <3>4. KeptByHint(k, g)'
      BY <1>1, <2>1, <2>2, <3>1, <3>3 DEF KeptByHint
    <3>5. QED
      BY <1>1, <2>2, <3>4 DEF Kept
  <2>3. CASE g \notin DOMAIN hint
    <3>1. PICK r \in data[g].recs : /\ r.key = k /\ r.val # NoValue
                                    /\ TombsBefore(data, files, k, g, r.pos)
                                    /\ ReadPast(g, r.pos) => k \in DOMAIN keydir
      BY <1>1, <2>1, <2>3 DEF KeptByEntry
    <3>2. ReadPast(g, r.pos)' => k \in DOMAIN keydir'
      <4>1. CASE g = f /\ r = rec
        BY <1>7, <3>1, <4>1
      <4>2. CASE ReadPast(g, r.pos)
        <5>1. k \in DOMAIN keydir
          BY <3>1, <4>2
        <5>2. g \in Nat /\ (g < f \/ (g = f /\ r.pos < at))
          BY <1>3, <1>4, <4>2 DEF ReadPast, FreshInv
        <5>3. rec.key = k /\ rec.val = NoValue => f < g \/ (f = g /\ at < r.pos)
          BY <1>3, <1>4, <3>1 DEF TombsBefore
        <5>4. g = f => r.pos \in Nat
          BY <1>5
        <5>5. ~(rec.key = k /\ rec.val = NoValue)
          BY <1>4, <5>2, <5>3, <5>4
        <5>6. QED
          BY <1>7, <5>1, <5>5
      <4>3. QED
        BY <1>9, <4>1, <4>2
    <3>3. KeptByEntry(k, g)'
      BY <1>1, <3>1, <3>2 DEF KeptByEntry
    <3>4. QED
      BY <1>1, <2>3, <3>3 DEF Kept
  <2>4. QED
    BY <2>2, <2>3
<1>11. ASSUME NEW j \in DOMAIN keydir'
       PROVE  Found(j, keydir[j])'
  <2>1. CASE j = rec.key /\ rec.val # NoValue /\ keydir'[j] = e
    <3>1. Listed(data, hint, files, j, f, at)
      BY <1>2, <1>3, <1>4, <2>1 DEF Listed
    <3>2. ASSUME NEW g \in files, NEW r \in data[g].recs, r.val = NoValue, ReadPast(g, r.pos)'
          PROVE  g < f \/ (g = f /\ r.pos < at)
      <4>1. ReadPast(g, r.pos)
        BY <1>9, <2>1, <3>2
      <4>2. QED
        BY <1>3, <1>4, <4>1 DEF ReadPast
    <3>3. QED
      BY <1>1, <1>6, <2>1, <3>1, <3>2 DEF Found
  <2>2. CASE j \in DOMAIN keydir /\ keydir'[j] = keydir[j] /\ j # rec.key
    <3>1. Found(j, keydir[j])
      BY <1>1, <2>2 DEF DownInv, ScanInv
    <3>2. ASSUME NEW g \in files, NEW r \in data[g].recs, r.key = j, ReadPast(g, r.pos)'
          PROVE  ReadPast(g, r.pos)
      BY <1>9, <2>2, <3>2
    <3>3. QED
      BY <1>1, <2>2, <3>1, <3>2 DEF Found
  <2>3. QED
    BY <1>7, <2>1, <2>2
<1>12. ScanInv'
  BY <1>1, <1>11 DEF DownInv, ScanInv
<1>13. QED
  BY <1>1, <1>8, <1>10, <1>12 DEF DownInv

\* At the end of a data file LogIterator has passed all its entries.
LEMMA ReadAll ==
  ASSUME DownInv, FreshInv, phase = "rebuild", NEW f \in todo, Current(f), AtEnd(f),
         f \notin DOMAIN hint, NEW r \in data[f].recs
  PROVE  ReadPast(f, r.pos)
<1>1. f \in DOMAIN data
  BY ScanOrder
<1>2. data[f] \in DataFiles /\ WellFormed(data[f])
  BY <1>1 DEF DownInv, StoppedCore, TypeOK, LogInv
<1>3. /\ r.pos \in Nat /\ r.len \in Nat \ {0} /\ data[f].size \in Nat
      /\ r.pos + r.len <= data[f].size
  BY <1>2 DEF DataFiles, Records, WellFormed
<1>4. at = data[f].size
  BY DEF AtEnd
<1>5. QED
  BY <1>3, <1>4 DEF ReadPast

\* At the end of a file all of it is read, and none of the next one.
LEMMA NextKept ==
  ASSUME DownInv, FreshInv, ScanNext
  PROVE  DownInv'
<1>1. /\ phase = "rebuild" /\ phase' = phase /\ at' = 0
      /\ UNCHANGED <<data, files, hint, keydir, must>>
  BY DEF ScanNext, vars, disk, ctx
<1>2. PICK f \in todo : Current(f) /\ AtEnd(f) /\ todo' = todo \ {f}
  BY DEF ScanNext
<1>3. /\ f \in files /\ f \in Nat /\ f \in DOMAIN data /\ at \in Nat
      /\ \A g \in files \ todo : g < f
      /\ \A g \in todo : Current(g) => g = f
  BY <1>1, <1>2, ScanOrder
<1>4. StoppedCore' /\ EntriesInv'
  BY <1>1, StoppedKept DEF DownInv, EntriesInv
<1>5. ASSUME NEW g \in files, NEW p \in Nat, ReadPast(g, p)'
      PROVE  g \notin todo \/ g = f
  BY <1>1, <1>2, <1>5 DEF ReadPast
<1>6. ASSUME f \notin DOMAIN hint, NEW r \in data[f].recs
      PROVE  ReadPast(f, r.pos)
  BY <1>1, <1>2, <1>6, ReadAll
<1>7. ASSUME f \in DOMAIN hint, NEW i \in 1..Len(hint[f])
      PROVE  ReadPast(f, i - 1)
  <2>1. at = Len(hint[f]) /\ Len(hint[f]) \in Nat
    BY <1>2, <1>3, <1>7 DEF AtEnd
  <2>2. i - 1 < at
    BY <1>7, <2>1
  <2>3. QED
    BY <1>2, <2>2 DEF ReadPast
<1>8. \A g : g \notin todo => \A p : ReadPast(g, p)
  BY DEF ReadPast
<1>9. ASSUME NEW k \in must
      PROVE  Kept(k)'
  <2>1. PICK g \in files : IF g \in DOMAIN hint THEN KeptByHint(k, g) ELSE KeptByEntry(k, g)
    BY <1>9 DEF DownInv, Kept
  <2>2. CASE g \in DOMAIN hint
    <3>1. PICK i \in 1..Len(hint[g]) :
            hint[g][i].key = k /\ (ReadPast(g, i - 1) => k \in DOMAIN keydir)
      BY <1>1, <2>1, <2>2 DEF KeptByHint
    <3>2. i - 1 \in Nat
      BY <3>1
    <3>3. ReadPast(g, i - 1)' => k \in DOMAIN keydir'
      BY <1>1, <1>5, <1>7, <1>8, <2>2, <3>1, <3>2
    <3>4. KeptByHint(k, g)'
      BY <1>1, <2>1, <2>2, <3>1, <3>3 DEF KeptByHint
    <3>5. QED
      BY <1>1, <2>2, <3>4 DEF Kept
  <2>3. CASE g \notin DOMAIN hint
    <3>1. PICK r \in data[g].recs : /\ r.key = k /\ r.val # NoValue
                                    /\ TombsBefore(data, files, k, g, r.pos)
                                    /\ ReadPast(g, r.pos) => k \in DOMAIN keydir
      BY <1>1, <2>1, <2>3 DEF KeptByEntry
    <3>2. r.pos \in Nat
      BY <3>1 DEF DownInv, StoppedCore, TypeOK, DataFiles, Records
    <3>3. ReadPast(g, r.pos)' => k \in DOMAIN keydir'
      BY <1>1, <1>5, <1>6, <1>8, <2>3, <3>1, <3>2
    <3>4. KeptByEntry(k, g)'
      BY <1>1, <3>1, <3>3 DEF KeptByEntry
    <3>5. QED
      BY <1>1, <2>3, <3>4 DEF Kept
  <2>4. QED
    BY <2>2, <2>3
<1>10. ASSUME NEW g \in files, NEW r \in data[g].recs, r.val = NoValue, ReadPast(g, r.pos)'
       PROVE  ReadPast(g, r.pos)
  <2>1. r.pos \in Nat /\ g \notin DOMAIN hint
    BY <1>10 DEF DownInv, StoppedCore, TypeOK, DataFiles, Records, EntriesInv
  <2>2. QED
    BY <1>5, <1>6, <1>8, <1>10, <2>1
<1>11. \A k \in DOMAIN keydir : Found(k, keydir[k])'
  BY <1>1, <1>10 DEF DownInv, ScanInv, Found
<1>12. \A g \in files' \ todo' : \A h \in todo' : g < h
  <2> SUFFICES ASSUME NEW g \in files \ todo', NEW h \in todo'
               PROVE  g < h
    BY <1>1
  <2>1. h \in todo /\ h # f /\ f <= h /\ h \in Nat
    BY <1>1, <1>2 DEF Current, FreshInv
  <2>2. CASE g = f
    BY <1>3, <2>1, <2>2
  <2>3. CASE g # f
    BY <1>1, <1>2, <2>1, <2>3 DEF DownInv, ScanInv
  <2>4. QED
    BY <2>2, <2>3
<1>13. ScanInv'
  BY <1>1, <1>11, <1>12 DEF ScanInv
<1>14. QED
  BY <1>1, <1>4, <1>9, <1>13 DEF DownInv

\* When all files are read, every key in the KeyDir is stored.
LEMMA OpenStored ==
  ASSUME DownInv, FreshInv, OpenFinish
  PROVE  OpenInv'
<1> DEFINE b == latest + 1
<1>1. /\ phase = "rebuild" /\ todo = {} /\ active' = b
      /\ data' = Upd(data, b, EmptyFile) /\ files' = files \cup {b}
      /\ UNCHANGED <<hint, keydir, mnew, written, pc>>
  BY DEF OpenFinish, NewActive, ctx, calls
<1>2. CoreInv'
  BY OpenCore DEF DownInv
<1>3. /\ b \notin DOMAIN data /\ DOMAIN data = files /\ DOMAIN hint \subseteq DOMAIN data
      /\ written = 0 /\ DOMAIN mnew = {} /\ \A t \in Threads : pc[t] = "idle"
  <2>1. b \notin files
    BY <1>1 DEF FreshInv
  <2>2. QED
    BY <2>1 DEF DownInv, StoppedCore, FreshInv
<1>4. EntriesInv'
  BY <1>1, <1>3, CreateEntries DEF DownInv
<1>5. data'[active'].size = written'
  BY <1>1, <1>3, UpdNew, EmptyHolds
<1> HIDE DEF b
<1>6. ASSUME NEW k \in DOMAIN keydir
      PROVE  Stored(data', hint', files', k, keydir[k])
  <2>1. Found(k, keydir[k])
    BY <1>1, <1>6 DEF DownInv, ScanInv
  <2>2. \A g, p : ReadPast(g, p)
    BY <1>1 DEF ReadPast
  <2>3. Stored(data, hint, files, k, keydir[k])
    BY <2>1, <2>2 DEF Found, Stored, TombsBefore
  <2>4. QED
    BY <1>1, <1>3, <2>3, CreateStored
<1>7. StoredInv'
  BY <1>1, <1>3, <1>6 DEF StoredInv
<1>8. QED
  BY <1>2, <1>4, <1>5, <1>7 DEF OpenInv

-----------------------------------------------------------------------------
(* The theorems *)

\* Every step of a directory's life keeps the invariant.
LEMMA SurviveStep ==
  ASSUME SurviveInv, FreshInv, FreshInv', [RecoveryNext]_allvars
  PROVE  SurviveInv'
<1>1. CASE Running
  <2>1. phase = "open" /\ phase' = "open"
    BY <1>1 DEF Running, rvars
  <2>2. QED
    BY <1>1, <2>1, RunningStored DEF SurviveInv
<1>2. CASE Crash \/ CrashInOpen \/ DropWriter
  BY <1>2, StopKept DEF SurviveInv
<1>3. CASE OpenBegin \/ ScanHint \/ ScanData \/ ScanNext
  <2>1. phase # "open" /\ phase' # "open"
    BY <1>3 DEF OpenBegin, ScanHint, ScanData, ScanNext, ScanKeeps
  <2>2. QED
    BY <1>3, <2>1, BeginKept, HintKept, DataKept, NextKept DEF SurviveInv
<1>4. CASE OpenFinish
  <2>1. phase # "open" /\ phase' = "open"
    BY <1>4 DEF OpenFinish
  <2>2. QED
    BY <1>4, <2>1, OpenStored DEF SurviveInv
<1>5. CASE UNCHANGED allvars
  <2>1. UNCHANGED vars /\ UNCHANGED rvars
    BY <1>5 DEF allvars
  <2>2. CASE phase = "open"
    <3>1. CoreInv'
      BY <2>1, <2>2, NextCore DEF SurviveInv, OpenInv
    <3>2. QED
      BY <2>1, <2>2, <3>1, StoredQuiet
         DEF SurviveInv, vars, rvars, disk, ctx, writer, calls, merge
  <2>3. CASE phase # "open"
    <3>1. StoppedCore'
      BY <2>1, <2>3 DEF SurviveInv, DownInv, StoppedCore, TypeOK, LogInv, CoreKeydir,
                        vars, rvars, disk, ctx, writer, rds, calls, merge, bounds
    <3>2. EntriesInv' /\ (\A k \in must' : Kept(k)') /\ (phase' = "rebuild" => ScanInv')
      BY <2>1, <2>3 DEF SurviveInv, DownInv, EntriesInv, Kept, KeptByHint, KeptByEntry, ScanInv,
                        Found, ReadPast, Current, vars, rvars, disk, ctx
    <3>3. QED
      BY <2>1, <2>3, <3>1, <3>2 DEF SurviveInv, DownInv, vars, rvars, ctx
  <2>4. QED
    BY <2>2, <2>3
<1>6. QED
  BY <1>1, <1>2, <1>3, <1>4, <1>5 DEF RecoveryNext

\* The invariant holds through all stops, merges and reopenings.
LEMMA SurviveInvariant == RecoverySpec => []SurviveInv
<1>1. ASSUME RecoveryInit
      PROVE  SurviveInv
  <2>1. Init /\ phase = "open"
    BY <1>1 DEF RecoveryInit
  <2>2. CoreInv
    BY <2>1, InitInv, InvParts
  <2>3. /\ data = [f \in {0} |-> EmptyFile] /\ active = 0 /\ written = 0
        /\ DOMAIN keydir = {} /\ DOMAIN mnew = {} /\ DOMAIN hint = {}
        /\ \A t \in Threads : pc[t] = "idle"
    BY <2>1 DEF Init, EmptyMap
  <2>4. EntriesInv /\ StoredInv /\ data[active].size = written
    BY <2>3, EmptyHolds DEF EntriesInv, StoredInv
  <2>5. QED
    BY <2>1, <2>2, <2>4 DEF SurviveInv, OpenInv
<1>2. RecoveryInv => FreshInv
  BY DEF RecoveryInv
<1>3. SurviveInv /\ FreshInv /\ FreshInv' /\ [RecoveryNext]_allvars => SurviveInv'
  BY SurviveStep
<1>4. QED
  BY <1>1, <1>2, <1>3, RecoveryInvariant, PTL DEF RecoverySpec

\* No key is lost: wherever the process is killed, in the middle of a merge or
\* of a rebuilding included, or if it stops cleanly, each key that was in the
\* KeyDir, unless its tombstone had just been appended, is in the KeyDir that
\* rebuild_storage makes, also where it is read from the hint files of the
\* directory's first merge.
THEOREM NoKeyLost == RecoverySpec => []LiveKeysSurvive
<1>1. ASSUME SurviveInv, Rebuilt, NEW k \in must
      PROVE  k \in DOMAIN keydir
  <2>1. phase = "rebuild" /\ todo = {} /\ Kept(k)
    BY <1>1 DEF SurviveInv, DownInv, Rebuilt
  <2>2. \A f, p : ReadPast(f, p)
    BY <2>1 DEF ReadPast
  <2>3. QED
    BY <2>1, <2>2 DEF Kept, KeptByHint, KeptByEntry
<1>2. SurviveInv => LiveKeysSurvive
  BY <1>1 DEF LiveKeysSurvive
<1>3. QED
  BY <1>2, SurviveInvariant, PTL

-----------------------------------------------------------------------------
(* Statistics *)

\* What LogIterator has read of data file f.
ReadOf(f) == {rec \in data[f].recs : ReadPast(f, rec.pos)}

\* While data files are read, each entry passed is counted once.
ReadTotal ==
  /\ \A f \in files : ReadOf(f) # {} => f \in DOMAIN stats
  /\ \A f \in DOMAIN stats :
       /\ ReadOf(f) # {}
       /\ stats[f].live + stats[f].dead = Cardinality(ReadOf(f))

\* A directory without hint files.
UnmergedCount ==
  IF phase = "open" THEN TotalInv
  ELSE /\ \A f \in files : IsFiniteSet(data[f].recs)
       /\ phase = "down" => DOMAIN stats = {}
       /\ phase = "rebuild" => ReadTotal

\* The counts of live keys are right all along; those of dead entries as long
\* as no merge has written hints, since a hint file lists no dead entry.
CountedInv ==
  /\ LiveCount
  /\ nmerges = 0 => UnmergedCount
  /\ must \subseteq may /\ may \subseteq Keys
  /\ unsynced \subseteq Entries \cup {NoEnt}
  /\ phase \in {"open", "down", "rebuild"}
  /\ phase # "rebuild" => todo = {}
  /\ at \in Nat

\* A turn of either loop counts the entry it reads in its file, and moves the
\* one it supersedes from the live to the dead.
LEMMA ScanCounts ==
  ASSUME StoppedCore, LiveCount, NEW f \in files, NEW k, NEW n \in Nat, NEW e \in Entries,
         e.fileid = f, UNCHANGED <<mnew, mtodo, mfiles, pc, req, ent>>,
         \/ Unindex(k, Upd(stats, f, AddDead(StatsOf(stats, f), n)))
         \/ Indexed(k, e, Upd(stats, f, AddLive(StatsOf(stats, f))))
  PROVE  /\ LiveCount' /\ DOMAIN stats' = DOMAIN stats \cup {f}
         /\ \A g \in DOMAIN stats' :
              stats'[g].live + stats'[g].dead =
                StatsOf(stats, g).live + StatsOf(stats, g).dead + (IF g = f THEN 1 ELSE 0)
<1> DEFINE keep == Indexed(k, e, Upd(stats, f, AddLive(StatsOf(stats, f))))
           isIn(g) == IF k \in KeysIn(g) THEN 1 ELSE 0
           more(g) == IF keep /\ g = f THEN 1 ELSE 0
           st == IF keep THEN Upd(stats, f, AddLive(StatsOf(stats, f)))
                 ELSE Upd(stats, f, AddDead(StatsOf(stats, f), n))
<1>1. /\ mfiles = {} /\ mtodo = {} /\ DOMAIN mnew = {} /\ \A t \in Threads : pc[t] # "index"
      /\ stats \in [DOMAIN stats -> LogStats] /\ keydir \in [DOMAIN keydir -> Entries]
  BY DEF StoppedCore, TypeOK
<1>2. /\ keydir' = IF keep THEN Upd(keydir, k, e) ELSE Without(keydir, k)
      /\ stats' = IF k \in DOMAIN keydir THEN SupersedeIn(st, keydir[k]) ELSE st
  BY DEF Indexed, Unindex
<1>3. /\ keep \in BOOLEAN
      /\ \A g : isIn(g) \in {0, 1} /\ more(g) \in {0, 1} /\ (g # f => more(g) = 0)
  BY DEF Indexed
<1>4. /\ DOMAIN st = DOMAIN stats \cup {f}
      /\ \A g \in DOMAIN st :
           /\ st[g].live = StatsOf(stats, g).live + more(g)
           /\ st[g].dead = StatsOf(stats, g).dead + (IF g = f THEN 1 - more(g) ELSE 0)
           /\ st[g] \in LogStats /\ StatsOf(stats, g) \in LogStats
           /\ StatsOf(stats, g).live \in Int /\ StatsOf(stats, g).dead \in Nat
  <2>1. DOMAIN st = DOMAIN stats \cup {f}
    BY UpdDomain
  <2>2. ASSUME NEW g \in DOMAIN st
        PROVE  /\ StatsOf(stats, g) \in LogStats
               /\ StatsOf(stats, g).live \in Int /\ StatsOf(stats, g).dead \in Nat
    <3>1. StatsOf(stats, g) \in LogStats
      BY <1>1, StatsOfType
    <3>2. QED
      BY <3>1 DEF LogStats
  <2>3. ASSUME NEW g \in DOMAIN st, g # f
        PROVE  st[g] = StatsOf(stats, g)
    BY <2>1, <2>3 DEF Upd, StatsOf
  <2>4. st[f] = IF keep THEN AddLive(StatsOf(stats, f)) ELSE AddDead(StatsOf(stats, f), n)
    BY UpdNew
  <2> HIDE DEF st
  <2>5. ASSUME NEW g \in DOMAIN st
        PROVE  /\ st[g].live = StatsOf(stats, g).live + more(g)
               /\ st[g].dead = StatsOf(stats, g).dead + (IF g = f THEN 1 - more(g) ELSE 0)
               /\ st[g] \in LogStats
    <3>1. CASE g = f
      <4>1. /\ AddLive(StatsOf(stats, f)).live = StatsOf(stats, f).live + 1
            /\ AddLive(StatsOf(stats, f)).dead = StatsOf(stats, f).dead
            /\ AddDead(StatsOf(stats, f), n).live = StatsOf(stats, f).live
            /\ AddDead(StatsOf(stats, f), n).dead = StatsOf(stats, f).dead + 1
            /\ AddLive(StatsOf(stats, f)) \in LogStats /\ AddDead(StatsOf(stats, f), n) \in LogStats
        BY <2>2, <3>1, CountType DEF AddLive, AddDead, LogStats
      <4> HIDE DEF keep
      <4>2. QED
        BY <2>2, <2>4, <3>1, <4>1
    <3>2. CASE g # f
      BY <1>3, <2>2, <2>3, <3>2
    <3>3. QED
      BY <3>1, <3>2
  <2>6. QED
    BY <2>1, <2>2, <2>5
<1> HIDE DEF st, keep
<1>5. k \in DOMAIN keydir => keydir[k].fileid \in DOMAIN st /\ keydir[k].len \in Nat
  BY <1>1, <1>4 DEF LiveCount, CoveredInv, Entries
<1>6. DOMAIN stats' = DOMAIN stats \cup {f}
  BY <1>2, <1>4, <1>5 DEF SupersedeIn, Upd
<1>7. ASSUME NEW g \in DOMAIN stats'
      PROVE  /\ stats'[g].live = st[g].live - isIn(g)
             /\ stats'[g].dead = st[g].dead + isIn(g)
  <2>1. st[g] \in LogStats /\ g \in DOMAIN st
    BY <1>4, <1>6
  <2>2. st[g].live \in Int /\ st[g].dead \in Nat
    BY <2>1 DEF LogStats
  <2>3. CASE k \in KeysIn(g)
    <3>1. stats' = Upd(st, g, Overwrite(st[g], keydir[k].len))
      BY <1>2, <2>1, <2>3 DEF SupersedeIn, KeysIn, StatsOf
    <3>2. stats'[g] = Overwrite(st[g], keydir[k].len)
      BY <3>1 DEF Upd
    <3>3. QED
      BY <2>2, <2>3, <3>2 DEF Overwrite
  <2>4. CASE k \notin KeysIn(g)
    <3>1. stats'[g] = st[g]
      BY <1>2, <2>1, <2>4 DEF SupersedeIn, KeysIn, Upd
    <3>2. QED
      BY <2>2, <2>4, <3>1
  <2>5. QED
    BY <2>3, <2>4
<1>8. ASSUME NEW g
      PROVE  /\ Cardinality(KeysIn(g)') = Cardinality(KeysIn(g)) - isIn(g) + more(g)
             /\ Cardinality(KeysIn(g)) \in Nat /\ Cardinality(KeysIn(g)') \in Nat
  <2>1. IsFiniteSet(KeysIn(g)) /\ Cardinality(KeysIn(g)) \in Nat
    BY CountTypes DEF LiveCount
  <2>2. KeysIn(g)' = IF more(g) = 1 THEN KeysIn(g) \cup {k} ELSE KeysIn(g) \ {k}
    BY <1>2 DEF KeysIn, Upd, Without
  <2>3. Cardinality(KeysIn(g) \cup {k}) =
          IF k \in KeysIn(g) THEN Cardinality(KeysIn(g)) ELSE Cardinality(KeysIn(g)) + 1
    BY <2>1, FS_AddElement, Zenon
  <2>4. Cardinality(KeysIn(g) \ {k}) =
          IF k \in KeysIn(g) THEN Cardinality(KeysIn(g)) - 1 ELSE Cardinality(KeysIn(g))
    BY <2>1, FS_RemoveElement, Zenon
  <2>5. IsFiniteSet(KeysIn(g) \cup {k}) /\ IsFiniteSet(KeysIn(g) \ {k})
    BY <2>1, FS_AddElement, FS_RemoveElement
  <2>6. Cardinality(KeysIn(g)') \in Nat
    BY <2>2, <2>5, FS_CardinalityType
  <2>7. Cardinality(KeysIn(g) \cup {k}) = Cardinality(KeysIn(g)) - isIn(g) + 1
    BY <2>1, <2>3
  <2>8. Cardinality(KeysIn(g) \ {k}) = Cardinality(KeysIn(g)) - isIn(g)
    BY <2>1, <2>4
  <2>9. more(g) \in {0, 1} /\ isIn(g) \in {0, 1}
    BY <1>3
  <2> HIDE DEF more, isIn
  <2>10. QED
    BY <2>1, <2>2, <2>6, <2>7, <2>8, <2>9
<1>9. ASSUME NEW g
      PROVE  StatsOf(stats, g).live = Cardinality(KeysIn(g))
  <2>1. HandIn(g) = 0 /\ NewIn(g) = {} /\ Cardinality({}) = 0
    BY <1>1, FS_EmptySet DEF HandIn, NewIn
  <2>2. CASE g \in DOMAIN stats
    <3>1. stats[g].live = Cardinality(KeysIn(g)) + HandIn(g) + Cardinality(NewIn(g))
      BY <1>1, <2>2 DEF LiveCount, LiveInv
    <3>2. StatsOf(stats, g) = stats[g] /\ Cardinality(KeysIn(g)) \in Nat
      BY <1>8, <2>2 DEF StatsOf
    <3>3. QED
      BY <2>1, <3>1, <3>2
  <2>3. CASE g \notin DOMAIN stats
    <3>1. KeysIn(g) = {}
      BY <1>1, <2>3 DEF KeysIn, LiveCount, CoveredInv
    <3>2. QED
      BY <2>1, <2>3, <3>1 DEF StatsOf, NoStats
  <2>4. QED
    BY <2>2, <2>3
<1>10. ASSUME NEW g \in DOMAIN stats'
       PROVE  /\ stats'[g].live = Cardinality(KeysIn(g)')
              /\ stats'[g].live + stats'[g].dead =
                   StatsOf(stats, g).live + StatsOf(stats, g).dead + (IF g = f THEN 1 ELSE 0)
  <2>1. /\ st[g].live = StatsOf(stats, g).live + more(g)
        /\ st[g].dead = StatsOf(stats, g).dead + (IF g = f THEN 1 - more(g) ELSE 0)
        /\ StatsOf(stats, g).live \in Int /\ StatsOf(stats, g).dead \in Nat
    BY <1>4, <1>6
  <2>2. /\ stats'[g].live = st[g].live - isIn(g)
        /\ stats'[g].dead = st[g].dead + isIn(g)
    BY <1>7
  <2>3. /\ isIn(g) \in {0, 1} /\ more(g) \in {0, 1} /\ (g # f => more(g) = 0)
    BY <1>3
  <2>4. /\ Cardinality(KeysIn(g)') = Cardinality(KeysIn(g)) - isIn(g) + more(g)
        /\ Cardinality(KeysIn(g)) \in Nat
        /\ StatsOf(stats, g).live = Cardinality(KeysIn(g))
    BY <1>8, <1>9
  <2> HIDE DEF isIn, more
  <2>5. QED
    BY <2>1, <2>2, <2>3, <2>4
<1>11. LiveInv'
  <2>1. ASSUME NEW g
        PROVE  HandIn(g)' = 0 /\ NewIn(g)' = {} /\ Cardinality({}) = 0
    BY <1>1, FS_EmptySet DEF HandIn, NewIn
  <2>2. ASSUME NEW g \in DOMAIN stats'
        PROVE  /\ stats'[g].live >= 0
               /\ stats'[g].live = Cardinality(KeysIn(g)') + HandIn(g)' + Cardinality(NewIn(g)')
    <3>1. stats'[g].live = Cardinality(KeysIn(g)') /\ Cardinality(KeysIn(g)') \in Nat
      BY <1>8, <1>10
    <3>2. QED
      BY <2>1, <3>1
  <2>3. QED
    BY <2>2 DEF LiveInv
<1>12. FiniteInv' /\ CoveredInv' /\ MovingInv'
  <2>1. DOMAIN keydir' \in {DOMAIN keydir \cup {k}, DOMAIN keydir \ {k}}
    BY <1>2 DEF Upd, Without
  <2>2. FiniteInv'
    BY <2>1, FS_AddElement, FS_RemoveElement DEF LiveCount, FiniteInv
  <2>3. \A j \in DOMAIN keydir' : \/ j \in DOMAIN keydir /\ keydir'[j] = keydir[j]
                                  \/ keydir'[j] = e
    BY <1>2 DEF Upd, Without
  <2>4. CoveredInv'
    BY <1>1, <1>6, <2>3 DEF LiveCount, CoveredInv
  <2>5. QED
    BY <1>1, <2>2, <2>4 DEF MovingInv
<1>13. QED
  BY <1>6, <1>10, <1>11, <1>12 DEF LiveCount

\* A stop leaves nothing to count.
LEMMA StopCounted ==
  ASSUME SurviveInv, FreshInv, CountedInv, Crash \/ CrashInOpen \/ DropWriter
  PROVE  CountedInv'
<1>0. /\ TypeOK /\ LogInv /\ files \subseteq DOMAIN data
      /\ mpc = "merge" => mid \in DOMAIN data
  <2>1. CASE phase = "open"
    BY <2>1 DEF SurviveInv, OpenInv, CoreInv, CoreMerge, TypeOK
  <2>2. CASE phase # "open"
    BY <2>2 DEF SurviveInv, DownInv, StoppedCore, TypeOK
  <2>3. QED
    BY <2>1, <2>2
<1>1. /\ MemoryLost /\ phase' = "down" /\ UNCHANGED nmerges
      /\ files' \subseteq files
      /\ \A f \in files' : Remains(f, data'[f])
  BY <1>0, StopLeaves
<1>2. /\ DOMAIN keydir' = {} /\ DOMAIN mnew' = {} /\ DOMAIN stats' = {} /\ mtodo' = {}
      /\ todo' = {} /\ at' = 0 /\ \A t \in Threads : pc'[t] = "idle"
  BY <1>1 DEF MemoryLost, EmptyMap
<1>3. LiveCount'
  BY <1>2, FS_EmptySet DEF LiveCount, FiniteInv, CoveredInv, LiveInv, MovingInv
<1>4. nmerges' = 0 => \A f \in files' : IsFiniteSet(data'[f].recs)
  <2> SUFFICES ASSUME nmerges = 0, NEW f \in files'
               PROVE  IsFiniteSet(data'[f].recs)
    BY <1>1
  <2>1. IsFiniteSet(data[f].recs)
    BY <1>0, <1>1 DEF CountedInv, UnmergedCount, TotalInv
  <2>2. data'[f].recs \subseteq data[f].recs
    BY <1>0, <1>1, RemainsType
  <2>3. QED
    BY <2>1, <2>2, FS_Subset
<1>5. must' \subseteq may' /\ may' \subseteq Keys
  <2>1. CASE Crash
    <3>1. \A t \in Threads : req[t].op = "set" => req[t].key \in Keys
      BY <1>0 DEF TypeOK, Requests, NoReq
    <3>2. Unindexed("set") \subseteq Keys /\ DOMAIN keydir \subseteq Keys
      BY <1>0, <3>1 DEF Unindexed, TypeOK
    <3>3. QED
      BY <2>1, <3>2 DEF Crash
  <2>2. CASE CrashInOpen
    BY <2>2 DEF CrashInOpen, CountedInv
  <2>3. CASE DropWriter
    BY <1>0, <2>3 DEF DropWriter, TypeOK
  <2>4. QED
    BY <2>1, <2>2, <2>3
<1>6. unsynced' \subseteq Entries \cup {NoEnt}
  <2>1. unsynced' = unsynced \/ \E t \in Threads : unsynced' = unsynced \cup {ent[t]}
    BY DEF Crash, CrashInOpen, DropWriter, KilledInWrite
  <2>2. QED
    BY <1>0, <2>1 DEF TypeOK, CountedInv
<1>7. QED
  BY <1>1, <1>2, <1>3, <1>4, <1>5, <1>6 DEF CountedInv, UnmergedCount

\* Before the first file is read nothing is counted.
LEMMA BeginCounted ==
  ASSUME DownInv, CountedInv, OpenBegin
  PROVE  CountedInv'
<1>1. /\ phase = "down" /\ phase' = "rebuild" /\ todo' = files /\ at = 0 /\ at' = 0
      /\ UNCHANGED <<must, may, unsynced, nmerges>>
      /\ UNCHANGED <<data, files, keydir, stats, mnew, mtodo, mfiles, pc, req, ent>>
  BY DEF OpenBegin, DownInv, vars, disk, ctx, writer, calls, merge, bounds
<1>2. LiveCount'
  BY <1>1, QuietCounts DEF CountedInv
<1>3. ASSUME nmerges = 0, NEW f \in files
      PROVE  ReadOf(f)' = {}
  <2>1. \A rec \in data[f].recs : rec.pos \in Nat
    BY <1>3 DEF DownInv, StoppedCore, TypeOK, DataFiles, Records
  <2>2. QED
    BY <1>1, <2>1 DEF ReadOf, ReadPast
<1>4. nmerges = 0 => ReadTotal'
  BY <1>1, <1>3 DEF ReadTotal, CountedInv, UnmergedCount
<1>5. QED
  BY <1>1, <1>2, <1>4 DEF CountedInv, UnmergedCount

\* Entry rec of file f is read and indexed.
ReadsEntry(f, rec) ==
  /\ IF rec.val = NoValue
     THEN Unindex(rec.key, Upd(stats, f, AddDead(StatsOf(stats, f), rec.len)))
     ELSE Indexed(rec.key, [fileid |-> f, pos |-> rec.pos, len |-> rec.len],
                  Upd(stats, f, AddLive(StatsOf(stats, f))))
  /\ ReadOf(f)' = ReadOf(f) \cup {rec} /\ rec \notin ReadOf(f)
  /\ \A g \in files \ {f} : ReadOf(g)' = ReadOf(g)

\* A turn of the loop of populate_keydir_with_datafile reads one entry more.
LEMMA ScanReads ==
  ASSUME DownInv, FreshInv, ScanData
  PROVE  \E f \in files : \E rec \in data[f].recs : ReadsEntry(f, rec)
<1>1. phase = "rebuild" /\ UNCHANGED <<data, files>>
  BY DEF ScanData, ScanKeeps, disk
<1> DEFINE Met(f, rec) ==
             /\ rec.pos = at /\ Current(f) /\ at' = at + rec.len
             /\ IF rec.val = NoValue
                THEN Unindex(rec.key, Upd(stats, f, AddDead(StatsOf(stats, f), rec.len)))
                ELSE Indexed(rec.key, [fileid |-> f, pos |-> rec.pos, len |-> rec.len],
                             Upd(stats, f, AddLive(StatsOf(stats, f))))
<1>a. PICK f \in todo : \E rec \in data[f].recs : Met(f, rec)
  BY DEF ScanData, NextEntry
<1>2. PICK rec \in data[f].recs : Met(f, rec)
  BY <1>a
<1>3. f \in files /\ f \in Nat
  BY <1>1, <1>2, ScanOrder
<1>4. \A g \in files : \A r \in data[g].recs :
        ReadPast(g, r.pos)' <=> ReadPast(g, r.pos) \/ (g = f /\ r = rec)
  BY <1>2, ReadOne
<1>5. ~ReadPast(f, rec.pos)
  BY <1>2 DEF ReadPast, DownInv, StoppedCore
<1>6. /\ ReadOf(f)' = ReadOf(f) \cup {rec} /\ rec \notin ReadOf(f)
      /\ \A g \in files \ {f} : ReadOf(g)' = ReadOf(g)
  BY <1>1, <1>2, <1>3, <1>4, <1>5 DEF ReadOf
<1>7. QED
  BY <1>2, <1>3, <1>6 DEF ReadsEntry

\* Reading an entry counts it; reading a hint counts a live one.
LEMMA ScanCounted ==
  ASSUME DownInv, RecoveryInv, CountedInv, ScanHint \/ ScanData
  PROVE  CountedInv'
<1>1. /\ phase = "rebuild" /\ phase' = phase /\ FreshInv /\ StoppedCore
      /\ UNCHANGED <<data, files, hint, todo, must, may, unsynced, nmerges>>
      /\ UNCHANGED <<mnew, mtodo, mfiles, pc, req, ent>>
  BY DEF ScanHint, ScanData, ScanKeeps, disk, calls, merge, bounds, RecoveryInv, DownInv
<1>2. LiveCount' /\ at' \in Nat
  <2>1. PICK f \in files, k \in Keys, n \in Nat \ {0}, e \in Entries :
          /\ e.fileid = f /\ at' \in Nat
          /\ \/ Unindex(k, Upd(stats, f, AddDead(StatsOf(stats, f), n)))
             \/ Indexed(k, e, Upd(stats, f, AddLive(StatsOf(stats, f))))
    BY <1>1, ScanForm
  <2>2. LiveCount
    BY DEF CountedInv
  <2>3. QED
    BY <1>1, <2>1, <2>2, ScanCounts
<1>3. ASSUME nmerges = 0
      PROVE  ReadTotal'
  <2>1. ScanData /\ ReadTotal /\ LiveCount
    BY <1>1, <1>3 DEF ScanHint, RecoveryInv, UnmergedInv, CountedInv, UnmergedCount
  <2>2. PICK f \in files : \E rec \in data[f].recs : ReadsEntry(f, rec)
    BY <1>1, <2>1, ScanReads
  <2>3. PICK rec \in data[f].recs : ReadsEntry(f, rec)
    BY <2>2
  <2>4. f \in Nat /\ f \in DOMAIN data
    BY <1>1 DEF StoppedCore, TypeOK
  <2> DEFINE e == [fileid |-> f, pos |-> rec.pos, len |-> rec.len]
  <2>5. rec \in Records
    BY <2>4 DEF DownInv, StoppedCore, TypeOK, DataFiles
  <2>6. rec.len \in Nat /\ e \in Entries /\ e.fileid = f
    BY <2>4, <2>5 DEF Records, Entries
  <2>7. \/ Unindex(rec.key, Upd(stats, f, AddDead(StatsOf(stats, f), rec.len)))
        \/ Indexed(rec.key, e, Upd(stats, f, AddLive(StatsOf(stats, f))))
    BY <2>3 DEF ReadsEntry
  <2> HIDE DEF e
  <2>8. /\ DOMAIN stats' = DOMAIN stats \cup {f}
        /\ \A g \in DOMAIN stats' :
             stats'[g].live + stats'[g].dead =
               StatsOf(stats, g).live + StatsOf(stats, g).dead + (IF g = f THEN 1 ELSE 0)
    BY <1>1, <2>1, <2>4, <2>6, <2>7, ScanCounts
  <2>9. ASSUME NEW g \in files
         PROVE  /\ IsFiniteSet(ReadOf(g)) /\ Cardinality(ReadOf(g)) \in Nat
                /\ g \in DOMAIN stats <=> ReadOf(g) # {}
                /\ StatsOf(stats, g).live + StatsOf(stats, g).dead = Cardinality(ReadOf(g))
    <3>1. IsFiniteSet(data[g].recs) /\ ReadOf(g) \subseteq data[g].recs
      BY <1>1, <1>3 DEF CountedInv, UnmergedCount, ReadOf
    <3>2. IsFiniteSet(ReadOf(g)) /\ Cardinality(ReadOf(g)) \in Nat
      BY <3>1, FS_Subset, FS_CardinalityType
    <3>3. CASE g \in DOMAIN stats
      BY <2>1, <3>2, <3>3 DEF ReadTotal, StatsOf
    <3>4. CASE g \notin DOMAIN stats
      BY <2>1, <3>2, <3>4, FS_EmptySet DEF ReadTotal, StatsOf, NoStats
    <3>5. QED
      BY <3>2, <3>3, <3>4
  <2>10. /\ Cardinality(ReadOf(f)') = Cardinality(ReadOf(f)) + 1 /\ ReadOf(f)' # {}
    BY <2>3, <2>9, FS_AddElement DEF ReadsEntry
  <2>11. DOMAIN stats \subseteq files
    BY <1>1 DEF StoppedCore
  <2>12. ASSUME NEW g \in DOMAIN stats'
         PROVE  /\ ReadOf(g)' # {}
                /\ stats'[g].live + stats'[g].dead = Cardinality(ReadOf(g)')
    <3>1. g \in files
      BY <2>4, <2>8, <2>11
    <3>2. CASE g = f
      BY <2>4, <2>8, <2>9, <2>10, <3>2
    <3>3. CASE g # f
      BY <2>3, <2>8, <2>9, <3>1, <3>3 DEF ReadsEntry
    <3>4. QED
      BY <3>2, <3>3
  <2>13. \A g \in files' : ReadOf(g)' # {} => g \in DOMAIN stats'
    BY <1>1, <2>3, <2>8, <2>9 DEF ReadsEntry
  <2>14. QED
    BY <2>12, <2>13 DEF ReadTotal
<1>4. QED
  BY <1>1, <1>2, <1>3 DEF CountedInv, UnmergedCount

\* Turning to the next file reads no entry.
LEMMA NextReads ==
  ASSUME DownInv, RecoveryInv, ScanNext, nmerges = 0, NEW g \in files
  PROVE  ReadOf(g)' = ReadOf(g)
<1>1. /\ phase = "rebuild" /\ phase' = phase /\ at' = 0 /\ FreshInv /\ UNCHANGED <<data, files>>
  BY DEF ScanNext, RecoveryInv, vars, disk
<1>2. PICK f \in todo : Current(f) /\ AtEnd(f) /\ todo' = todo \ {f}
  BY DEF ScanNext
<1>3. DOMAIN hint = {}
  BY DEF RecoveryInv, UnmergedInv
<1>4. \A h \in todo : Current(h) => h = f
  BY <1>1, <1>2, ScanOrder
<1>5. \A r \in data[g].recs : r.pos \in Nat
  BY DEF DownInv, StoppedCore, TypeOK, DataFiles, Records
<1>6. CASE g = f
  <2>1. \A r \in data[f].recs : ReadPast(f, r.pos)
    BY <1>1, <1>2, <1>3, ReadAll
  <2>2. QED
    BY <1>1, <1>2, <1>6, <2>1 DEF ReadOf, ReadPast
<1>7. CASE g # f
  <2>1. \A r \in data[g].recs : ReadPast(g, r.pos)' <=> ReadPast(g, r.pos)
    BY <1>1, <1>2, <1>4, <1>5, <1>7 DEF ReadPast
  <2>2. QED
    BY <1>1, <2>1 DEF ReadOf
<1>8. QED
  BY <1>6, <1>7

\* Turning to the next file counts nothing.
LEMMA NextCounted ==
  ASSUME DownInv, RecoveryInv, CountedInv, ScanNext
  PROVE  CountedInv'
<1>1. /\ phase = "rebuild" /\ phase' = phase /\ at' = 0 /\ FreshInv
      /\ UNCHANGED <<must, may, unsynced, nmerges, hint>>
      /\ UNCHANGED <<data, files, keydir, stats, mnew, mtodo, mfiles, pc, req, ent>>
  BY DEF ScanNext, RecoveryInv, vars, disk, ctx, writer, calls, merge, bounds
<1>2. LiveCount'
  BY <1>1, QuietCounts DEF CountedInv
<1>3. nmerges = 0 => \A g \in files : ReadOf(g)' = ReadOf(g)
  BY NextReads
<1>4. nmerges = 0 => ReadTotal'
  <2>1. DOMAIN stats \subseteq files
    BY DEF DownInv, StoppedCore
  <2>2. QED
    BY <1>1, <1>3, <2>1 DEF ReadTotal, CountedInv, UnmergedCount
<1>5. QED
  BY <1>1, <1>2, <1>4 DEF CountedInv, UnmergedCount

\* When all files are read every entry is counted.
LEMMA OpenCounted ==
  ASSUME DownInv, FreshInv, CountedInv, OpenFinish
  PROVE  CountedInv'
<1> DEFINE b == latest + 1
<1>1. /\ phase = "rebuild" /\ phase' = "open" /\ todo = {} /\ mfiles = {}
      /\ data' = Upd(data, b, EmptyFile) /\ files' = files \cup {b}
      /\ UNCHANGED <<todo, at, must, may, unsynced, nmerges>>
      /\ UNCHANGED <<keydir, stats, mnew, mtodo, mfiles, pc, req, ent>>
  BY DEF OpenFinish, NewActive, ctx, calls, bounds, DownInv, StoppedCore
<1>2. LiveCount'
  <2>1. \A f : KeysIn(f)' = KeysIn(f) /\ NewIn(f)' = NewIn(f) /\ HandIn(f)' = HandIn(f)
    BY <1>1 DEF KeysIn, NewIn, HandIn
  <2>2. QED
    BY <1>1, <2>1 DEF CountedInv, LiveCount, FiniteInv, CoveredInv, LiveInv, MovingInv
<1>3. /\ b \notin files /\ DOMAIN data = files /\ DOMAIN stats \subseteq files
  BY <1>1 DEF FreshInv, DownInv, StoppedCore
<1> HIDE DEF b
<1>4. /\ DOMAIN data' = files' /\ data'[b].recs = {}
      /\ \A f \in files : data'[f] = data[f]
  BY <1>1, <1>3 DEF Upd, EmptyFile
<1>5. \A f : ReadOf(f) = data[f].recs
  BY <1>1 DEF ReadOf, ReadPast
<1>6. nmerges = 0 => TotalInv'
  BY <1>1, <1>3, <1>4, <1>5, FS_EmptySet DEF TotalInv, ReadTotal, CountedInv, UnmergedCount
<1>7. QED
  BY <1>1, <1>2, <1>6 DEF CountedInv, UnmergedCount

\* Every step keeps the counts.
LEMMA CountedStep ==
  ASSUME SurviveInv, RecoveryInv, CountedInv, [RecoveryNext]_allvars
  PROVE  CountedInv'
<1>1. CASE Running
  <2>1. /\ phase = "open" /\ phase' = "open" /\ UNCHANGED <<todo, at, must, may, unsynced>>
        /\ CoreInv /\ LiveCount /\ [Next]_vars
    BY <1>1 DEF Running, rvars, SurviveInv, OpenInv, CountedInv
  <2>2. LiveCount' /\ (TotalInv => TotalInv')
    BY <2>1, NextCounts
  <2>3. nmerges' = 0 => nmerges = 0
    BY <1>1, RunningUnmerged
  <2>4. QED
    BY <2>1, <2>2, <2>3 DEF CountedInv, UnmergedCount
<1>2. CASE Crash \/ CrashInOpen \/ DropWriter
  BY <1>2, StopCounted DEF RecoveryInv
<1>3. CASE OpenBegin \/ ScanHint \/ ScanData \/ ScanNext \/ OpenFinish
  <2>1. DownInv /\ FreshInv
    BY <1>3 DEF OpenBegin, ScanHint, ScanData, ScanNext, OpenFinish, SurviveInv, RecoveryInv
  <2>2. QED
    BY <1>3, <2>1, BeginCounted, ScanCounted, NextCounted, OpenCounted
<1>4. CASE UNCHANGED allvars
  <2>1. /\ UNCHANGED <<phase, todo, at, must, may, unsynced, nmerges>>
        /\ UNCHANGED <<data, files, keydir, stats, mnew, mtodo, mfiles, pc, req, ent>>
    BY <1>4 DEF allvars, vars, rvars, disk, ctx, writer, calls, merge, bounds
  <2>2. LiveCount' /\ (TotalInv => TotalInv')
    BY <2>1, QuietCounts DEF CountedInv
  <2>3. ReadTotal => ReadTotal'
    BY <2>1 DEF ReadTotal, ReadOf, ReadPast, Current
  <2>4. QED
    BY <2>1, <2>2, <2>3 DEF CountedInv, UnmergedCount
<1>5. QED
  BY <1>1, <1>2, <1>3, <1>4 DEF RecoveryNext

\* The counts are right through all stops, merges and reopenings.
LEMMA CountedInvariant == RecoverySpec => []CountedInv
<1>1. ASSUME RecoveryInit
      PROVE  CountedInv
  <2>1. /\ DOMAIN keydir = {} /\ DOMAIN mnew = {} /\ DOMAIN stats = {} /\ mtodo = {}
        /\ DOMAIN data = {0} /\ data[0].recs = {} /\ files = {0}
        /\ phase = "open" /\ todo = {} /\ at = 0 /\ must = {} /\ may = {} /\ unsynced = {}
        /\ \A t \in Threads : pc[t] = "idle"
    BY <1>1 DEF RecoveryInit, Init, EmptyMap, EmptyFile
  <2>2. LiveCount /\ TotalInv
    BY <2>1, FS_EmptySet DEF LiveCount, FiniteInv, CoveredInv, TotalInv, LiveInv, MovingInv
  <2>3. QED
    BY <2>1, <2>2 DEF CountedInv, UnmergedCount
<1>2. SurviveInv /\ RecoveryInv /\ CountedInv /\ [RecoveryNext]_allvars => CountedInv'
  BY CountedStep
<1>3. QED
  BY <1>1, <1>2, SurviveInvariant, RecoveryInvariant, PTL DEF RecoverySpec

\* Type correctness through stops, merges and reopenings.  The count of live
\* keys, which LogStatistics::overwrite lowers without a check, never goes below
\* zero, not even where rebuild_storage and later calls work on a KeyDir read
\* from hint files that point at wrong positions, as long as no second merge
\* copies from those.
THEOREM RecoveryTypeCorrect == RecoverySpec => []RecoveryTypeOK
<1>1. SurviveInv /\ RecoveryInv /\ CountedInv => RecoveryTypeOK
  <2> SUFFICES ASSUME SurviveInv, RecoveryInv, CountedInv
               PROVE  RecoveryTypeOK
    OBVIOUS
  <2>1. TypeOK
    BY DEF SurviveInv, OpenInv, CoreInv, DownInv, StoppedCore
  <2>2. \A f \in DOMAIN stats : stats[f].live >= 0
    BY DEF CountedInv, LiveCount, LiveInv
  <2>3. QED
    BY <2>1, <2>2 DEF RecoveryTypeOK, CountedInv, RecoveryInv, FreshInv
<1>2. QED
  BY <1>1, SurviveInvariant, RecoveryInvariant, CountedInvariant, PTL

\* Up to the first merge the counts that rebuild_storage makes, and that
\* evolve from them, are those of an instance that never stopped.
THEOREM CountsAfterReopen == RecoverySpec => []RebuiltCountsExact
<1>1. SurviveInv /\ CountedInv => RebuiltCountsExact
  BY CountsMeet DEF SurviveInv, OpenInv, CountedInv, UnmergedCount, RebuiltCountsExact
<1>2. QED
  BY <1>1, SurviveInvariant, CountedInvariant, PTL

\* The entries read that no key points at.
UnusedRead(f) == {rec \in ReadOf(f) : \A k \in KeysIn(f) : keydir[k].pos # rec.pos}

\* While data files are read, the keys point at entries read, and the bytes of
\* the others are counted.
ReadPlace ==
  \A k \in DOMAIN keydir : \E rec \in ReadOf(keydir[k].fileid) :
    rec.pos = keydir[k].pos /\ rec.len = keydir[k].len /\ rec.key = k
ReadDead ==
  /\ ReadPlace
  /\ \A f \in DOMAIN stats : stats[f].deadBytes = Cardinality(BytesOf(UnusedRead(f)))

ReadBytesInv ==
  nmerges = 0 => /\ phase = "open" => BytesInv
                 /\ phase = "rebuild" => ReadDead

\* The positions in use after an entry is read: the entry it supersedes is no
\* longer among them, and the entry itself is unless it is a tombstone.
LEMMA ScanUnused ==
  ASSUME DownInv, ReadDead, NEW f \in files, NEW rec \in data[f].recs, ReadsEntry(f, rec),
         NEW g \in files, data' = data
  PROVE  LET more == IF g = f /\ rec.val = NoValue THEN {rec} ELSE {}
         IN  IF rec.key \in KeysIn(g)
             THEN \E old \in data[g].recs :
                    /\ old.len = keydir[rec.key].len /\ old \notin UnusedRead(g) \cup more
                    /\ UnusedRead(g)' = (UnusedRead(g) \cup more) \cup {old}
             ELSE UnusedRead(g)' = UnusedRead(g) \cup more
<1> DEFINE k == rec.key
           more == IF g = f /\ rec.val = NoValue THEN {rec} ELSE {}
<1>1. /\ f \in DOMAIN data /\ g \in DOMAIN data /\ WellFormed(data[f]) /\ WellFormed(data[g])
  BY DEF DownInv, StoppedCore, LogInv
<1>2. /\ ReadOf(g)' = ReadOf(g) \cup (IF g = f THEN {rec} ELSE {})
      /\ rec \notin ReadOf(f) /\ ReadOf(g) \subseteq data[g].recs
  BY DEF ReadsEntry, ReadOf
<1>3. keydir' = IF rec.val = NoValue THEN Without(keydir, k)
                ELSE Upd(keydir, k, [fileid |-> f, pos |-> rec.pos, len |-> rec.len])
  BY DEF ReadsEntry, Indexed, Unindex
<1>4. ASSUME NEW p
      PROVE  (\E j \in KeysIn(g)' : keydir'[j].pos = p) <=>
               \/ \E j \in KeysIn(g) \ {k} : keydir[j].pos = p
               \/ rec.val # NoValue /\ g = f /\ p = rec.pos
  BY <1>3 DEF KeysIn, Upd, Without
<1>5. ASSUME NEW j \in KeysIn(g)
      PROVE  \E r \in ReadOf(g) : r.pos = keydir[j].pos /\ r.len = keydir[j].len /\ r.key = j
  BY DEF KeysIn, ReadDead, ReadPlace
<1>6. \A r \in ReadOf(g) : g = f => r.pos # rec.pos
  BY <1>1, <1>2 DEF WellFormed
<1>7. g = f => \A j \in KeysIn(g) : keydir[j].pos # rec.pos
  BY <1>5, <1>6
<1>8. ASSUME NEW r \in ReadOf(g), k \in KeysIn(g) => keydir[k].pos # r.pos
      PROVE  r \in UnusedRead(g)' <=> r \in UnusedRead(g)
  <2>1. (\E j \in KeysIn(g)' : keydir'[j].pos = r.pos) <=> (\E j \in KeysIn(g) : keydir[j].pos = r.pos)
    BY <1>4, <1>6, <1>8
  <2>2. r \in ReadOf(g)'
    BY <1>2
  <2>3. QED
    BY <2>1, <2>2 DEF UnusedRead
<1>9. g = f => (rec \in UnusedRead(g)' <=> rec.val = NoValue) /\ rec \notin UnusedRead(g)
  <2>1. g = f => ((\E j \in KeysIn(g)' : keydir'[j].pos = rec.pos) <=> rec.val # NoValue)
    BY <1>4, <1>7
  <2>2. QED
    BY <1>2, <2>1 DEF UnusedRead
<1>10. CASE k \in KeysIn(g)
  <2>1. PICK old \in ReadOf(g) : old.pos = keydir[k].pos /\ old.len = keydir[k].len /\ old.key = k
    BY <1>5, <1>10
  <2>2. \A r \in ReadOf(g) : r # old => keydir[k].pos # r.pos
    BY <1>1, <1>2, <2>1 DEF WellFormed
  <2>3. old \in UnusedRead(g)'
    <3>1. \A j \in KeysIn(g) \ {k} : keydir[j].pos # old.pos
      BY <1>1, <1>2, <1>5, <2>1 DEF WellFormed
    <3>2. ~\E j \in KeysIn(g)' : keydir'[j].pos = old.pos
      BY <1>4, <1>6, <3>1
    <3>3. QED
      BY <1>2, <3>2 DEF UnusedRead
  <2>4. old \notin UnusedRead(g) /\ old \notin more /\ old \in data[g].recs
    BY <1>2, <1>10, <2>1 DEF UnusedRead
  <2>5. UnusedRead(g)' = (UnusedRead(g) \cup more) \cup {old}
    <3>1. UnusedRead(g) \subseteq ReadOf(g) /\ UnusedRead(g)' \subseteq ReadOf(g)'
      BY DEF UnusedRead
    <3>2. QED
      BY <1>2, <1>8, <1>9, <2>1, <2>2, <2>3, <3>1
  <2>6. QED
    BY <1>10, <2>1, <2>4, <2>5
<1>11. CASE k \notin KeysIn(g)
  <2>1. UnusedRead(g) \subseteq ReadOf(g) /\ UnusedRead(g)' \subseteq ReadOf(g)'
    BY DEF UnusedRead
  <2>2. UnusedRead(g)' = UnusedRead(g) \cup more
    BY <1>2, <1>8, <1>9, <1>11, <2>1
  <2>3. QED
    BY <1>11, <2>2
<1>12. QED
  BY <1>10, <1>11

\* Reading an entry keeps the bytes: those of a tombstone are counted in its
\* file, and those of the entry superseded in the file of that one.
LEMMA ScanBytes ==
  ASSUME DownInv, RecoveryInv, CountedInv, ReadDead, ScanData, nmerges = 0
  PROVE  ReadDead'
<1>1. /\ phase = "rebuild" /\ FreshInv /\ UNCHANGED <<data, files>>
  BY DEF ScanData, ScanKeeps, disk, RecoveryInv
<1>a. PICK f \in files : \E rec \in data[f].recs : ReadsEntry(f, rec)
  BY <1>1, ScanReads
<1>2. PICK rec \in data[f].recs : ReadsEntry(f, rec)
  BY <1>a
<1> DEFINE k    == rec.key
           n    == rec.len
           tomb == rec.val = NoValue
           st   == IF tomb THEN Upd(stats, f, AddDead(StatsOf(stats, f), n))
                   ELSE Upd(stats, f, AddLive(StatsOf(stats, f)))
           e    == [fileid |-> f, pos |-> rec.pos, len |-> rec.len]
<1>3. /\ DOMAIN data = files /\ DOMAIN stats \subseteq files
      /\ stats \in [DOMAIN stats -> LogStats] /\ keydir \in [DOMAIN keydir -> Entries]
      /\ \A g \in files : /\ data[g] \in DataFiles /\ WellFormed(data[g]) /\ Disjoint(data[g])
                          /\ g \in Nat
      /\ \A j \in DOMAIN keydir : keydir[j].fileid \in files
      /\ mfiles = {}
  BY DEF DownInv, StoppedCore, TypeOK, LogInv, EntriesInv, CoreKeydir
<1>4. /\ keydir' = IF tomb THEN Without(keydir, k) ELSE Upd(keydir, k, e)
      /\ stats' = IF k \in DOMAIN keydir THEN SupersedeIn(st, keydir[k]) ELSE st
  BY <1>2 DEF ReadsEntry, Indexed, Unindex
<1>5. ReadPlace'
  <2> SUFFICES ASSUME NEW j \in DOMAIN keydir', NEW x, x = keydir'[j]
               PROVE  \E r \in ReadOf(x.fileid)' : r.pos = x.pos /\ r.len = x.len /\ r.key = j
    BY DEF ReadPlace, ReadOf, ReadPast, Current
  <2>1. /\ rec \in ReadOf(f)'
        /\ \A g \in files : ReadOf(g) \subseteq ReadOf(g)'
    BY <1>2 DEF ReadsEntry
  <2>2. \/ j \in DOMAIN keydir /\ keydir'[j] = keydir[j]
        \/ j = k /\ keydir'[j] = e
    BY <1>4 DEF Upd, Without
  <2>3. CASE j \in DOMAIN keydir /\ keydir'[j] = keydir[j]
    BY <1>3, <2>1, <2>3 DEF ReadDead, ReadPlace
  <2>4. CASE j = k /\ keydir'[j] = e
    BY <2>1, <2>4
  <2>5. QED
    BY <2>2, <2>3, <2>4
<1>6. ASSUME NEW g \in files
      PROVE  /\ StatsOf(stats, g).deadBytes = Cardinality(BytesOf(UnusedRead(g)))
             /\ StatsOf(stats, g) \in LogStats
  <2>1. StatsOf(stats, g) \in LogStats
    BY <1>3, StatsOfType
  <2>2. CASE g \in DOMAIN stats
    BY <2>1, <2>2 DEF ReadDead, StatsOf
  <2>3. CASE g \notin DOMAIN stats
    <3>1. ReadOf(g) = {}
      BY <1>1, <2>3 DEF CountedInv, UnmergedCount, ReadTotal
    <3>2. UnusedRead(g) = {}
      BY <3>1 DEF UnusedRead
    <3>3. QED
      BY <2>1, <2>3, <3>2, NoBytes DEF StatsOf, NoStats
  <2>4. QED
    BY <2>1, <2>2, <2>3
<1>7. DOMAIN st = DOMAIN stats \cup {f}
  BY UpdDomain
<1>8. ASSUME NEW g \in DOMAIN st
      PROVE  st[g].deadBytes = StatsOf(stats, g).deadBytes + (IF g = f /\ tomb THEN n ELSE 0)
  <2>1. CASE g # f
    <3>1. st[g] = StatsOf(stats, g) /\ StatsOf(stats, g) \in LogStats
      BY <1>3, <1>6, <1>7, <2>1 DEF Upd, StatsOf
    <3>2. QED
      BY <2>1, <3>1 DEF LogStats
  <2>2. CASE g = f
    <3>1. st[g] = IF tomb THEN AddDead(StatsOf(stats, g), n) ELSE AddLive(StatsOf(stats, g))
      BY <2>2, UpdNew
    <3>2. StatsOf(stats, g) \in LogStats
      BY <1>6, <2>2
    <3>3. QED
      BY <2>2, <3>1, <3>2 DEF AddDead, AddLive, LogStats
  <2>3. QED
    BY <2>1, <2>2
<1>9. DOMAIN stats' = DOMAIN stats \cup {f}
  <2>1. k \in DOMAIN keydir => keydir[k].fileid \in DOMAIN stats
    BY <1>3 DEF CountedInv, LiveCount, CoveredInv
  <2>2. QED
    BY <1>4, <1>7, <2>1 DEF SupersedeIn, Upd
<1> HIDE DEF st
<1>10. ASSUME NEW g \in DOMAIN stats'
       PROVE  stats'[g].deadBytes = st[g].deadBytes + (IF k \in KeysIn(g) THEN keydir[k].len ELSE 0)
  <2>1. g \in DOMAIN st /\ g \in files
    BY <1>3, <1>7, <1>9
  <2>2. st[g].deadBytes \in Int
    <3>1. StatsOf(stats, g).deadBytes \in Nat
      BY <1>6, <2>1 DEF LogStats
    <3>2. n \in Nat
      BY <1>3 DEF DataFiles, Records
    <3>3. QED
      BY <1>8, <2>1, <3>1, <3>2
  <2>3. CASE k \in KeysIn(g)
    <3>1. stats' = Upd(st, g, Overwrite(st[g], keydir[k].len))
      BY <1>4, <2>1, <2>3 DEF SupersedeIn, KeysIn, StatsOf
    <3>2. stats'[g] = Overwrite(st[g], keydir[k].len)
      BY <3>1 DEF Upd
    <3>3. QED
      BY <2>3, <3>2 DEF Overwrite
  <2>4. CASE k \notin KeysIn(g)
    <3>1. stats'[g] = st[g]
      BY <1>4, <2>1, <2>4 DEF SupersedeIn, KeysIn, Upd
    <3>2. QED
      BY <2>2, <2>4, <3>1
  <2>5. QED
    BY <2>3, <2>4
<1>11. ASSUME NEW g \in DOMAIN stats'
       PROVE  stats'[g].deadBytes = Cardinality(BytesOf(UnusedRead(g)'))
  <2> DEFINE more == IF g = f /\ rec.val = NoValue THEN {rec} ELSE {}
  <2>1. g \in files /\ g \in DOMAIN st
    BY <1>3, <1>7, <1>9
  <2>2. st[g].deadBytes = Cardinality(BytesOf(UnusedRead(g) \cup more))
    <3>1. StatsOf(stats, g).deadBytes = Cardinality(BytesOf(UnusedRead(g)))
          /\ StatsOf(stats, g).deadBytes \in Nat
      BY <1>6, <2>1 DEF LogStats
    <3>2. CASE g = f /\ tomb
      <4>1. UnusedRead(g) \in SUBSET data[g].recs /\ rec \notin UnusedRead(g) /\ rec \in data[g].recs
        BY <1>2, <3>2 DEF UnusedRead, ReadsEntry, ReadOf
      <4>2. Cardinality(BytesOf(UnusedRead(g) \cup {rec})) = Cardinality(BytesOf(UnusedRead(g))) + n
        BY <1>3, <2>1, <4>1, AddBytes
      <4>3. QED
        BY <1>8, <2>1, <3>1, <3>2, <4>2
    <3>3. CASE ~(g = f /\ tomb)
      <4>1. UnusedRead(g) \cup more = UnusedRead(g)
        BY <3>3
      <4>2. st[g].deadBytes = StatsOf(stats, g).deadBytes + 0
        BY <1>8, <2>1, <3>3
      <4>3. st[g].deadBytes = StatsOf(stats, g).deadBytes
        BY <3>1, <4>2
      <4>4. QED
        BY <3>1, <4>1, <4>3, Zenon
    <3>4. QED
      BY <3>2, <3>3
  <2>3. UnusedRead(g) \cup more \in SUBSET data[g].recs
    BY DEF UnusedRead, ReadOf
  <2>4. CASE k \in KeysIn(g)
    <3>1. PICK old \in data[g].recs :
            /\ old.len = keydir[k].len /\ old \notin UnusedRead(g) \cup more
            /\ UnusedRead(g)' = (UnusedRead(g) \cup more) \cup {old}
      BY <1>1, <1>2, <2>1, <2>4, ScanUnused
    <3> HIDE DEF more
    <3>2. Cardinality(BytesOf((UnusedRead(g) \cup more) \cup {old})) =
            Cardinality(BytesOf(UnusedRead(g) \cup more)) + old.len
      BY <1>3, <2>1, <2>3, <3>1, AddBytes
    <3>3. QED
      BY <1>10, <2>2, <2>4, <3>1, <3>2
  <2>5. CASE k \notin KeysIn(g)
    <3>1. UnusedRead(g)' = UnusedRead(g) \cup more
      BY <1>1, <1>2, <2>1, <2>5, ScanUnused
    <3> HIDE DEF more
    <3>2. stats'[g].deadBytes = st[g].deadBytes + 0
      BY <1>10, <2>5
    <3>3. st[g].deadBytes \in Int
      <4>1. StatsOf(stats, g).deadBytes \in Nat /\ n \in Nat
        BY <1>3, <1>6, <2>1 DEF LogStats, DataFiles, Records
      <4>2. QED
        BY <1>8, <2>1, <4>1
    <3>4. QED
      BY <2>2, <3>1, <3>2, <3>3
  <2>6. QED
    BY <2>4, <2>5
<1>12. QED
  BY <1>5, <1>11 DEF ReadDead, BytesOf

\* Turning to the next file keeps the bytes.
LEMMA NextReadBytes ==
  ASSUME DownInv, RecoveryInv, ReadDead, ScanNext, nmerges = 0
  PROVE  ReadDead'
<1>1. UNCHANGED <<data, files, keydir, stats>> /\ DOMAIN stats \subseteq files
  BY DEF ScanNext, vars, disk, ctx, writer, DownInv, StoppedCore
<1>2. \A g \in files : ReadOf(g)' = ReadOf(g)
  BY NextReads
<1>3. \A k \in DOMAIN keydir : keydir[k].fileid \in files
  BY DEF DownInv, StoppedCore, CoreKeydir
<1>4. ReadPlace'
  <2> SUFFICES ASSUME NEW j \in DOMAIN keydir, NEW x, x = keydir[j]
               PROVE  \E r \in ReadOf(x.fileid)' : r.pos = x.pos /\ r.len = x.len /\ r.key = j
    BY <1>1 DEF ReadPlace, ReadOf, ReadPast, Current
  <2>1. QED
    BY <1>2, <1>3 DEF ReadDead, ReadPlace
<1>5. \A g \in files : UnusedRead(g)' = UnusedRead(g)
  BY <1>1, <1>2 DEF UnusedRead, KeysIn
<1>6. QED
  BY <1>1, <1>4, <1>5 DEF ReadDead, BytesOf

\* When all files are read the bytes of every dead entry are counted.
LEMMA OpenBytes ==
  ASSUME DownInv, FreshInv, CountedInv, ReadDead, OpenFinish
  PROVE  BytesInv'
<1>1. PICK b : b = latest + 1
  OBVIOUS
<1>2. /\ phase = "rebuild" /\ todo = {} /\ data' = Upd(data, b, EmptyFile)
      /\ UNCHANGED <<keydir, stats, mnew, mfiles, pc, req, ent>>
  BY <1>1 DEF OpenFinish, NewActive, ctx, calls
<1>3. /\ b \notin files /\ DOMAIN data = files /\ DOMAIN stats \subseteq files
      /\ mfiles = {} /\ DOMAIN mnew = {} /\ \A t \in Threads : pc[t] = "idle"
  BY <1>1, <1>2 DEF FreshInv, DownInv, StoppedCore
<1>4. /\ DOMAIN data' = files \cup {b} /\ data'[b] = EmptyFile
      /\ \A f \in files : data'[f] = data[f]
  BY <1>2, <1>3 DEF Upd
<1>5. ApartInv' /\ HandInv'
  BY <1>2, <1>3, <1>4, EmptyHolds DEF ApartInv, HandInv, DownInv, EntriesInv
<1>6. ASSUME NEW f \in DOMAIN stats
      PROVE  Unused(f)' = UnusedRead(f)
  <2>1. ReadOf(f) = data[f].recs /\ data'[f] = data[f]
    BY <1>2, <1>3, <1>4 DEF ReadOf, ReadPast
  <2>2. \A p : InUse(f, p)' <=> \E k \in KeysIn(f) : keydir[k].pos = p
    BY <1>2, <1>3 DEF InUse, KeysIn, NewIn
  <2>3. QED
    BY <2>1, <2>2 DEF Unused, UnusedRead
<1>7. DeadInv'
  BY <1>2, <1>6 DEF DeadInv, ReadDead, BytesOf
<1>8. QED
  BY <1>5, <1>7 DEF BytesInv

\* Every step keeps the bytes, up to the first merge.
LEMMA ReadBytesStep ==
  ASSUME SurviveInv, RecoveryInv, CountedInv, ReadBytesInv, [RecoveryNext]_allvars
  PROVE  ReadBytesInv'
<1> SUFFICES ASSUME nmerges' = 0
             PROVE  /\ phase' = "open" => BytesInv'
                    /\ phase' = "rebuild" => ReadDead'
  BY DEF ReadBytesInv
<1>1. CASE Running
  <2>1. /\ phase = "open" /\ phase' = "open" /\ [Next]_vars /\ LiveCount
    BY <1>1 DEF Running, rvars, CountedInv
  <2>2. nmerges = 0
    BY <1>1, RunningUnmerged DEF RecoveryInv
  <2>3. TotalInv /\ BytesInv /\ IndInv
    BY <2>1, <2>2 DEF CountedInv, UnmergedCount, ReadBytesInv, RecoveryInv, UnmergedInv
  <2>4. BytesInv'
    BY <2>1, <2>3, NextBytes, InvParts
  <2>5. QED
    BY <2>1, <2>4
<1>2. CASE Crash \/ CrashInOpen \/ DropWriter
  BY <1>2 DEF Crash, CrashInOpen, DropWriter
<1>3. CASE OpenBegin
  <2>1. /\ phase = "down" /\ phase' = "rebuild" /\ UNCHANGED <<keydir, stats, nmerges>>
    BY <1>3 DEF OpenBegin, vars, ctx, writer, bounds
  <2>2. DOMAIN keydir = {} /\ DOMAIN stats = {}
    BY <2>1 DEF SurviveInv, DownInv, CountedInv, UnmergedCount
  <2>3. QED
    BY <2>1, <2>2 DEF ReadDead, ReadPlace
<1>4. CASE ScanHint \/ ScanData \/ ScanNext \/ OpenFinish
  <2>1. /\ phase = "rebuild" /\ DownInv /\ FreshInv /\ UNCHANGED nmerges
        /\ phase' = IF OpenFinish THEN "open" ELSE "rebuild"
    BY <1>4 DEF ScanHint, ScanData, ScanNext, OpenFinish, ScanKeeps, vars, bounds, SurviveInv,
                RecoveryInv
  <2>2. ReadDead /\ ~ScanHint
    BY <2>1 DEF ReadBytesInv, ScanHint, RecoveryInv, UnmergedInv
  <2>3. QED
    BY <1>4, <2>1, <2>2, ScanBytes, NextReadBytes, OpenBytes
<1>5. CASE UNCHANGED allvars
  <2>1. /\ UNCHANGED <<phase, todo, at, nmerges>>
        /\ UNCHANGED <<data, keydir, stats, mnew, mfiles, pc, req, ent>>
    BY <1>5 DEF allvars, vars, rvars, disk, ctx, writer, calls, merge, bounds
  <2>2. BytesInv => BytesInv'
    BY <2>1, QuietBytes
  <2>3. ReadDead => ReadDead'
    BY <2>1 DEF ReadDead, ReadPlace, UnusedRead, KeysIn, ReadOf, ReadPast, Current, BytesOf
  <2>4. QED
    BY <2>1, <2>2, <2>3 DEF ReadBytesInv
<1>6. QED
  BY <1>1, <1>2, <1>3, <1>4, <1>5 DEF RecoveryNext

\* Up to the first merge the bytes that rebuild_storage counts as dead, and
\* that evolve from them, are those of the entries that no key points at, as
\* they are for an instance that never stopped.
THEOREM DeadBytesAfterReopen == RecoverySpec => []RebuiltDeadBytesExact
<1>1. RecoveryInit => ReadBytesInv
  <2> SUFFICES ASSUME RecoveryInit PROVE BytesInv
    BY DEF RecoveryInit, ReadBytesInv
  <2>1. /\ DOMAIN stats = {} /\ DOMAIN data = {0} /\ data[0] = EmptyFile
        /\ \A t \in Threads : pc[t] = "idle"
    BY DEF RecoveryInit, Init, EmptyMap
  <2>2. QED
    BY <2>1, EmptyHolds DEF BytesInv, ApartInv, HandInv, DeadInv
<1>2. SurviveInv /\ RecoveryInv /\ CountedInv /\ ReadBytesInv /\ [RecoveryNext]_allvars
        => ReadBytesInv'
  BY ReadBytesStep
<1>3. SurviveInv /\ ReadBytesInv => RebuiltDeadBytesExact
  BY BytesMeet DEF SurviveInv, OpenInv, ReadBytesInv, RebuiltDeadBytesExact
<1>4. QED
  BY <1>1, <1>2, <1>3, SurviveInvariant, RecoveryInvariant, CountedInvariant, PTL DEF RecoverySpec

-----------------------------------------------------------------------------
(* Up to the first merge the directory is a durable store *)

\* rec is an entry of key k in file f.
InLog(k, f, rec) == f \in files /\ rec \in data[f].recs /\ rec.key = k

\* It is one that the rebuilding has read.
Read(k, f, rec) == InLog(k, f, rec) /\ ReadPast(f, rec.pos)

\* Of the entries read, key k has its last where the KeyDir points, and has
\* none, or a tombstone as the last, if it is not in the KeyDir.
ReadLast(k, g, q) == \A f, rec : Read(k, f, rec) => UpTo(f, rec.pos, g, q)
ReadErased(k) ==
  \/ \A f, rec : ~Read(k, f, rec)
  \/ \E g, tomb : Read(k, g, tomb) /\ tomb.val = NoValue /\ ReadLast(k, g, tomb.pos)

ScanLatest ==
  /\ \A k \in DOMAIN keydir : ReadLast(k, keydir[k].fileid, keydir[k].pos)
  /\ \A k \in Keys \ DOMAIN keydir : ReadErased(k)

\* There are no calls while no instance runs.
NoCalls ==
  /\ closed = FALSE /\ pc = [t \in Threads |-> "idle"]
  /\ req = [t \in Threads |-> NoReq] /\ res = [t \in Threads |-> "none"]

DurableInv ==
  nmerges = 0 => IF phase = "open" THEN RefInv /\ LatestInv
                 ELSE NoCalls /\ (phase = "rebuild" => ScanLatest)

\* What the entries of a key lie in.
LEMMA LogEntries ==
  ASSUME TypeOK, LogInv, NEW k, NEW f, NEW rec, InLog(k, f, rec)
  PROVE  /\ f \in Nat /\ rec \in Records /\ rec.pos \in Nat /\ f \in DOMAIN data
         /\ WellFormed(data[f])
<1>1. f \in DOMAIN data /\ DOMAIN data \subseteq Nat /\ data[f] \in DataFiles
  BY DEF InLog, TypeOK
<1>2. rec \in Records
  BY <1>1 DEF InLog, DataFiles
<1>3. QED
  BY <1>1, <1>2 DEF LogInv, Records

\* Two entries of a key, each not after the other, are one.
LEMMA SameLogged ==
  ASSUME TypeOK, LogInv, NEW k, NEW f, NEW rec, NEW g, NEW other,
         InLog(k, f, rec), InLog(k, g, other),
         UpTo(f, rec.pos, g, other.pos), UpTo(g, other.pos, f, rec.pos)
  PROVE  f = g /\ rec = other
<1>1. f \in Nat /\ g \in Nat /\ rec.pos \in Nat /\ other.pos \in Nat /\ WellFormed(data[f])
  BY LogEntries
<1>2. f = g /\ rec.pos = other.pos
  BY <1>1 DEF UpTo
<1>3. QED
  BY <1>1, <1>2 DEF WellFormed, InLog

\* The members of LogOf.
LEMMA LogOfEntries ==
  ASSUME NEW k, NEW a
  PROVE  a \in LogOf(k) <=> \E f, rec : InLog(k, f, rec)
                                         /\ a = [fileid |-> f, pos |-> rec.pos, val |-> rec.val]
BY DEF LogOf, InLog

\* The directory stores the value of the last entry of a key.
LEMMA DurableLast ==
  ASSUME TypeOK, LogInv, NEW k \in Keys, NEW f, NEW rec, InLog(k, f, rec),
         \A g, r : InLog(k, g, r) => UpTo(g, r.pos, f, rec.pos)
  PROVE  Durable[k] = rec.val
<1> DEFINE c == [fileid |-> f, pos |-> rec.pos, val |-> rec.val]
           P(a) == a \in LogOf(k) /\ \A b \in LogOf(k) : Later(a, b)
<1>1. c \in LogOf(k)
  BY LogOfEntries
<1>2. ASSUME NEW b \in LogOf(k) PROVE Later(c, b)
  <2>1. PICK g, r : InLog(k, g, r) /\ b = [fileid |-> g, pos |-> r.pos, val |-> r.val]
    BY <1>2, LogOfEntries
  <2>2. /\ f \in Nat /\ g \in Nat /\ rec.pos \in Nat /\ r.pos \in Nat
    BY <2>1, LogEntries
  <2>3. QED
    BY <2>1, <2>2 DEF Later, UpTo
<1>3. ASSUME NEW a, P(a) PROVE a.val = rec.val
  <2>1. PICK g, r : InLog(k, g, r) /\ a = [fileid |-> g, pos |-> r.pos, val |-> r.val]
    BY <1>3, LogOfEntries
  <2>2. /\ f \in Nat /\ g \in Nat /\ rec.pos \in Nat /\ r.pos \in Nat
    BY <2>1, LogEntries
  <2>3. Later(a, c)
    BY <1>1, <1>3
  <2>4. UpTo(f, rec.pos, g, r.pos)
    BY <2>1, <2>2, <2>3 DEF Later, UpTo
  <2>5. UpTo(g, r.pos, f, rec.pos)
    BY <2>1
  <2>6. r = rec
    BY <2>1, <2>4, <2>5, SameLogged
  <2>7. QED
    BY <2>1, <2>6
<1>4. \E a \in LogOf(k) : \A b \in LogOf(k) : Later(a, b)
  BY <1>1, <1>2
<1>5. (CHOOSE a \in LogOf(k) : \A b \in LogOf(k) : Later(a, b)).val = rec.val
  <2> DEFINE m == CHOOSE a \in LogOf(k) : \A b \in LogOf(k) : Later(a, b)
  <2>1. P(m)
    BY <1>4
  <2> HIDE DEF m
  <2>2. m.val = rec.val
    BY <1>3, <2>1
  <2>3. QED
    BY <2>2 DEF m
<1>6. LogOf(k) # {}
  BY <1>1
<1>7. QED
  BY <1>5, <1>6 DEF Durable

\* A key without entries has no value.
LEMMA DurableNone ==
  ASSUME NEW k \in Keys, \A f, rec : ~InLog(k, f, rec)
  PROVE  Durable[k] = NoValue
<1>1. LogOf(k) = {}
  BY LogOfEntries
<1>2. QED
  BY <1>1 DEF Durable

\* A step that neither adds nor removes an entry changes nothing.
LEMMA DurableKept ==
  ASSUME \A k, f, rec : InLog(k, f, rec)' <=> InLog(k, f, rec)
  PROVE  Durable' = Durable
<1>1. ASSUME NEW k PROVE LogOf(k)' = LogOf(k)
  <2>1. ASSUME NEW a PROVE (a \in LogOf(k))' <=> a \in LogOf(k)
    <3>1. (a \in LogOf(k))' <=> \E f, rec : InLog(k, f, rec)'
                                         /\ a = [fileid |-> f, pos |-> rec.pos, val |-> rec.val]
      BY DEF LogOf, InLog
    <3>2. QED
      BY <3>1, LogOfEntries
  <2>2. QED
    BY <2>1
<1> DEFINE D(S) == IF S = {} THEN NoValue
                   ELSE (CHOOSE a \in S : \A b \in S : Later(a, b)).val
<1>2. Durable = [k \in Keys |-> D(LogOf(k))] /\ Durable' = [k \in Keys |-> D(LogOf(k)')]
  BY DEF Durable, Later
<1> HIDE DEF D
<1>3. \A k \in Keys : D(LogOf(k)') = D(LogOf(k))
  BY <1>1
<1>4. QED
  BY <1>2, <1>3

\* Where a key points there is an entry with the value it shows.
LEMMA ViewEntry ==
  ASSUME TypeOK, LogInv, KeydirValid, NEW k \in Keys, k \in DOMAIN keydir
  PROVE  \E rec : /\ InLog(k, keydir[k].fileid, rec) /\ rec.pos = keydir[k].pos
                  /\ rec.val = View[k]
<1>1. PICK rec \in data[keydir[k].fileid].recs :
        /\ rec.pos = keydir[k].pos /\ rec.len = keydir[k].len /\ rec.key = k
        /\ keydir[k].fileid \in files /\ keydir[k].fileid \in DOMAIN data
  BY DEF KeydirValid, Locates
<1>2. data[keydir[k].fileid] \in DataFiles /\ WellFormed(data[keydir[k].fileid])
  BY <1>1 DEF TypeOK, LogInv
<1>3. ReadAt(data[keydir[k].fileid], rec.pos, rec.len) = rec.val
  BY <1>1, <1>2, ReadRecord
<1>4. QED
  BY <1>1, <1>3 DEF InLog, View, ValueAt

\* A key whose entries are all indexed shows what the directory stores.
LEMMA ViewDurable ==
  ASSUME TypeOK, LogInv, KeydirValid, LatestInv, NEW k \in Keys,
         \A f, rec : InLog(k, f, rec) => Logged(k, f, rec)
  PROVE  Durable[k] = View[k]
<1>1. \A f, rec : Logged(k, f, rec) => InLog(k, f, rec)
  BY DEF Logged, InLog
<1>2. CASE k \in DOMAIN keydir
  <2>1. PICK rec : /\ InLog(k, keydir[k].fileid, rec) /\ rec.pos = keydir[k].pos
                   /\ rec.val = View[k]
    BY <1>2, ViewEntry
  <2>2. LastLogged(k, keydir[k].fileid, rec.pos)
    BY <1>2, <2>1 DEF LatestInv
  <2>3. Durable[k] = rec.val
    BY <2>1, <2>2, DurableLast DEF LastLogged
  <2>4. QED
    BY <2>1, <2>3
<1>3. CASE k \notin DOMAIN keydir
  <2>1. Erased(k) /\ View[k] = NoValue
    BY <1>3 DEF LatestInv, View
  <2>2. CASE \A f, rec : ~Logged(k, f, rec)
    <3>1. Durable[k] = NoValue
      BY <2>2, DurableNone
    <3>2. QED
      BY <2>1, <3>1
  <2>3. ASSUME NEW g, NEW tomb, Logged(k, g, tomb), tomb.val = NoValue,
               LastLogged(k, g, tomb.pos)
        PROVE  Durable[k] = NoValue
    <3>1. InLog(k, g, tomb) /\ \A h, r : InLog(k, h, r) => UpTo(h, r.pos, g, tomb.pos)
      BY <1>1, <2>3 DEF LastLogged
    <3>2. QED
      BY <2>3, <3>1, DurableLast
  <2>4. QED
    BY <2>1, <2>2, <2>3 DEF Erased
<1>4. QED
  BY <1>2, <1>3

\* Where no entry waits to be indexed, so does the whole store.
LEMMA StoreDurable ==
  ASSUME TypeOK, LogInv, KeydirValid, LatestInv, \A t \in Threads : pc[t] # "index"
  PROVE  Durable = View
<1>1. \A k, f, rec : InLog(k, f, rec) => Logged(k, f, rec)
  BY DEF InLog, Logged, InHand
<1>2. \A k \in Keys : Durable[k] = View[k]
  BY <1>1, ViewDurable
<1>3. Durable = [k \in Keys |-> Durable[k]] /\ View = [k \in Keys |-> View[k]]
  BY DEF Durable, View
<1> HIDE DEF View
<1>4. QED
  BY <1>2, <1>3

\* What the directory stores is what the KeyDir shows or, if a thread has
\* appended an entry and not indexed it, that after its call.
LEMMA StopStores ==
  ASSUME IndInv, LatestInv
  PROVE  \/ Durable = View
         \/ \E t \in Threads : /\ pc[t] = "index" /\ req[t].op # "get" /\ req[t].key \in Keys
                               /\ Durable = [View EXCEPT ![req[t].key] = req[t].val]
<1>0. TypeOK /\ LogInv /\ KeydirValid
  BY DEF IndInv
<1>1. CASE \A t \in Threads : pc[t] # "index"
  BY <1>0, <1>1, StoreDurable
<1>2. ASSUME NEW t \in Threads, pc[t] = "index"
      PROVE  /\ req[t].op # "get" /\ req[t].key \in Keys
             /\ Durable = [View EXCEPT ![req[t].key] = req[t].val]
  <2> DEFINE key == req[t].key
  <2>1. /\ req[t].op \in {"set", "del"} /\ req[t] \in Requests \cup {NoReq}
        /\ \A u \in Threads : pc[u] = "index" => u = t
    BY <1>0, <1>2 DEF IndInv, LockInv, TypeOK
  <2>2. key \in Keys /\ req[t].op # "get"
    BY <2>1 DEF Requests, NoReq
  <2>3. PICK new \in data[ent[t].fileid].recs :
          /\ ent[t].fileid \in files /\ new.pos = ent[t].pos /\ new.key = key
          /\ new.val = req[t].val
          /\ \A f \in files : \A rec \in data[f].recs : UpTo(f, rec.pos, ent[t].fileid, ent[t].pos)
    BY <1>2 DEF LatestInv, AppendedInv
  <2>4. PICK g : g = ent[t].fileid
    OBVIOUS
  <2>5. InLog(key, g, new) /\ \A f, rec : InLog(key, f, rec) => UpTo(f, rec.pos, g, new.pos)
    BY <2>3, <2>4 DEF InLog
  <2>6. Durable[key] = req[t].val
    <3>1. Durable[key] = new.val
      BY <1>0, <2>2, <2>5, DurableLast
    <3>2. QED
      BY <2>3, <3>1
  <2>7. ASSUME NEW k \in Keys, k # key PROVE Durable[k] = View[k]
    <3>1. ASSUME NEW f, NEW rec, InLog(k, f, rec) PROVE Logged(k, f, rec)
      <4>1. SUFFICES ASSUME InHand(f, rec.pos) PROVE FALSE
        BY <3>1 DEF InLog, Logged
      <4>2. f = g /\ rec.pos = new.pos
        BY <2>1, <2>3, <2>4, <4>1 DEF InHand
      <4>3. WellFormed(data[f]) /\ rec \in data[f].recs /\ new \in data[f].recs /\ rec.key = k
        BY <1>0, <2>3, <2>4, <3>1, <4>2, LogEntries DEF InLog
      <4>4. rec = new
        BY <4>2, <4>3 DEF WellFormed
      <4>5. QED
        BY <2>3, <2>7, <4>3, <4>4
    <3>2. QED
      BY <1>0, <3>1, ViewDurable
  <2>8. Durable = [k \in Keys |-> Durable[k]] /\ View = [k \in Keys |-> View[k]]
    BY DEF Durable, View
  <2> HIDE DEF View
  <2>9. QED
    BY <2>2, <2>6, <2>7, <2>8
<1>3. QED
  BY <1>1, <1>2

-----------------------------------------------------------------------------
(* Rebuilding *)

\* A step that reads no further entry of a key.
LEMMA ReadSame ==
  ASSUME NEW k, \A f, rec : Read(k, f, rec)' <=> Read(k, f, rec)
  PROVE  /\ \A g, q : ReadLast(k, g, q)' <=> ReadLast(k, g, q)
         /\ ReadErased(k)' <=> ReadErased(k)
<1>1. \A g, q : ReadLast(k, g, q)' <=> ReadLast(k, g, q)
  BY DEF ReadLast, UpTo
<1>2. QED
  BY <1>1 DEF ReadErased

\* Nothing has been read at first.
LEMMA BeginLatest ==
  ASSUME DownInv, OpenBegin
  PROVE  ScanLatest'
<1>1. /\ phase = "down" /\ todo' = files /\ at = 0 /\ DOMAIN keydir = {}
      /\ UNCHANGED <<data, files, keydir, at>>
  BY DEF OpenBegin, DownInv, vars, disk, ctx
<1>2. ASSUME NEW k, NEW f, NEW rec PROVE ~Read(k, f, rec)'
  <2>1. SUFFICES ASSUME InLog(k, f, rec), ReadPast(f, rec.pos)' PROVE FALSE
    BY <1>1 DEF Read, InLog
  <2>2. rec.pos \in Nat /\ f \in files
    BY <2>1, LogEntries DEF DownInv, StoppedCore, InLog
  <2>3. QED
    BY <1>1, <2>1, <2>2 DEF ReadPast
<1>3. QED
  BY <1>1, <1>2 DEF ScanLatest, ReadErased

\* An entry of a data file comes after all those read before it.
LEMMA DataLatest ==
  ASSUME DownInv, FreshInv, ScanLatest, ScanData
  PROVE  ScanLatest'
<1>1. /\ phase = "rebuild" /\ UNCHANGED <<data, files, hint, todo>>
  BY DEF ScanData, ScanKeeps, disk
<1>2. PICK f \in todo \ DOMAIN hint : \E r \in NextEntry(f) :
        /\ Current(f) /\ at' = at + r.len
        /\ IF r.val = NoValue THEN keydir' = Without(keydir, r.key)
           ELSE keydir' = Upd(keydir, r.key, [fileid |-> f, pos |-> r.pos, len |-> r.len])
  BY DEF ScanData, Indexed, Unindex
<1>3. PICK rec \in data[f].recs :
        /\ rec.pos = at /\ Current(f) /\ at' = at + rec.len
        /\ IF rec.val = NoValue THEN keydir' = Without(keydir, rec.key)
           ELSE keydir' = Upd(keydir, rec.key, [fileid |-> f, pos |-> rec.pos, len |-> rec.len])
  BY <1>2 DEF NextEntry
<1>4. /\ f \in files /\ f \in Nat /\ at \in Nat
      /\ \A g \in files \ todo : g < f
      /\ \A g \in todo : Current(g) => g = f
  BY <1>1, <1>3, ScanOrder
<1>5. ASSUME NEW k, NEW g, NEW r
      PROVE  Read(k, g, r)' <=> Read(k, g, r) \/ (k = rec.key /\ g = f /\ r = rec)
  <2>1. InLog(k, g, r)' <=> InLog(k, g, r)
    BY <1>1 DEF InLog
  <2>2. ASSUME InLog(k, g, r)
        PROVE  ReadPast(g, r.pos)' <=> ReadPast(g, r.pos) \/ (g = f /\ r = rec)
    BY <1>3, <2>2, ReadOne DEF InLog
  <2>3. k = rec.key /\ g = f /\ r = rec => InLog(k, g, r)
    BY <1>3, <1>4 DEF InLog
  <2>4. InLog(k, g, r) /\ r = rec => k = rec.key
    BY DEF InLog
  <2>5. QED
    BY <2>1, <2>2, <2>3, <2>4 DEF Read
<1>6. ASSUME NEW k, NEW g, NEW r, Read(k, g, r)'
      PROVE  UpTo(g, r.pos, f, rec.pos)
  <2>1. CASE g = f /\ r = rec
    <3>1. rec.pos <= rec.pos
      BY <1>3, <1>4
    <3>2. QED
      BY <2>1, <3>1 DEF UpTo
  <2>2. CASE Read(k, g, r)
    <3>1. g \in files /\ ReadPast(g, r.pos) /\ r.pos \in Nat
      BY <2>2, LogEntries DEF Read, InLog, DownInv, StoppedCore
    <3>2. g < f \/ (g = f /\ r.pos < at)
      BY <1>4, <3>1 DEF ReadPast
    <3>3. QED
      BY <1>3, <1>4, <3>1, <3>2 DEF UpTo
  <2>3. QED
    BY <1>5, <1>6, <2>1, <2>2
<1>7. ReadLast(rec.key, f, rec.pos)' /\ Read(rec.key, f, rec)'
  BY <1>5, <1>6 DEF ReadLast
<1>8. ASSUME NEW k, k # rec.key
      PROVE  /\ \A g, q : ReadLast(k, g, q)' <=> ReadLast(k, g, q)
             /\ ReadErased(k)' <=> ReadErased(k)
  BY <1>5, <1>8, ReadSame
<1>9. CASE rec.val = NoValue
  <2>1. /\ DOMAIN keydir' = DOMAIN keydir \ {rec.key}
        /\ \A k \in DOMAIN keydir' : keydir'[k] = keydir[k]
    BY <1>3, <1>9 DEF Without
  <2>2. ReadErased(rec.key)'
    BY <1>7, <1>9 DEF ReadErased
  <2>3. \A k \in DOMAIN keydir' : ReadLast(k, keydir[k].fileid, keydir[k].pos)'
    BY <1>8, <2>1 DEF ScanLatest, ReadLast
  <2>4. QED
    BY <1>8, <2>1, <2>2, <2>3 DEF ScanLatest
<1>10. CASE rec.val # NoValue
  <2>1. /\ DOMAIN keydir' = DOMAIN keydir \cup {rec.key}
        /\ keydir'[rec.key].fileid = f /\ keydir'[rec.key].pos = rec.pos
        /\ \A k \in DOMAIN keydir : k # rec.key => keydir'[k] = keydir[k]
    BY <1>3, <1>10 DEF Upd
  <2>2. \A k \in DOMAIN keydir' : ReadLast(k, keydir[k].fileid, keydir[k].pos)'
    BY <1>7, <1>8, <2>1 DEF ScanLatest
  <2>3. QED
    BY <1>8, <2>1, <2>2 DEF ScanLatest
<1>11. QED
  BY <1>9, <1>10

\* The end of a file reads nothing.
LEMMA NextLatest ==
  ASSUME DownInv, FreshInv, ScanLatest, ScanNext, DOMAIN hint = {}
  PROVE  ScanLatest'
<1>1. phase = "rebuild" /\ at' = 0 /\ UNCHANGED <<data, files, keydir>>
  BY DEF ScanNext, vars, disk, ctx
<1>2. PICK f \in todo : Current(f) /\ AtEnd(f) /\ todo' = todo \ {f}
  BY DEF ScanNext
<1>3. /\ f \in files /\ \A g \in todo : Current(g) => g = f
  BY <1>1, <1>2, ScanOrder
<1>4. ASSUME NEW k, NEW g, NEW r PROVE Read(k, g, r)' <=> Read(k, g, r)
  <2>1. InLog(k, g, r)' <=> InLog(k, g, r)
    BY <1>1 DEF InLog
  <2>2. ASSUME InLog(k, g, r) PROVE ReadPast(g, r.pos)' <=> ReadPast(g, r.pos)
    <3>1. r.pos \in Nat
      BY <2>2, LogEntries DEF DownInv, StoppedCore
    <3>2. ReadPast(g, r.pos)' <=> g \notin todo \/ g = f
      BY <1>1, <1>2, <3>1 DEF ReadPast
    <3>3. g = f => ReadPast(g, r.pos)
      BY <1>1, <1>2, <2>2, ReadAll DEF InLog
    <3>4. ReadPast(g, r.pos) => g \notin todo \/ g = f
      BY <1>3 DEF ReadPast, Current
    <3>5. QED
      BY <3>2, <3>3, <3>4 DEF ReadPast
  <2>3. QED
    BY <2>1, <2>2 DEF Read
<1>5. \A k : /\ \A g, q : ReadLast(k, g, q)' <=> ReadLast(k, g, q)
             /\ ReadErased(k)' <=> ReadErased(k)
  BY <1>4, ReadSame
<1>6. QED
  BY <1>1, <1>5 DEF ScanLatest

\* When everything is read, each key points at the last of its entries.
LEMMA RebuiltLatest ==
  ASSUME NoCalls, ScanLatest, todo = {}
  PROVE  LatestInv
<1>1. \A k, f, rec : Read(k, f, rec) <=> Logged(k, f, rec)
  BY DEF Read, InLog, Logged, InHand, ReadPast, NoCalls
<1>2. \A k \in DOMAIN keydir : LastLogged(k, keydir[k].fileid, keydir[k].pos)
  BY <1>1 DEF ScanLatest, ReadLast, LastLogged
<1>3. \A k \in Keys \ DOMAIN keydir : Erased(k)
  BY <1>1 DEF ScanLatest, ReadErased, ReadLast, Erased, LastLogged
<1>4. QED
  BY <1>2, <1>3 DEF LatestInv, AppendedInv, NoCalls

-----------------------------------------------------------------------------
(* The steps of a durable store *)

\* The step of a running instance that is one of KVStore is one of the store
\* that may stop and start, too.
LEMMA RunningDurable ==
  ASSUME phase = "open", phase' = "open", KV!Next \/ UNCHANGED KV!kvars
  PROVE  RKV!Next \/ UNCHANGED RKV!kvars
<1>1. ASSUME NEW t \in Threads, NEW r \in KV!Requests, KV!Invoke(t, r)
      PROVE  RKV!Next
  <2>1. RKV!Invoke(t, r)
    BY <1>1 DEF KV!Invoke, RKV!Invoke
  <2>2. r \in RKV!Requests
    BY <1>1 DEF KV!Requests, RKV!Requests
  <2>3. QED
    BY <2>1, <2>2 DEF RKV!Next
<1>2. ASSUME NEW t \in Threads, KV!Apply(t)
      PROVE  RKV!Next
  <2>1. KV!After(req[t]) = RKV!After(req[t]) /\ KV!Result(req[t]) = RKV!Result(req[t])
    BY DEF KV!After, RKV!After, KV!Result, RKV!Result
  <2>2. RKV!Apply(t)
    BY <1>2, <2>1 DEF KV!Apply, RKV!Apply
  <2>3. QED
    BY <2>2 DEF RKV!Next
<1>3. ASSUME NEW t \in Threads, KV!GetMisses(t) \/ KV!GetFails(t) \/ KV!Return(t)
      PROVE  RKV!Next
  <2>1. RKV!GetMisses(t) \/ RKV!GetFails(t) \/ RKV!Return(t)
    BY <1>3 DEF KV!GetMisses, RKV!GetMisses, KV!GetFails, RKV!GetFails, KV!Return, RKV!Return, KV!NoCall, RKV!NoCall
  <2>2. QED
    BY <2>1 DEF RKV!Next
<1>4. CASE KV!Shut
  <2>1. RKV!Shut
    BY <1>4 DEF KV!Shut, RKV!Shut
  <2>2. QED
    BY <2>1 DEF RKV!Next
<1>5. ~KV!Stop /\ ~KV!Start
  BY DEF KV!Stop, KV!Start
<1>6. CASE UNCHANGED KV!kvars
  BY <1>6 DEF KV!kvars, RKV!kvars
<1>7. QED
  BY <1>1, <1>2, <1>3, <1>4, <1>5, <1>6 DEF KV!Next

\* A stop ends the calls.
LEMMA StopCalls ==
  ASSUME MemoryLost
  PROVE  /\ NoCalls'
         /\ CallState' = [t \in Threads |-> "idle"] /\ CallResult' = [t \in Threads |-> "none"]
<1>1. NoCalls'
  BY DEF MemoryLost, NoCalls
<1>2. QED
  BY <1>1 DEF NoCalls, CallState, CallResult

\* A stop without a merge removes no entry: the file that Writer::drop removes,
\* or that a killed write has not created yet, is empty.
LEMMA StopLog ==
  ASSUME TypeOK, LogInv, mpc # "merge", phase = "open" => WrittenInv /\ active \in DOMAIN data,
         Crash \/ CrashInOpen \/ DropWriter
  PROVE  MemoryLost /\ phase' = "down" /\ Durable' = Durable
<1>1. /\ MemoryLost /\ phase' = "down"
      /\ files' \subseteq files /\ \A f \in files' : Remains(f, data'[f])
  BY StopLeaves
<1>2. \A f \in files' : data'[f] = data[f]
  BY <1>1 DEF Remains
<1>3. \A f \in files \ files' : data[f].recs = {}
  <2>1. files' = files \/ (files' = WrittenFiles /\ phase = "open")
    BY DEF Crash, CrashInOpen, DropWriter, KilledInWrite, FilesLeft
  <2>2. CASE files' = WrittenFiles /\ phase = "open"
    <3>1. files' = (IF written = 0 THEN files \ {active} ELSE files) /\ phase = "open"
      BY <2>2 DEF WrittenFiles
    <3>2. data[active] \in DataFiles /\ WellFormed(data[active]) /\ data[active].size = written
      BY <3>1 DEF TypeOK, LogInv, WrittenInv
    <3>3. ASSUME written = 0, NEW rec \in data[active].recs PROVE FALSE
      <4>1. rec.pos \in Nat /\ rec.len \in Nat \ {0} /\ rec.pos + rec.len <= 0
        BY <3>2, <3>3 DEF DataFiles, Records, WellFormed
      <4>2. QED
        BY <4>1
    <3>4. QED
      BY <3>1, <3>3
  <2>3. QED
    BY <2>1, <2>2
<1>4. \A k, f, rec : InLog(k, f, rec)' <=> InLog(k, f, rec)
  BY <1>1, <1>2, <1>3 DEF InLog
<1>5. QED
  BY <1>1, <1>4, DurableKept

\* The end of a process: every call that returned stays done, and one that had
\* appended its entry is done as well.
LEMMA StopDurable ==
  ASSUME RefInv, LatestInv, WrittenInv, mpc # "merge", Crash \/ DropWriter
  PROVE  RKV!Stop
<1>0. IndInv /\ TypeOK /\ LogInv /\ active \in DOMAIN data
  BY DEF RefInv, IndInv, FileInv
<1>1. MemoryLost /\ phase' = "down" /\ Durable' = Durable /\ phase = "open"
  BY <1>0, StopLog DEF Crash, DropWriter
<1>2. /\ NoCalls' /\ CallState' = [t \in Threads |-> "idle"]
      /\ CallResult' = [t \in Threads |-> "none"]
  BY <1>1, StopCalls
<1>3. req' = [t \in Threads |-> NoReq] /\ closed' = FALSE
  BY <1>1 DEF MemoryLost
<1> DEFINE store == IF phase = "open" THEN View ELSE Durable
<1>4. store = View /\ store' = Durable
  BY <1>1
<1>5. store' = store \/ \E t \in Threads : CallState[t] = "called" /\ store' = RKV!After(req[t])
  <2>1. CASE Durable = View
    BY <1>4, <2>1
  <2>2. ASSUME NEW t \in Threads, pc[t] = "index", req[t].op # "get", req[t].key \in Keys,
               Durable = [View EXCEPT ![req[t].key] = req[t].val]
        PROVE  CallState[t] = "called" /\ store' = RKV!After(req[t])
    <3>1. CallState[t] = "called"
      BY <2>2 DEF CallState
    <3>2. RKV!After(req[t]) = [View EXCEPT ![req[t].key] = req[t].val]
      BY <1>1, <2>2 DEF RKV!After
    <3>3. QED
      BY <1>4, <2>2, <3>1, <3>2
  <2>3. QED
    BY <1>0, <2>1, <2>2, StopStores
<1> HIDE DEF store
<1>6. QED
  BY <1>1, <1>2, <1>3, <1>5 DEF RKV!Stop, RKV!NoCall, NoReq, store

\* Opening shows what the directory stores.
LEMMA StartDurable ==
  ASSUME StoppedInv, FreshInv, NoCalls, ScanLatest, OpenFinish
  PROVE  RKV!Start /\ LatestInv'
<1> DEFINE b == latest + 1
<1>1. /\ phase = "rebuild" /\ phase' = "open" /\ todo = {} 
      /\ data' = Upd(data, b, EmptyFile) /\ files' = files \cup {b}
      /\ UNCHANGED <<hint, keydir, closed, pc, req, ent, res>>
  BY DEF OpenFinish, NewActive, ctx, calls
<1>2. b \notin files /\ TypeOK /\ LogInv /\ KeydirValid /\ DOMAIN data = files
  BY <1>1 DEF FreshInv, StoppedInv, StoppedCore
<1>3. data'[b].recs = {} /\ \A f \in files : data'[f] = data[f]
  BY <1>1, <1>2, EmptyHolds DEF Upd
<1> HIDE DEF b
<1>4. LatestInv
  BY <1>1, RebuiltLatest
<1>5. Durable = View
  BY <1>2, <1>4, StoreDurable DEF NoCalls
<1>6. View' = View
  <2>1. \A k \in DOMAIN keydir : keydir[k].fileid \in files
    BY <1>2 DEF KeydirValid
  <2>2. QED
    BY <1>1, <1>3, <2>1 DEF View, ValueAt
<1>7. LatestInv'
  <2>1. \A k, f, rec : Logged(k, f, rec)' <=> Logged(k, f, rec)
    BY <1>1, <1>2, <1>3 DEF Logged, InHand
  <2>2. \A k : /\ \A g, q : LastLogged(k, g, q)' <=> LastLogged(k, g, q)
               /\ Erased(k)' <=> Erased(k)
    BY <2>1, LoggedKept
  <2>3. AppendedInv'
    BY <1>1 DEF AppendedInv, NoCalls
  <2>4. QED
    BY <1>1, <1>4, <2>2, <2>3 DEF LatestInv
<1>8. CallState' = CallState /\ CallResult' = CallResult
  BY <1>1 DEF CallState, CallResult, NoCalls
<1>9. QED
  BY <1>1, <1>5, <1>6, <1>7, <1>8 DEF RKV!Start

\* The steps of Bitcask::open that read the files, and a kill in between, are
\* invisible.
LEMMA OpeningInvisible ==
  ASSUME phase # "open", phase' # "open", NoCalls, NoCalls', Durable' = Durable
  PROVE  UNCHANGED RKV!kvars
<1>1. CallState' = CallState /\ CallResult' = CallResult /\ req' = req /\ closed' = closed
  BY DEF NoCalls, CallState, CallResult
<1>2. QED
  BY <1>1 DEF RKV!kvars

\* Every step of an unmerged directory is one of the durable store, and keeps
\* the invariant.
LEMMA DurableStep ==
  ASSUME RecoveryInv, RecoveryInv', SurviveInv, DurableInv, [RecoveryNext]_allvars, nmerges' = 0
  PROVE  DurableInv' /\ (RKV!Next \/ UNCHANGED RKV!kvars)
<1>0. FreshInv /\ UnmergedInv /\ nmerges \in Nat /\ UnmergedInv'
  BY DEF RecoveryInv
<1>1. CASE Running
  <2>1. nmerges = 0 /\ phase = "open" /\ phase' = "open" /\ [Next]_vars
    BY <1>1, RunningUnmerged DEF Running, rvars
  <2>2. RefInv /\ LatestInv /\ IndInv /\ IndInv' /\ NoMergeInv
    BY <1>0, <2>1 DEF DurableInv, UnmergedInv, NoMergeInv
  <2>3. RefInv'
    BY <2>1, <2>2, ReadInvStep, PutInvStep, CopyInvStep DEF RefInv
  <2>4. LatestInv'
    BY <2>1, <2>2, LatestStep
  <2>5. KV!Next \/ UNCHANGED KV!kvars
    BY <2>1, <2>2, <2>3, RefinesStep
  <2>6. QED
    BY <2>1, <2>3, <2>4, <2>5, RunningDurable DEF DurableInv
<1>2. CASE RecoveryNext /\ ~Running
  <2>1. nmerges = 0
    BY <1>2 DEF RecoveryNext, Crash, CrashInOpen, DropWriter, OpenBegin, ScanHint, ScanData,
                ScanNext, OpenFinish, ScanKeeps, vars, bounds
  <2>2. /\ DOMAIN hint = {} /\ mpc # "merge"
        /\ IF phase = "open" THEN IndInv /\ RefInv /\ LatestInv
           ELSE StoppedInv /\ NoCalls /\ (phase = "rebuild" => ScanLatest)
    BY <1>0, <2>1 DEF UnmergedInv, DurableInv
  <2>3. CASE Crash \/ DropWriter
    <3>1. phase = "open" /\ RefInv /\ LatestInv /\ TypeOK
      BY <2>2, <2>3 DEF Crash, DropWriter, IndInv
    <3>2. WrittenInv
      BY <3>1 DEF SurviveInv, OpenInv, WrittenInv
    <3>3. RKV!Stop
      BY <2>2, <2>3, <3>1, <3>2, StopDurable
    <3>4. MemoryLost /\ phase' = "down"
      BY <2>2, <2>3, <3>1, StopLeaves
    <3>5. QED
      BY <3>3, <3>4, StopCalls DEF RKV!Next, DurableInv
  <2>4. CASE CrashInOpen
    <3>1. phase = "rebuild" /\ NoCalls /\ TypeOK /\ LogInv
      BY <2>2, <2>4 DEF CrashInOpen, StoppedInv, StoppedCore
    <3>2. MemoryLost /\ phase' = "down" /\ Durable' = Durable
      BY <2>2, <2>4, <3>1, StopLog
    <3>3. NoCalls'
      BY <3>2, StopCalls
    <3>4. QED
      BY <3>1, <3>2, <3>3, OpeningInvisible DEF DurableInv
  <2>5. CASE OpenBegin \/ ScanData \/ ScanNext
    <3>1. /\ phase # "open" /\ phase' = "rebuild"
          /\ UNCHANGED <<data, files, closed, pc, req, res>>
      BY <2>5 DEF OpenBegin, ScanData, ScanNext, ScanKeeps, vars, disk, ctx, calls
    <3>2. NoCalls /\ NoCalls' /\ DownInv
      BY <2>2, <3>1 DEF NoCalls, SurviveInv
    <3>3. Durable' = Durable
      BY <3>1, DurableKept DEF InLog
    <3>4. ScanLatest'
      BY <1>0, <2>2, <2>5, <3>1, <3>2, BeginLatest, DataLatest, NextLatest DEF ScanData, ScanNext
    <3>5. QED
      BY <3>1, <3>2, <3>3, <3>4, OpeningInvisible DEF DurableInv
  <2>6. CASE OpenFinish
    <3>1. phase = "rebuild" /\ phase' = "open" /\ StoppedInv /\ NoCalls /\ ScanLatest
      BY <2>2, <2>6 DEF OpenFinish
    <3>2. RKV!Start /\ LatestInv'
      BY <1>0, <2>6, <3>1, StartDurable
    <3>3. IndInv'
      BY <1>0, <3>1 DEF UnmergedInv
    <3>4. ReadInv' /\ PutInv' /\ CopyInv'
      BY <2>6, <3>1 DEF OpenFinish, calls, ReadInv, PutInv, CopyInv, NoCalls, StoppedInv, StoppedCore
    <3>5. QED
      BY <3>1, <3>2, <3>3, <3>4 DEF DurableInv, RefInv, RKV!Next
  <2>7. ~ScanHint
    BY <2>2 DEF ScanHint
  <2>8. QED
    BY <1>2, <2>3, <2>4, <2>5, <2>6, <2>7 DEF RecoveryNext
<1>3. CASE UNCHANGED allvars
  <2>1. UNCHANGED vars /\ UNCHANGED rvars
    BY <1>3 DEF allvars
  <2>2. /\ UNCHANGED <<data, files, keydir, closed, pc, req, ent, res, mnew, nmerges>>
        /\ UNCHANGED <<phase, todo, at>>
    BY <2>1 DEF vars, rvars, disk, ctx, calls, merge, bounds
  <2>3. UNCHANGED RKV!kvars
    <3>1. CallState' = CallState /\ CallResult' = CallResult /\ View' = View
      BY <2>2 DEF CallState, CallResult, View, ValueAt
    <3>2. Durable' = Durable
      BY <2>2, DurableKept DEF InLog
    <3>3. QED
      BY <2>2, <3>1, <3>2 DEF RKV!kvars
  <2>4. CASE phase = "open"
    <3>1. RefInv /\ LatestInv /\ IndInv'
      BY <1>0, <2>2, <2>4 DEF DurableInv, UnmergedInv
    <3>2. LatestInv'
      BY <2>2, <3>1, QuietLatest
    <3>3. ReadInv' /\ PutInv' /\ CopyInv'
      BY <2>2, <3>1 DEF RefInv, ReadInv, PutInv, CopyInv, ValueAt
    <3>4. QED
      BY <2>2, <2>3, <2>4, <3>1, <3>2, <3>3 DEF DurableInv, RefInv
  <2>5. CASE phase # "open"
    <3>1. NoCalls /\ NoCalls'
      BY <2>2, <2>5 DEF DurableInv, NoCalls
    <3>2. phase = "rebuild" => ScanLatest'
      <4>1. \A k, f, rec : Read(k, f, rec)' <=> Read(k, f, rec)
        BY <2>2 DEF Read, InLog, ReadPast, Current
      <4>2. \A k : /\ \A g, q : ReadLast(k, g, q)' <=> ReadLast(k, g, q)
                   /\ ReadErased(k)' <=> ReadErased(k)
        BY <4>1, ReadSame
      <4>3. QED
        BY <2>2, <2>5, <4>2 DEF DurableInv, ScanLatest
    <3>3. QED
      BY <2>2, <2>3, <2>5, <3>1, <3>2 DEF DurableInv
  <2>6. QED
    BY <2>4, <2>5
<1>4. QED
  BY <1>1, <1>2, <1>3

\* Up to its first merge a directory implements a store that may stop and start:
\* through kills at any point, in the middle of a call or of a rebuilding too,
\* and clean stops, each set or del that returned is there afterwards and one
\* that did not return either happened or did not.  A get may fail, or miss a
\* key whose entry in the KeyDir is just being replaced.
THEOREM ImplementsDurableKVStore == RecoverySpec => RefinesDurableKVStore
<1>1. RecoveryInit => RKV!Init /\ DurableInv
  <2> SUFFICES ASSUME RecoveryInit PROVE RKV!Init /\ DurableInv
    OBVIOUS
  <2>1. Init /\ phase = "open"
    BY DEF RecoveryInit
  <2>2. RKV!Init
    BY <2>1 DEF Init, RKV!Init, View, CallState, CallResult, EmptyMap, NoReq, RKV!NoCall
  <2>3. ReadInv /\ PutInv /\ CopyInv
    BY <2>1 DEF Init, ReadInv, PutInv, CopyInv, EmptyMap
  <2>4. QED
    BY <2>1, <2>2, <2>3, InitInv, LatestInit DEF DurableInv, RefInv
<1>2. ASSUME RecoveryInv, RecoveryInv', SurviveInv, DurableInv, [RecoveryNext]_allvars
      PROVE  DurableInv' /\ (nmerges' = 0 => [RKV!Next]_(RKV!kvars))
  BY <1>2, DurableStep DEF DurableInv
<1>3. RecoveryInv /\ RecoveryInv' /\ SurviveInv /\ DurableInv /\ [RecoveryNext]_allvars
        => DurableInv' /\ [nmerges' = 0 => [RKV!Next]_(RKV!kvars)]_allvars
  BY <1>2
<1>4. QED
  BY <1>1, <1>3, RecoveryInvariant, SurviveInvariant, PTL DEF RecoverySpec, RefinesDurableKVStore
=============================================================================
