---------------------------- MODULE BitcaskProofs ----------------------------
(***************************************************************************)
(* Proofs about a running Bitcask instance, for every number of threads,   *)
(* keys, values and readers, every configuration and any number of writes  *)
(* and merges: the KeyDir points at valid file locations, a get reads what *)
(* it looked up, no Reader is lost, the instance implements KVStore and,   *)
(* up to its first merge, each key points at the last of its entries.      *)
(***************************************************************************)
EXTENDS BitcaskRefinement, TLAPS

(* Lemmas about maps *)

\* Inserting into a map (KeyDir, statistics, directory) adds the key ...
LEMMA UpdDomain ==
  ASSUME NEW f, NEW x, NEW v
  PROVE  DOMAIN Upd(f, x, v) = DOMAIN f \cup {x}
BY DEF Upd

\* ... gives it the new value ...
LEMMA UpdNew ==
  ASSUME NEW f, NEW x, NEW v
  PROVE  Upd(f, x, v)[x] = v
BY DEF Upd

\* ... and leaves the other keys as they were.
LEMMA UpdOld ==
  ASSUME NEW f, NEW x, NEW v, NEW y \in DOMAIN f, y # x
  PROVE  Upd(f, x, v)[y] = f[y]
BY DEF Upd

\* Inserting a value of the map's range keeps the range.
LEMMA UpdType ==
  ASSUME NEW T, NEW f, f \in [DOMAIN f -> T], NEW x, NEW v \in T
  PROVE  Upd(f, x, v) \in [DOMAIN Upd(f, x, v) -> T]
BY DEF Upd

\* The same for a map with a known domain.
LEMMA UpdMap ==
  ASSUME NEW T, NEW D, NEW f \in [D -> T], NEW x, NEW v \in T
  PROVE  Upd(f, x, v) \in [D \cup {x} -> T]
BY DEF Upd

\* Removing from a map removes the key ...
LEMMA WithoutDomain ==
  ASSUME NEW f, NEW x
  PROVE  DOMAIN Without(f, x) = DOMAIN f \ {x}
BY DEF Without

\* ... leaves the other keys as they were ...
LEMMA WithoutOther ==
  ASSUME NEW f, NEW x, NEW y \in DOMAIN f, y # x
  PROVE  Without(f, x)[y] = f[y]
BY DEF Without

\* ... and keeps the range.
LEMMA WithoutType ==
  ASSUME NEW T, NEW f, f \in [DOMAIN f -> T], NEW x
  PROVE  Without(f, x) \in [DOMAIN Without(f, x) -> T]
BY DEF Without

(* Lemmas about data files, statistics and the cache *)

\* LogWriter::append turns a data file into a data file.
LEMMA AppendEntryType ==
  ASSUME NEW file \in DataFiles, NEW key \in Keys, NEW val \in Values \cup {NoValue},
         NEW len \in Nat \ {0}
  PROVE  AppendEntry(file, key, val, len) \in DataFiles
BY DEF AppendEntry, DataFiles, Records

\* log::create makes a data file.
LEMMA EmptyFileType == EmptyFile \in DataFiles
BY DEF EmptyFile, DataFiles

\* entry(fileid).or_default() is a LogStatistics.
LEMMA StatsOfType ==
  ASSUME NEW s, s \in [DOMAIN s -> LogStats], NEW f
  PROVE  StatsOf(s, f) \in LogStats
BY DEF StatsOf, NoStats, LogStats

\* add_live, add_dead and overwrite turn LogStatistics into LogStatistics.
LEMMA CountType ==
  ASSUME NEW st \in LogStats, NEW n \in Nat
  PROVE  AddLive(st) \in LogStats /\ AddDead(st, n) \in LogStats /\ Overwrite(st, n) \in LogStats
<1>1. AddLive(st) \in LogStats
  BY DEF AddLive, LogStats
<1>2. AddDead(st, n) \in LogStats
  BY DEF AddDead, LogStats
<1>3. Overwrite(st, n) \in LogStats
  BY DEF Overwrite, LogStats
<1> QED BY <1>1, <1>2, <1>3

\* The statistics keep their type when a key's entry is superseded.
LEMMA SupersededType ==
  ASSUME TypeOK, NEW k
  PROVE  /\ Superseded(k) \in [DOMAIN Superseded(k) -> LogStats]
         /\ DOMAIN Superseded(k) \subseteq
              DOMAIN stats \cup {keydir[j].fileid : j \in DOMAIN keydir}
<1>1. CASE k \in DOMAIN keydir
  <2>1. keydir[k] \in Entries
    BY <1>1 DEF TypeOK
  <2>2. keydir[k].len \in Nat
    BY <2>1 DEF Entries
  <2>3. Overwrite(StatsOf(stats, keydir[k].fileid), keydir[k].len) \in LogStats
    BY <2>2, StatsOfType, CountType DEF TypeOK
  <2>4. stats \in [DOMAIN stats -> LogStats]
    BY DEF TypeOK
  <2>5. Superseded(k) = Upd(stats, keydir[k].fileid,
                              Overwrite(StatsOf(stats, keydir[k].fileid), keydir[k].len))
    BY <1>1 DEF Superseded, SupersedeIn
  <2>6. DOMAIN Superseded(k) = DOMAIN stats \cup {keydir[k].fileid}
    BY <2>5, UpdDomain
  <2>7. Superseded(k) \in [DOMAIN Superseded(k) -> LogStats]
    BY <2>3, <2>4, <2>5, UpdType
  <2> QED BY <1>1, <2>6, <2>7
<1>2. CASE k \notin DOMAIN keydir
  BY <1>2 DEF TypeOK, Superseded
<1> QED BY <1>1, <1>2

\* LruCache::get_mut and put keep a LogDir within its capacity.
LEMMA TouchType ==
  ASSUME NEW S, NEW c \in Seq(S), NEW f \in S, NEW n \in Nat \ {0}, Len(c) <= n
  PROVE  Touch(c, f, n) \in Seq(S) /\ Len(Touch(c, f, n)) <= n
<1>1. CASE Cached(c, f)
  <2> DEFINE i == CHOOSE j \in 1..Len(c) : c[j] = f
             d == [j \in 1..Len(c) |-> IF j < i THEN c[j]
                                       ELSE IF j < Len(c) THEN c[j + 1] ELSE f]
  <2>1. \A j \in 1..Len(c) : c[j] \in S
    OBVIOUS
  <2>2. \A j \in 1..Len(c) : d[j] \in S
    <3> SUFFICES ASSUME NEW j \in 1..Len(c) PROVE d[j] \in S
      OBVIOUS
    <3>1. j < Len(c) => j + 1 \in 1..Len(c)
      OBVIOUS
    <3> QED BY <3>1, <2>1
  <2>3. Len(c) \in Nat /\ d \in [1..Len(c) -> S]
    BY <2>2
  <2> HIDE DEF d
  <2>4. d \in Seq(S) /\ Len(d) = Len(c)
    BY <2>3
  <2> QED BY <1>1, <2>4 DEF Touch, d
<1>2. CASE ~Cached(c, f)
  BY <1>2 DEF Touch
<1> QED BY <1>1, <1>2

-----------------------------------------------------------------------------
(* The invariant in two parts.  CoreInv is what the writer, the merge and the
   file ids need of each other; it survives a reopening from wrong hints, so
   that the proofs about recovery use it by itself.  PlaceInv adds that entries
   are where they are said to be. *)

CoreIndex ==
  \A t \in Threads : pc[t] = "index" /\ req[t].op = "set" =>
    ent[t].fileid \in files /\ ent[t] \in Entries

CoreMerge ==
  IF mpc = "merge"
  THEN /\ mid \in files /\ mid \in DOMAIN hint /\ active < mid
       /\ mpos = data[mid].size
       /\ \A f \in mfiles : f <= active
       /\ mtodo \subseteq DOMAIN keydir
       /\ \A k \in DOMAIN keydir : keydir[k].fileid \in mfiles => k \in mtodo \cup DOMAIN mnew
       /\ \A k \in DOMAIN mnew : mnew[k].fileid \in files /\ active < mnew[k].fileid
  ELSE mfiles = {} /\ mtodo = {} /\ DOMAIN mnew = {}

CoreKeydir == \A k \in DOMAIN keydir : keydir[k].fileid \in files

CoreInv == TypeOK /\ LogInv /\ LockInv /\ FileInv /\ CoreIndex /\ CoreMerge /\ CoreKeydir

PlaceInv ==
  /\ \A k \in DOMAIN keydir : Locates(data, keydir[k], k)
  /\ \A t \in Threads : pc[t] = "index" /\ req[t].op = "set" => Locates(data, ent[t], req[t].key)
  /\ \A k \in DOMAIN mnew : Locates(data, mnew[k], k)

\* Together they are the inductive invariant.
LEMMA InvParts == IndInv <=> CoreInv /\ PlaceInv
<1>1. ASSUME IndInv, NEW t \in Threads, pc[t] = "index", req[t].op = "set"
      PROVE  ent[t] \in Entries
  <2>1. Locates(data, ent[t], req[t].key) /\ ent[t] \in Entries \cup {NoEnt}
    BY <1>1 DEF IndInv, IndexInv, TypeOK
  <2>2. \A f \in DOMAIN data : \A rec \in data[f].recs : rec.len # 0
    BY <1>1 DEF IndInv, TypeOK, DataFiles, Records
  <2> QED BY <2>1, <2>2 DEF Locates, NoEnt
<1>2. IndInv => CoreInv /\ PlaceInv
  BY <1>1 DEF IndInv, CoreInv, PlaceInv, IndexInv, CoreIndex, MergeInv, CoreMerge,
              KeydirValid, CoreKeydir
<1>3. CoreInv /\ PlaceInv => IndInv
  BY DEF IndInv, CoreInv, PlaceInv, IndexInv, CoreIndex, MergeInv, CoreMerge,
         KeydirValid, CoreKeydir
<1> QED BY <1>2, <1>3

-----------------------------------------------------------------------------
(* Steps that change neither the files, nor the KeyDir, nor the statistics *)

\* What such steps leave alone.
QuietVars == <<data, files, hint, keydir, stats, active, lock, mfiles, mtodo, mid, mpos, mnew>>

\* A step that leaves the directory, the KeyDir, the writer and the merge alone
\* and in which no thread begins to index keeps the invariant.
LEMMA QuietStep ==
  ASSUME CoreInv, TypeOK', UNCHANGED QuietVars,
         mpc' = "merge" <=> mpc = "merge",
         \A t \in Threads : pc'[t] = "index" =>
           pc[t] = "index" /\ req'[t] = req[t] /\ ent'[t] = ent[t],
         \A t \in Threads : pc'[t] = "read" => rdr'[t] \in Readers
  PROVE  CoreInv'
<1>1. LogInv'
  BY DEF CoreInv, LogInv, QuietVars
<1>2. LockInv'
  BY DEF CoreInv, LockInv, QuietVars
<1>3. FileInv'
  BY DEF CoreInv, FileInv, QuietVars
<1>4. CoreIndex'
  BY DEF CoreInv, CoreIndex, QuietVars
<1>5. CoreMerge'
  BY DEF CoreInv, CoreMerge, QuietVars
<1>6. CoreKeydir'
  BY DEF CoreInv, CoreKeydir, QuietVars
<1> QED BY <1>1, <1>2, <1>3, <1>4, <1>5, <1>6 DEF CoreInv

\* A call's entry check (put, delete and get of Handle) keeps the invariant.
LEMMA CallStep ==
  ASSUME CoreInv, NEW t \in Threads, NEW r \in Requests, Call(t, r)
  PROVE  CoreInv'
<1> USE DEF Call, disk, ctx, writer, rds, merge
<1>1. "closed" \in Results
  BY DEF Results, Errors
<1>2. TypeOK'
  BY <1>1 DEF CoreInv, TypeOK
<1>3. UNCHANGED QuietVars /\ mpc' = mpc /\ rdr' = rdr
  BY DEF QuietVars
<1>4. ASSUME NEW u \in Threads
      PROVE  /\ pc'[u] = "index" => pc[u] = "index" /\ req'[u] = req[u] /\ ent'[u] = ent[u]
             /\ pc'[u] = "read" => pc[u] = "read"
  BY DEF CoreInv, TypeOK
<1> QED BY <1>2, <1>3, <1>4, QuietStep DEF CoreInv, LockInv

\* A call's return keeps the invariant.
LEMMA ReturnStep ==
  ASSUME CoreInv, NEW t \in Threads, Return(t)
  PROVE  CoreInv'
<1> USE DEF Return, disk, ctx, writer, rds, merge, bounds
<1>1. "none" \in Results
  BY DEF Results
<1>2. TypeOK'
  BY <1>1 DEF CoreInv, TypeOK
<1>3. UNCHANGED QuietVars /\ mpc' = mpc /\ rdr' = rdr
  BY DEF QuietVars
<1>4. ASSUME NEW u \in Threads
      PROVE  /\ pc'[u] = "index" => pc[u] = "index" /\ req'[u] = req[u] /\ ent'[u] = ent[u]
             /\ pc'[u] = "read" => pc[u] = "read"
  BY DEF CoreInv, TypeOK
<1> QED BY <1>2, <1>3, <1>4, QuietStep DEF CoreInv, LockInv

\* Taking a Reader and looking the key up (Reader::get) keeps the invariant.
LEMMA GetLookupStep ==
  ASSUME CoreInv, NEW t \in Threads, GetLookup(t)
  PROVE  CoreInv'
<1> USE DEF GetLookup, disk, ctx, writer, merge, bounds
<1>1. /\ pool \in Seq(Readers) /\ pool # <<>>
  BY DEF CoreInv, TypeOK
<1>2. Head(pool) \in Readers /\ Tail(pool) \in Seq(Readers)
  BY <1>1
<1>3. pool' \in Seq(Readers) /\ rdr' \in [Threads -> Readers \cup {0}]
  <2>1. PopReader \in Seq(Readers) /\ PushReader(PopReader, Head(pool)) \in Seq(Readers)
    BY <1>2 DEF PopReader, PushReader
  <2>2. pool' \in Seq(Readers)
    BY <2>1
  <2>3. rdr' \in [Threads -> Readers \cup {0}]
    BY <1>2 DEF CoreInv, TypeOK
  <2> QED BY <2>2, <2>3
<1>4. NoValue \in Results
  BY DEF Results
<1>5. ent' \in [Threads -> Entries \cup {NoEnt}] /\ res' \in [Threads -> Results]
  BY <1>4 DEF CoreInv, TypeOK
<1>6. TypeOK'
  BY <1>3, <1>5 DEF CoreInv, TypeOK
<1>7. UNCHANGED QuietVars /\ mpc' = mpc
  BY DEF QuietVars
<1>8. ASSUME NEW u \in Threads
      PROVE  /\ pc'[u] = "index" => pc[u] = "index" /\ req'[u] = req[u] /\ ent'[u] = ent[u]
             /\ pc'[u] = "read" => rdr'[u] \in Readers
  BY <1>2 DEF CoreInv, TypeOK, LockInv
<1> QED BY <1>6, <1>7, <1>8, QuietStep

\* What reading an entry can yield.
LEMMA ReadResultType ==
  ASSUME CoreInv, NEW r \in Readers, NEW e
  PROVE  /\ ReadResult(cache[r], e) \in Results
         /\ Reachable(cache[r], e.fileid) => e.fileid \in DOMAIN data
<1>1. Reachable(cache[r], e.fileid) => e.fileid \in DOMAIN data
  <2>1. cache[r] \in Seq(DOMAIN data) /\ files \subseteq DOMAIN data
    BY DEF CoreInv, TypeOK
  <2> QED BY <2>1 DEF Reachable, Cached
<1>2. CASE Reachable(cache[r], e.fileid)
  <2> DEFINE file == data[e.fileid]
             found == EntriesAt(file, e.pos, e.len)
  <2>1. file \in DataFiles
    BY <1>1, <1>2 DEF CoreInv, TypeOK
  <2>2. found \subseteq Records
    BY <2>1 DEF EntriesAt, DataFiles
  <2>3. \A rec \in Records : rec.val \in Results
    BY DEF Records, Results
  <2>4. found # {} => (CHOOSE rec \in found : TRUE) \in found
    OBVIOUS
  <2>5. ReadAt(file, e.pos, e.len) \in Results
    BY <2>2, <2>3, <2>4 DEF ReadAt, Results, Errors
  <2> QED BY <1>1, <1>2, <2>5 DEF ReadResult
<1>3. CASE ~Reachable(cache[r], e.fileid)
  BY <1>3 DEF ReadResult, Results, Errors
<1> QED BY <1>1, <1>2, <1>3

\* LogDir::read and the Reader's return to the queue keep the invariant.
LEMMA GetReadStep ==
  ASSUME CoreInv, NEW t \in Threads, GetRead(t)
  PROVE  CoreInv'
<1> USE DEF GetRead, disk, ctx, writer, merge, bounds
<1> DEFINE c == cache[rdr[t]]
           f == ent[t].fileid
<1>1. rdr[t] \in Readers
  BY DEF CoreInv, LockInv
<1>2. c \in Seq(DOMAIN data) /\ Len(c) <= CacheSize
  BY <1>1 DEF CoreInv, TypeOK
<1>0. PICK out \in Results :
        /\ cache' = [cache EXCEPT ![rdr[t]] =
                       IF Reachable(c, f) /\ out # "panic" THEN Touch(c, f, CacheSize) ELSE @]
        /\ pool' = IF out = "panic" THEN pool ELSE PushReader(pool, rdr[t])
        /\ res' = [res EXCEPT ![t] = out]
  <2>1. ReadResult(c, ent[t]) \in Results /\ "panic" \in Results
    BY <1>1, ReadResultType DEF Results, Errors
  <2> QED
    BY <2>1
<1>3. res' \in [Threads -> Results]
  BY <1>0 DEF CoreInv, TypeOK
<1>4. Reachable(c, f) => f \in DOMAIN data
  BY <1>1, ReadResultType
<1>5. Reachable(c, f) => /\ Touch(c, f, CacheSize) \in Seq(DOMAIN data)
                         /\ Len(Touch(c, f, CacheSize)) <= CacheSize
  BY <1>2, <1>4, TouchType, CacheSizeAssumption
<1>6. cache' \in [Readers -> Seq(DOMAIN data)] /\ \A r \in Readers : Len(cache'[r]) <= CacheSize
  BY <1>0, <1>1, <1>2, <1>5 DEF CoreInv, TypeOK
<1>7. pool' \in Seq(Readers)
  BY <1>0, <1>1 DEF CoreInv, TypeOK, PushReader
<1>8. rdr' \in [Threads -> Readers \cup {0}] /\ pc' = [pc EXCEPT ![t] = "ret"]
  BY DEF CoreInv, TypeOK
<1>9. UNCHANGED QuietVars /\ mpc' = mpc
      /\ UNCHANGED <<synced, closed, written, req, ent, spc, nwrites, nmerges>>
  BY DEF QuietVars
<1>10. TypeOK'
  BY <1>3, <1>6, <1>7, <1>8, <1>9 DEF CoreInv, TypeOK, QuietVars
<1>11. ASSUME NEW u \in Threads
       PROVE  /\ pc'[u] = "index" => pc[u] = "index" /\ req'[u] = req[u] /\ ent'[u] = ent[u]
              /\ pc'[u] = "read" => rdr'[u] \in Readers
  BY DEF CoreInv, TypeOK, LockInv
<1> QED BY <1>9, <1>10, <1>11, QuietStep

\* Close and the background tasks' steps that do not merge.
LEMMA TaskStep ==
  ASSUME CoreInv, Close \/ MergeTick \/ MergeSkip \/ MergeStop \/ SyncTick \/ SyncStop
  PROVE  CoreInv'
<1> USE DEF Close, MergeTick, MergeSkip, MergeStop, SyncTick, SyncStop,
            disk, ctx, writer, rds, calls, merge, bounds
<1>1. UNCHANGED QuietVars /\ UNCHANGED <<synced, written, pc, req, ent, rdr, res, pool, cache>>
  BY DEF QuietVars
<1>2. mpc' \in {"sleep", "wait", "merge", "stopped"} /\ (mpc' = "merge" <=> mpc = "merge")
  BY DEF CoreInv, TypeOK
<1>3. spc' \in {"sleep", "wait", "stopped"} /\ closed' \in BOOLEAN
      /\ UNCHANGED <<nwrites, nmerges>>
  BY DEF CoreInv, TypeOK
<1>4. TypeOK'
  BY <1>1, <1>2, <1>3 DEF CoreInv, TypeOK, QuietVars
<1> QED BY <1>1, <1>2, <1>4, QuietStep DEF CoreInv, LockInv

\* Writer::sync keeps the invariant.
LEMMA SyncActiveStep ==
  ASSUME CoreInv, SyncActive
  PROVE  CoreInv'
<1> USE DEF SyncActive, ctx, writer, rds, calls, merge, bounds
<1>1. active \in DOMAIN data /\ data[active].size \in Nat
  BY DEF CoreInv, FileInv, TypeOK, DataFiles
<1>2. synced' \in [DOMAIN data -> Nat]
  <2>1. synced \in [DOMAIN data -> Nat]
    BY DEF CoreInv, TypeOK
  <2>2. synced' \in [DOMAIN data \cup {active} -> Nat]
    BY <1>1, <2>1, UpdMap
  <2> QED BY <1>1, <2>2
<1>3. TypeOK'
  BY <1>2 DEF CoreInv, TypeOK
<1>4. UNCHANGED QuietVars /\ UNCHANGED <<mpc, pc, req, ent, rdr>>
  BY DEF QuietVars
<1> QED BY <1>3, <1>4, QuietStep DEF CoreInv, LockInv

-----------------------------------------------------------------------------
(* How the data files change *)

\* Every file keeps the entries it has.
Grows(d, e) == \A f \in DOMAIN d : f \in DOMAIN e /\ d[f].recs \subseteq e[f].recs

\* An entry that is located stays located while files only grow.
LEMMA LocatesGrows ==
  ASSUME NEW d, NEW d2, Grows(d, d2), NEW e, NEW k, Locates(d, e, k)
  PROVE  Locates(d2, e, k)
BY DEF Grows, Locates

\* log::create of a new id grows the data files and keeps them well formed.
LEMMA CreateFile ==
  ASSUME NEW d, d \in [DOMAIN d -> DataFiles], \A f \in DOMAIN d : WellFormed(d[f]),
         NEW b, b \notin DOMAIN d
  PROVE  LET d2 == Upd(d, b, EmptyFile)
         IN  /\ DOMAIN d2 = DOMAIN d \cup {b}
             /\ d2 \in [DOMAIN d2 -> DataFiles]
             /\ \A f \in DOMAIN d2 : WellFormed(d2[f])
             /\ Grows(d, d2)
             /\ d2[b].size = 0
             /\ \A f \in DOMAIN d : d2[f] = d[f]
<1> DEFINE d2 == Upd(d, b, EmptyFile)
<1>1. DOMAIN d2 = DOMAIN d \cup {b}
  BY UpdDomain
<1>2. d2[b] = EmptyFile /\ \A f \in DOMAIN d : d2[f] = d[f]
  BY UpdNew, UpdOld
<1>3. d2 \in [DOMAIN d2 -> DataFiles]
  BY EmptyFileType, UpdType
<1>4. WellFormed(EmptyFile)
  BY DEF WellFormed, EmptyFile
<1>5. \A f \in DOMAIN d2 : WellFormed(d2[f])
  BY <1>1, <1>2, <1>4
<1>6. Grows(d, d2)
  BY <1>1, <1>2 DEF Grows
<1>7. d2[b].size = 0
  BY <1>2 DEF EmptyFile
<1> QED BY <1>1, <1>2, <1>3, <1>5, <1>6, <1>7

\* LogWriter::append to a file grows the data files, keeps them well formed and
\* stores the entry at the old end of the file.
LEMMA AppendFile ==
  ASSUME NEW d, d \in [DOMAIN d -> DataFiles], \A f \in DOMAIN d : WellFormed(d[f]),
         NEW a \in DOMAIN d, NEW k \in Keys, NEW v \in Values \cup {NoValue},
         NEW n \in Nat \ {0}
  PROVE  LET d2 == Upd(d, a, AppendEntry(d[a], k, v, n))
         IN  /\ DOMAIN d2 = DOMAIN d
             /\ d2 \in [DOMAIN d2 -> DataFiles]
             /\ \A f \in DOMAIN d2 : WellFormed(d2[f])
             /\ Grows(d, d2)
             /\ d2[a].size = d[a].size + n
             /\ [pos |-> d[a].size, len |-> n, key |-> k, val |-> v] \in d2[a].recs
<1> DEFINE file == d[a]
           new  == [pos |-> file.size, len |-> n, key |-> k, val |-> v]
           file2 == AppendEntry(d[a], k, v, n)
           d2 == Upd(d, a, file2)
<1>1. DOMAIN d2 = DOMAIN d
  <2>1. DOMAIN d2 = DOMAIN d \cup {a}
    BY UpdDomain
  <2> QED BY <2>1
<1>2. d2[a] = file2 /\ \A f \in DOMAIN d : f # a => d2[f] = d[f]
  BY UpdNew, UpdOld
<1>3. file \in DataFiles /\ WellFormed(file)
  OBVIOUS
<1>4. file2 \in DataFiles
  BY <1>3, AppendEntryType
<1>5. d2 \in [DOMAIN d2 -> DataFiles]
  BY <1>4, UpdType
<1>6. file2.size = file.size + n /\ file2.recs = file.recs \cup {new}
  BY DEF AppendEntry
<1>7. WellFormed(file2)
  <2>0. file.size \in Nat /\ \A rec \in file.recs : rec.pos \in Nat /\ rec.len \in Nat \ {0}
    BY <1>3 DEF DataFiles, Records
  <2>1. \A rec \in file.recs : rec.pos < file.size /\ rec.pos + rec.len <= file2.size
    BY <1>3, <1>6, <2>0 DEF WellFormed
  <2>2. new.pos = file.size /\ new.len = n
    OBVIOUS
  <2>3. \A rec \in file2.recs : rec.pos + rec.len <= file2.size
    BY <1>6, <2>0, <2>1, <2>2
  <2>4. \A r1, r2 \in file2.recs : r1.pos = r2.pos => r1 = r2
    <3> SUFFICES ASSUME NEW r1 \in file2.recs, NEW r2 \in file2.recs, r1.pos = r2.pos
                 PROVE  r1 = r2
      OBVIOUS
    <3>1. CASE r1 \in file.recs /\ r2 \in file.recs
      BY <3>1, <1>3 DEF WellFormed
    <3>2. CASE r1 = new /\ r2 \in file.recs
      BY <3>2, <2>0, <2>1, <2>2
    <3>3. CASE r1 \in file.recs /\ r2 = new
      BY <3>3, <2>0, <2>1, <2>2
    <3> QED BY <3>1, <3>2, <3>3, <1>6
  <2> QED BY <2>3, <2>4 DEF WellFormed
<1>8. \A f \in DOMAIN d2 : WellFormed(d2[f])
  BY <1>1, <1>2, <1>7
<1>9. Grows(d, d2)
  BY <1>1, <1>2, <1>6 DEF Grows
<1>10. d2[a].size = d[a].size + n /\ new \in d2[a].recs
  BY <1>2, <1>6
<1> QED BY <1>1, <1>5, <1>8, <1>9, <1>10

\* A sequence over a set is one over each larger set.
LEMMA SeqMonotone ==
  ASSUME NEW S, NEW T, S \subseteq T, NEW c \in Seq(S)
  PROVE  c \in Seq(T)
OBVIOUS

\* When files only grow in number, what is known of the cached files and of
\* the KeyDir's entries stays true.
LEMMA GrowthKeeps ==
  ASSUME CoreInv, Grows(data, data'), cache' = cache
  PROVE  /\ DOMAIN data \subseteq DOMAIN data'
         /\ cache' \in [Readers -> Seq(DOMAIN data')]
         /\ \A r \in Readers : Len(cache'[r]) <= CacheSize
<1>1. DOMAIN data \subseteq DOMAIN data'
  BY DEF Grows
<1>2. cache \in [Readers -> Seq(DOMAIN data)] /\ \A r \in Readers : Len(cache[r]) <= CacheSize
  BY DEF CoreInv, TypeOK
<1>3. \A r \in Readers : cache[r] \in Seq(DOMAIN data')
  BY <1>1, <1>2, SeqMonotone
<1> QED BY <1>1, <1>2, <1>3

\* The KeyDir stays valid while the directory only grows.
LEMMA KeydirGrows ==
  ASSUME KeydirValid, Grows(data, data'), files \subseteq files', keydir' = keydir
  PROVE  KeydirValid'
<1> SUFFICES ASSUME NEW k \in DOMAIN keydir
             PROVE  keydir[k].fileid \in files' /\ Locates(data', keydir[k], k)
  BY DEF KeydirValid
<1>1. keydir[k].fileid \in files /\ Locates(data, keydir[k], k)
  BY DEF KeydirValid
<1> QED BY <1>1, LocatesGrows

-----------------------------------------------------------------------------
(* Steps of a set or del *)

\* Writer::write, with or without a rotation, keeps the invariant.
LEMMA WriteStep ==
  ASSUME CoreInv, NEW t \in Threads, Write(t)
  PROVE  CoreInv'
<1> USE DEF rds, merge, bounds, ctx
<1> DEFINE k == req[t].key
           v == req[t].val
           n == EntryLen[v]
           b == active + 1
           full == Exceeds(n)
           st == StatsOf(stats, active)
<1>1. /\ k \in Keys /\ v \in Values \cup {NoValue} /\ n \in Nat \ {0}
      /\ req[t].op = "set" => v \in Values
  BY EntryLenAssumption DEF Write, CoreInv, TypeOK, Requests, NoReq
<1>2. /\ mpc # "merge" /\ \A u \in Threads : pc[u] # "index"
      /\ lock = "none" /\ pc[t] = "wait"
  BY ThreadsAssumption DEF Write, CoreInv, LockInv
<1>3. /\ data \in [DOMAIN data -> DataFiles] /\ \A f \in DOMAIN data : WellFormed(data[f])
      /\ active \in DOMAIN data /\ active \in files /\ active \in Nat
      /\ \A f \in DOMAIN data : f \in Nat /\ f <= active
      /\ files \subseteq DOMAIN data
  BY <1>2 DEF CoreInv, TypeOK, LogInv, FileInv
<1>4. b \in Nat /\ b \notin DOMAIN data
  BY <1>3
<1>6. /\ DOMAIN data' = IF full THEN DOMAIN data \cup {b} ELSE DOMAIN data
      /\ data' \in [DOMAIN data' -> DataFiles]
      /\ \A f \in DOMAIN data' : WellFormed(data'[f])
      /\ Grows(data, data')
  <2> DEFINE d2  == Upd(data, active, AppendEntry(data[active], k, v, n))
  <2>1. data' = IF full THEN Upd(d2, b, EmptyFile) ELSE d2
    BY DEF Write, NextFileid
  <2> HIDE DEF k, v, n, b, full
  <2>2. /\ DOMAIN d2 = DOMAIN data
        /\ d2 \in [DOMAIN d2 -> DataFiles]
        /\ \A f \in DOMAIN d2 : WellFormed(d2[f])
        /\ Grows(data, d2)
        /\ [pos |-> data[active].size, len |-> n, key |-> k, val |-> v] \in d2[active].recs
    BY <1>1, <1>3, AppendFile
  <2> HIDE DEF d2
  <2>3. LET d3 == Upd(d2, b, EmptyFile)
        IN  /\ DOMAIN d3 = DOMAIN d2 \cup {b}
            /\ d3 \in [DOMAIN d3 -> DataFiles]
            /\ \A f \in DOMAIN d3 : WellFormed(d3[f])
            /\ Grows(d2, d3)
    BY <1>4, <2>2, CreateFile
  <2>4. CASE full
    <3>1. Grows(data, data')
      BY <2>1, <2>2, <2>3, <2>4 DEF Grows
    <3> QED BY <2>1, <2>2, <2>3, <2>4, <3>1
  <2>5. CASE ~full
    BY <2>1, <2>2, <2>5
  <2> QED BY <2>4, <2>5
<1>7. /\ files' = IF full THEN files \cup {b} ELSE files
      /\ active' = IF full THEN b ELSE active
      /\ written' = IF full THEN 0 ELSE written + n
      /\ lock' = t /\ pc' = [pc EXCEPT ![t] = "index"]
      /\ ent' = [ent EXCEPT ![t] = [fileid |-> active, pos |-> data[active].size, len |-> n]]
      /\ UNCHANGED <<hint, keydir, closed, pool, cache, req, rdr, res, spc, nwrites, nmerges>>
      /\ UNCHANGED <<mpc, mfiles, mtodo, mid, mpos, mnew>>
  BY DEF Write, NextFileid, EntryIndex
<1> HIDE DEF full
<1>8. TypeOK'
  <2>1. synced' \in [DOMAIN data' -> Nat]
    <3> DEFINE s1 == SyncAfterWrite(AppendEntry(data[active], k, v, n).size)
    <3>1. AppendEntry(data[active], k, v, n).size \in Nat
      BY <1>1, <1>3, AppendEntryType DEF DataFiles
    <3>2. synced \in [DOMAIN data -> Nat]
      BY DEF CoreInv, TypeOK
    <3>3. s1 \in [DOMAIN data -> Nat]
      <4>1. Upd(synced, active, AppendEntry(data[active], k, v, n).size)
              \in [DOMAIN data \cup {active} -> Nat]
        BY <3>1, <3>2, UpdMap
      <4>2. DOMAIN data \cup {active} = DOMAIN data
        BY <1>3
      <4> QED BY <4>1, <4>2, <3>2 DEF SyncAfterWrite
    <3>4. Upd(s1, b, 0) \in [DOMAIN data \cup {b} -> Nat]
      BY <3>3, UpdMap
    <3>5. synced' = IF full THEN Upd(s1, b, 0) ELSE s1
      BY DEF Write, NextFileid, full
    <3> QED BY <1>6, <3>3, <3>4, <3>5
  <2>2. stats' \in [DOMAIN stats' -> LogStats]
    <3>1. st \in LogStats /\ stats \in [DOMAIN stats -> LogStats]
      BY StatsOfType DEF CoreInv, TypeOK
    <3>2. (IF v = NoValue THEN AddDead(st, n) ELSE AddLive(st)) \in LogStats
      BY <1>1, <3>1, CountType
    <3> QED BY <3>1, <3>2, UpdType DEF Write
  <2>3. files' \subseteq DOMAIN data' /\ DOMAIN data' \subseteq Nat
    BY <1>3, <1>4, <1>6, <1>7
  <2>4. /\ active' \in Nat /\ written' \in Nat /\ lock' \in Threads
        /\ pc' \in [Threads -> {"idle", "wait", "index", "read", "ret"}]
    BY <1>1, <1>3, <1>4, <1>7 DEF CoreInv, TypeOK
  <2>5. ent' \in [Threads -> Entries \cup {NoEnt}]
    <3>1. data[active].size \in Nat
      BY <1>3 DEF DataFiles
    <3>2. [fileid |-> active, pos |-> data[active].size, len |-> n] \in Entries
      BY <1>1, <1>3, <3>1 DEF Entries
    <3> QED BY <1>7, <3>2 DEF CoreInv, TypeOK
  <2>6. /\ cache' \in [Readers -> Seq(DOMAIN data')]
        /\ \A r \in Readers : Len(cache'[r]) <= CacheSize
    BY <1>6, <1>7, GrowthKeeps
  <2> QED BY <1>6, <1>7, <2>1, <2>2, <2>3, <2>4, <2>5, <2>6 DEF CoreInv, TypeOK
<1>9. LogInv'
  BY <1>6 DEF LogInv
<1>10. LockInv'
  BY <1>2, <1>7, ThreadsAssumption DEF Write, CoreInv, TypeOK, LockInv
<1>11. FileInv'
  <2>1. DOMAIN stats' = DOMAIN stats \cup {active}
    BY UpdDomain DEF Write
  <2> QED BY <1>2, <1>3, <1>4, <1>6, <1>7, <2>1 DEF CoreInv, FileInv
<1>12. CoreIndex'
  <2> SUFFICES ASSUME NEW u \in Threads, pc'[u] = "index", req'[u].op = "set"
               PROVE  ent'[u].fileid \in files' /\ ent'[u] \in Entries
    BY DEF CoreIndex
  <2>1. u = t
    BY <1>2, <1>7 DEF CoreInv, TypeOK
  <2>2. ent'[t] = [fileid |-> active, pos |-> data[active].size, len |-> n]
    BY <1>7 DEF CoreInv, TypeOK
  <2>3. ent'[t] \in Entries
    BY <1>1, <1>3, <2>2 DEF Entries, DataFiles
  <2> QED BY <1>3, <1>7, <2>1, <2>2, <2>3
<1>13. CoreMerge'
  BY <1>2, <1>7 DEF CoreInv, CoreMerge
<1>14. CoreKeydir'
  BY <1>7 DEF CoreInv, CoreKeydir
<1> QED BY <1>8, <1>9, <1>10, <1>11, <1>12, <1>13, <1>14 DEF CoreInv

\* The KeyDir and the statistics after a set or del is indexed.
LEMMA IndexStep ==
  ASSUME CoreInv, NEW t \in Threads, KeydirSet(t) \/ KeydirRemove(t)
  PROVE  CoreInv'
<1> USE DEF KeydirSet, KeydirRemove, disk, rds, merge, bounds
<1> DEFINE k == req[t].key
<1>1. /\ pc[t] = "index" /\ lock = t /\ mpc # "merge"
      /\ \A u \in Threads : u # t => pc[u] # "index"
  BY ThreadsAssumption DEF CoreInv, LockInv
<1>2. /\ stats' = Superseded(k) /\ lock' = "none" /\ pc' = [pc EXCEPT ![t] = "ret"]
      /\ UNCHANGED <<data, files, hint, synced, closed, active, written, pool, cache>>
      /\ UNCHANGED <<req, ent, rdr, mpc, mfiles, mtodo, mid, mpos, mnew, spc, nwrites, nmerges>>
  OBVIOUS
<1>3. keydir' = Upd(keydir, k, ent[t]) \/ keydir' = Without(keydir, k)
  OBVIOUS
<1>4. /\ DOMAIN keydir' \subseteq Keys
      /\ \A j \in DOMAIN keydir' : \/ j \in DOMAIN keydir /\ keydir'[j] = keydir[j]
                                   \/ j = k /\ keydir'[j] = ent[t] /\ req[t].op = "set"
  <2>1. CASE KeydirSet(t)
    <3>1. k \in Keys
      BY <2>1 DEF CoreInv, TypeOK, Requests, NoReq
    <3>2. DOMAIN keydir' = DOMAIN keydir \cup {k}
      BY <2>1, UpdDomain
    <3>3. \A j \in DOMAIN keydir' : \/ j \in DOMAIN keydir /\ keydir'[j] = keydir[j]
                                    \/ j = k /\ keydir'[j] = ent[t] /\ req[t].op = "set"
      BY <2>1, <3>2, UpdNew, UpdOld
    <3> QED BY <3>1, <3>2, <3>3 DEF CoreInv, TypeOK
  <2>2. CASE KeydirRemove(t)
    <3>1. DOMAIN keydir' = DOMAIN keydir \ {k}
      BY <2>2, WithoutDomain
    <3>2. \A j \in DOMAIN keydir' : j \in DOMAIN keydir /\ keydir'[j] = keydir[j]
      BY <2>2, <3>1, WithoutOther
    <3> QED BY <3>1, <3>2 DEF CoreInv, TypeOK
  <2> QED BY <2>1, <2>2
<1>5. CoreKeydir'
  <2> SUFFICES ASSUME NEW j \in DOMAIN keydir'
               PROVE  keydir'[j].fileid \in files
    BY <1>2 DEF CoreKeydir
  <2>1. CASE j \in DOMAIN keydir /\ keydir'[j] = keydir[j]
    BY <2>1 DEF CoreInv, CoreKeydir
  <2>2. CASE j = k /\ keydir'[j] = ent[t] /\ req[t].op = "set"
    BY <1>1, <2>2 DEF CoreInv, CoreIndex
  <2> QED BY <1>4, <2>1, <2>2
<1>6. TypeOK'
  <2>1. keydir' \in [DOMAIN keydir' -> Entries]
    <3>1. ent[t] \in Entries \cup {NoEnt} /\ keydir \in [DOMAIN keydir -> Entries]
      BY DEF CoreInv, TypeOK
    <3>2. req[t].op = "set" => ent[t] \in Entries
      BY <1>1 DEF CoreInv, CoreIndex
    <3>3. CASE KeydirSet(t)
      <4>1. ent[t] \in Entries /\ keydir' = Upd(keydir, k, ent[t])
        BY <3>2, <3>3
      <4> QED BY <4>1, <3>1, UpdType
    <3>4. CASE KeydirRemove(t)
      BY <3>4, <3>1, WithoutType
    <3> QED BY <3>3, <3>4
  <2>2. stats' \in [DOMAIN stats' -> LogStats]
    BY <1>2, SupersededType DEF CoreInv
  <2>3. res' \in [Threads -> Results]
    BY DEF CoreInv, TypeOK, Results, DelResult
  <2>4. pc' \in [Threads -> {"idle", "wait", "index", "read", "ret"}]
    BY <1>2 DEF CoreInv, TypeOK
  <2> HIDE DEF KeydirSet, KeydirRemove
  <2> QED BY <1>2, <1>4, <2>1, <2>2, <2>3, <2>4 DEF CoreInv, TypeOK
<1> HIDE DEF KeydirSet, KeydirRemove
<1>7. LogInv'
  BY <1>2 DEF CoreInv, LogInv
<1>8. LockInv'
  BY <1>1, <1>2, ThreadsAssumption DEF CoreInv, TypeOK, LockInv
<1>9. FileInv'
  <2>1. DOMAIN stats' \subseteq DOMAIN stats \cup {keydir[j].fileid : j \in DOMAIN keydir}
    BY <1>2, SupersededType DEF CoreInv
  <2>2. {keydir[j].fileid : j \in DOMAIN keydir} \subseteq DOMAIN data
    BY DEF CoreInv, CoreKeydir, TypeOK
  <2> QED BY <1>2, <2>1, <2>2 DEF CoreInv, FileInv
<1>10. CoreIndex'
  BY <1>1, <1>2 DEF CoreInv, TypeOK, CoreIndex
<1>11. CoreMerge'
  BY <1>1, <1>2 DEF CoreInv, CoreMerge
<1> QED BY <1>5, <1>6, <1>7, <1>8, <1>9, <1>10, <1>11 DEF CoreInv

-----------------------------------------------------------------------------
(* Steps of a merge *)

\* A file is created above all others: what holds of data, synced and cache.
LEMMA CreateNewest ==
  ASSUME CoreInv, NEW b \in Nat, b \notin DOMAIN data,
         data' = Upd(data, b, EmptyFile), files' = files \cup {b},
         synced' = Upd(synced, b, 0), cache' = cache
  PROVE  /\ DOMAIN data' = DOMAIN data \cup {b}
         /\ data' \in [DOMAIN data' -> DataFiles] /\ DOMAIN data' \subseteq Nat
         /\ \A f \in DOMAIN data' : WellFormed(data'[f])
         /\ Grows(data, data')
         /\ data'[b].size = 0
         /\ files' \subseteq DOMAIN data'
         /\ synced' \in [DOMAIN data' -> Nat]
         /\ cache' \in [Readers -> Seq(DOMAIN data')]
         /\ \A r \in Readers : Len(cache'[r]) <= CacheSize
<1>1. /\ data \in [DOMAIN data -> DataFiles] /\ \A f \in DOMAIN data : WellFormed(data[f])
      /\ DOMAIN data \subseteq Nat /\ files \subseteq DOMAIN data
      /\ synced \in [DOMAIN data -> Nat]
  BY DEF CoreInv, TypeOK, LogInv
<1>2. LET d2 == Upd(data, b, EmptyFile)
      IN  /\ DOMAIN d2 = DOMAIN data \cup {b}
          /\ d2 \in [DOMAIN d2 -> DataFiles]
          /\ \A f \in DOMAIN d2 : WellFormed(d2[f])
          /\ Grows(data, d2)
          /\ d2[b].size = 0
  BY <1>1, CreateFile
<1>3. /\ DOMAIN data' = DOMAIN data \cup {b}
      /\ data' \in [DOMAIN data' -> DataFiles]
      /\ \A f \in DOMAIN data' : WellFormed(data'[f])
      /\ Grows(data, data')
      /\ data'[b].size = 0
  BY <1>2
<1>4. synced' \in [DOMAIN data \cup {b} -> Nat]
  BY <1>1, UpdMap
<1>5. /\ cache' \in [Readers -> Seq(DOMAIN data')]
      /\ \A r \in Readers : Len(cache'[r]) <= CacheSize
  BY <1>3, GrowthKeeps
<1> QED BY <1>1, <1>3, <1>4, <1>5

\* The steps of a merge exclude calls that have appended and not indexed.
LEMMA MergeExcludes ==
  ASSUME CoreInv, mpc = "merge"
  PROVE  lock = "merger" /\ \A t \in Threads : pc[t] # "index"
BY ThreadsAssumption DEF CoreInv, LockInv

\* The beginning of Writer::merge keeps the invariant.
LEMMA MergeBeginStep ==
  ASSUME CoreInv, MergeBegin
  PROVE  CoreInv'
<1> USE DEF MergeBegin, NextFileid, ctx, rds, calls
<1> DEFINE b == active + 1
<1>1. /\ mpc = "wait" /\ lock = "none" /\ mpc' = "merge" /\ lock' = "merger" /\ mid' = b /\ mpos' = 0
      /\ \A u \in Threads : pc[u] # "index"
  BY ThreadsAssumption DEF CoreInv, LockInv
<1>2. /\ active \in Nat /\ \A f \in DOMAIN data : f \in Nat /\ f <= active
      /\ DOMAIN stats \subseteq DOMAIN data
  BY <1>1 DEF CoreInv, TypeOK, FileInv
<1>3. b \in Nat /\ b \notin DOMAIN data
  BY <1>2
<1>4. /\ data' = Upd(data, b, EmptyFile) /\ files' = files \cup {b}
      /\ synced' = Upd(synced, b, 0) /\ hint' = Upd(hint, b, <<>>)
      /\ UNCHANGED <<keydir, closed, stats, active, written, pool, cache, mnew, spc, nwrites>>
      /\ UNCHANGED <<pc, req, ent, rdr, res>>
      /\ nmerges' = nmerges + 1
      /\ mfiles' = FileidsToMerge
      /\ mtodo' = {k \in DOMAIN keydir : keydir[k].fileid \in FileidsToMerge}
  OBVIOUS
<1> HIDE DEF MergeBegin
<1>5. /\ DOMAIN data' = DOMAIN data \cup {b}
      /\ data' \in [DOMAIN data' -> DataFiles] /\ DOMAIN data' \subseteq Nat
      /\ \A f \in DOMAIN data' : WellFormed(data'[f])
      /\ Grows(data, data')
      /\ data'[b].size = 0
      /\ files' \subseteq DOMAIN data'
      /\ synced' \in [DOMAIN data' -> Nat]
      /\ cache' \in [Readers -> Seq(DOMAIN data')]
      /\ \A r \in Readers : Len(cache'[r]) <= CacheSize
  BY <1>3, <1>4, CreateNewest
<1>6. FileidsToMerge \subseteq DOMAIN stats
  BY DEF FileidsToMerge
<1>7. mnew = mnew /\ DOMAIN mnew = {}
  BY <1>1 DEF CoreInv, CoreMerge
<1>8. hint' \in [DOMAIN hint' -> Seq(Hints)] /\ DOMAIN hint' = DOMAIN hint \cup {b}
  <2>1. hint \in [DOMAIN hint -> Seq(Hints)] /\ <<>> \in Seq(Hints)
    BY DEF CoreInv, TypeOK
  <2> QED BY <1>4, <2>1, UpdType, UpdDomain
<1>9. TypeOK'
  <2>1. mfiles' \subseteq Nat /\ mtodo' \subseteq Keys /\ mid' \in Nat /\ mpos' \in Nat
    BY <1>1, <1>2, <1>3, <1>4, <1>6 DEF CoreInv, TypeOK
  <2> QED BY <1>1, <1>4, <1>5, <1>8, <2>1 DEF CoreInv, TypeOK
<1>10. LogInv'
  BY <1>5 DEF LogInv
<1>11. LockInv'
  BY <1>1, <1>4 DEF CoreInv, LockInv
<1>12. FileInv'
  BY <1>1, <1>2, <1>3, <1>4, <1>5, <1>8 DEF CoreInv, FileInv
<1>13. CoreIndex'
  BY <1>1, <1>4 DEF CoreIndex
<1>14. CoreMerge'
  BY <1>1, <1>2, <1>3, <1>4, <1>5, <1>6, <1>7, <1>8 DEF CoreInv, CoreMerge
<1>15. CoreKeydir'
  BY <1>4 DEF CoreInv, CoreKeydir
<1> QED BY <1>9, <1>10, <1>11, <1>12, <1>13, <1>14, <1>15 DEF CoreInv

\* The end of Writer::merge, with its new active file, keeps the invariant.
LEMMA MergeFinishStep ==
  ASSUME CoreInv, MergeFinish
  PROVE  CoreInv'
<1> USE DEF MergeFinish, Removing, ctx, rds, calls, bounds
<1> DEFINE b == mid + 1
<1>1. /\ mpc = "merge" /\ mtodo = {} /\ DOMAIN mnew = {} /\ mfiles = {}
      /\ mpc' = "sleep" /\ lock' = "none" /\ active' = b /\ mid' = 0 /\ mpos' = 0 /\ written' = 0
  OBVIOUS
<1>2. lock = "merger" /\ \A t \in Threads : pc[t] # "index"
  BY <1>1, MergeExcludes
<1>3. mid \in Nat /\ \A f \in DOMAIN data : f \in Nat /\ f <= mid
  BY <1>1 DEF CoreInv, TypeOK, FileInv
<1>4. b \in Nat /\ b \notin DOMAIN data
  BY <1>3
<1>5. /\ data' = Upd(data, b, EmptyFile) /\ files' = files \cup {b}
      /\ synced' = Upd(synced, b, 0)
      /\ UNCHANGED <<hint, keydir, closed, stats, pool, cache, mfiles, mtodo, mnew, spc>>
      /\ UNCHANGED <<pc, req, ent, rdr, res, nwrites, nmerges>>
  OBVIOUS
<1> HIDE DEF MergeFinish
<1>6. /\ DOMAIN data' = DOMAIN data \cup {b}
      /\ data' \in [DOMAIN data' -> DataFiles] /\ DOMAIN data' \subseteq Nat
      /\ \A f \in DOMAIN data' : WellFormed(data'[f])
      /\ Grows(data, data')
      /\ files' \subseteq DOMAIN data'
      /\ synced' \in [DOMAIN data' -> Nat]
      /\ cache' \in [Readers -> Seq(DOMAIN data')]
      /\ \A r \in Readers : Len(cache'[r]) <= CacheSize
  BY <1>4, <1>5, CreateNewest
<1>7. TypeOK'
  BY <1>1, <1>4, <1>5, <1>6 DEF CoreInv, TypeOK
<1>8. LogInv'
  BY <1>6 DEF LogInv
<1>9. LockInv'
  BY <1>1, <1>2, <1>5 DEF CoreInv, LockInv
<1>10. FileInv'
  BY <1>1, <1>3, <1>4, <1>5, <1>6 DEF CoreInv, FileInv
<1>11. CoreIndex'
  BY <1>2, <1>5 DEF CoreIndex
<1>12. CoreMerge'
  BY <1>1, <1>5 DEF CoreMerge
<1>13. CoreKeydir'
  BY <1>5 DEF CoreInv, CoreKeydir
<1> QED BY <1>7, <1>8, <1>9, <1>10, <1>11, <1>12, <1>13 DEF CoreInv

\* Moving a key to its copy (keydir_set in Writer::merge) keeps the invariant.
LEMMA MergeKeydirSetStep ==
  ASSUME CoreInv, MergeKeydirSet
  PROVE  CoreInv'
<1> USE DEF MergeKeydirSet, disk, writer, rds, calls, bounds
<1>1. PICK k \in DOMAIN mnew : keydir' = Upd(keydir, k, mnew[k]) /\ mnew' = Without(mnew, k)
  OBVIOUS
<1>2. /\ mpc = "merge" /\ mtodo = {}
      /\ UNCHANGED <<data, files, hint, synced, closed, lock, stats, active, written, pool, cache>>
      /\ UNCHANGED <<pc, req, ent, rdr, res, mpc, mfiles, mtodo, mid, mpos, spc, nwrites, nmerges>>
  OBVIOUS
<1> HIDE DEF MergeKeydirSet
<1>3. /\ mnew[k].fileid \in files /\ active < mnew[k].fileid
      /\ mnew[k] \in Entries /\ k \in Keys
  BY <1>2 DEF CoreInv, CoreMerge, TypeOK
<1>4. /\ DOMAIN keydir' = DOMAIN keydir \cup {k} /\ keydir'[k] = mnew[k]
      /\ \A j \in DOMAIN keydir : j # k => keydir'[j] = keydir[j]
  <2>1. DOMAIN keydir' = DOMAIN keydir \cup {k}
    BY <1>1, UpdDomain
  <2>2. keydir'[k] = mnew[k]
    BY <1>1, UpdNew
  <2>3. \A j \in DOMAIN keydir : j # k => keydir'[j] = keydir[j]
    BY <1>1, UpdOld
  <2> QED BY <2>1, <2>2, <2>3
<1>5. /\ DOMAIN mnew' = DOMAIN mnew \ {k}
      /\ \A j \in DOMAIN mnew' : mnew'[j] = mnew[j]
  BY <1>1, WithoutDomain, WithoutOther
<1>6. TypeOK'
  <2>1. keydir' \in [DOMAIN keydir' -> Entries]
    BY <1>1, <1>3, UpdType DEF CoreInv, TypeOK
  <2>2. mnew' \in [DOMAIN mnew' -> Entries]
    BY <1>1, WithoutType DEF CoreInv, TypeOK
  <2> QED BY <1>2, <1>3, <1>4, <1>5, <2>1, <2>2 DEF CoreInv, TypeOK
<1>7. LogInv'
  BY <1>2 DEF CoreInv, LogInv
<1>8. LockInv'
  BY <1>2 DEF CoreInv, LockInv
<1>9. FileInv'
  BY <1>2 DEF CoreInv, FileInv
<1>10. CoreIndex'
  BY <1>2, MergeExcludes DEF CoreIndex
<1>11. CoreMerge'
  <2>1. /\ mid \in DOMAIN hint
        /\ mid \in files /\ active < mid /\ mpos = data[mid].size /\ \A f \in mfiles : f <= active
        /\ \A j \in DOMAIN keydir : keydir[j].fileid \in mfiles => j \in DOMAIN mnew
        /\ \A j \in DOMAIN mnew : /\ mnew[j].fileid \in files
                                  /\ active < mnew[j].fileid
    BY <1>2 DEF CoreInv, CoreMerge
  <2>2. mnew[k].fileid \notin mfiles
    BY <1>3, <2>1 DEF CoreInv, TypeOK, Entries
  <2>3. \A j \in DOMAIN keydir' : keydir'[j].fileid \in mfiles => j \in DOMAIN mnew'
    BY <1>4, <1>5, <2>1, <2>2
  <2> QED BY <1>2, <1>5, <2>1, <2>3 DEF CoreMerge
<1>12. CoreKeydir'
  <2> SUFFICES ASSUME NEW j \in DOMAIN keydir'
               PROVE  keydir'[j].fileid \in files
    BY <1>2 DEF CoreKeydir
  <2>1. CASE j = k
    BY <2>1, <1>3, <1>4
  <2>2. CASE j # k
    BY <2>2, <1>4 DEF CoreInv, CoreKeydir
  <2> QED BY <2>1, <2>2
<1> QED BY <1>6, <1>7, <1>8, <1>9, <1>10, <1>11, <1>12 DEF CoreInv

\* Once all keys are moved, none points into a file that is to be removed.
LEMMA NoneIntoRemoved ==
  ASSUME CoreInv, Removing
  PROVE  /\ mpc = "merge" /\ mtodo = {} /\ DOMAIN mnew = {}
         /\ \A k \in DOMAIN keydir : keydir[k].fileid \notin mfiles
         /\ mid \in files /\ mid \in DOMAIN hint /\ active < mid /\ mpos = data[mid].size
         /\ \A f \in mfiles : f <= active
BY DEF CoreInv, CoreMerge, Removing

\* Removing the hint file of a merged file keeps the invariant.
LEMMA MergeRemoveHintStep ==
  ASSUME CoreInv, MergeRemoveHint
  PROVE  CoreInv'
<1> USE DEF MergeRemoveHint, ctx, rds, calls, merge, bounds
<1>1. PICK f \in mfiles : hint' = Without(hint, f) /\ stats' = Without(stats, f)
  OBVIOUS
<1>2. /\ Removing
      /\ UNCHANGED <<data, files, synced, keydir, closed, lock, active, written, pool, cache>>
      /\ UNCHANGED <<pc, req, ent, rdr, res, mpc, mfiles, mtodo, mid, mpos, mnew, spc, nwrites, nmerges>>
  OBVIOUS
<1> HIDE DEF MergeRemoveHint
<1>3. DOMAIN hint' \subseteq DOMAIN hint /\ DOMAIN stats' \subseteq DOMAIN stats
  BY <1>1, WithoutDomain
<1>4. TypeOK'
  <2>1. hint' \in [DOMAIN hint' -> Seq(Hints)]
    BY <1>1, WithoutType DEF CoreInv, TypeOK
  <2>2. stats' \in [DOMAIN stats' -> LogStats]
    BY <1>1, WithoutType DEF CoreInv, TypeOK
  <2> QED BY <1>2, <2>1, <2>2 DEF CoreInv, TypeOK
<1>5. LogInv'
  BY <1>2 DEF CoreInv, LogInv
<1>6. LockInv'
  BY <1>2 DEF CoreInv, LockInv
<1>7. FileInv'
  BY <1>2, <1>3 DEF CoreInv, FileInv
<1>8. CoreIndex'
  BY <1>2, NoneIntoRemoved, MergeExcludes DEF CoreIndex
<1>9. CoreMerge'
  <2>1. f <= active /\ active < mid /\ mid \in DOMAIN hint /\ mid \in Nat /\ active \in Nat /\ f \in Nat
    BY <1>2, NoneIntoRemoved DEF CoreInv, TypeOK
  <2>2. mid # f
    BY <2>1
  <2>3. DOMAIN hint' = DOMAIN hint \ {f}
    BY <1>1, WithoutDomain
  <2>4. mid \in DOMAIN hint'
    BY <2>1, <2>2, <2>3
  <2> QED BY <1>2, <2>4, NoneIntoRemoved DEF CoreInv, CoreMerge
<1>10. CoreKeydir'
  BY <1>2 DEF CoreInv, CoreKeydir
<1> QED BY <1>4, <1>5, <1>6, <1>7, <1>8, <1>9, <1>10 DEF CoreInv

\* Removing a merged data file keeps the invariant: no key points into it.
LEMMA MergeRemoveDataStep ==
  ASSUME CoreInv, MergeRemoveData
  PROVE  CoreInv'
<1> USE DEF MergeRemoveData, ctx, rds, calls, bounds
<1>1. PICK f \in mfiles : /\ HintGone(f)
                          /\ files' = files \ {f}
                          /\ stats' = Without(stats, f)
                          /\ mfiles' = mfiles \ {f}
  OBVIOUS
<1>2. /\ Removing
      /\ UNCHANGED <<data, hint, synced, keydir, closed, lock, active, written, pool, cache>>
      /\ UNCHANGED <<pc, req, ent, rdr, res, mpc, mtodo, mid, mpos, mnew, spc, nwrites, nmerges>>
  OBVIOUS
<1> HIDE DEF MergeRemoveData
<1>3. DOMAIN stats' \subseteq DOMAIN stats
  BY <1>1, WithoutDomain
<1>4. /\ mpc = "merge" /\ mtodo = {} /\ DOMAIN mnew = {}
      /\ \A k \in DOMAIN keydir : keydir[k].fileid \notin mfiles
      /\ mid \in files /\ mid \in DOMAIN hint /\ active < mid /\ mpos = data[mid].size
      /\ \A g \in mfiles : g <= active
  BY <1>2, NoneIntoRemoved
<1>5. TypeOK'
  <2>1. stats' \in [DOMAIN stats' -> LogStats]
    BY <1>1, WithoutType DEF CoreInv, TypeOK
  <2> QED BY <1>1, <1>2, <2>1 DEF CoreInv, TypeOK
<1>6. LogInv'
  BY <1>2 DEF CoreInv, LogInv
<1>7. LockInv'
  BY <1>2 DEF CoreInv, LockInv
<1>8. FileInv'
  BY <1>1, <1>2, <1>3, <1>4 DEF CoreInv, FileInv, HintGone
<1>9. CoreIndex'
  BY <1>2, <1>4, MergeExcludes DEF CoreIndex
<1>10. CoreMerge'
  <2>1. mid \in Nat /\ active \in Nat
    BY DEF CoreInv, TypeOK
  <2>2. mid # f
    BY <1>4, <2>1
  <2> QED BY <1>1, <1>2, <1>4, <2>2 DEF CoreMerge
<1>11. CoreKeydir'
  BY <1>1, <1>2, <1>4 DEF CoreInv, CoreKeydir
<1> QED BY <1>5, <1>6, <1>7, <1>8, <1>9, <1>10, <1>11 DEF CoreInv

\* A turn of the copying loop of Writer::merge keeps the invariant.
LEMMA MergeCopyStep ==
  ASSUME CoreInv, MergeCopy
  PROVE  CoreInv'
<1> USE DEF ctx, rds, calls, bounds
<1>0. PICK k \in mtodo : \E rec \in data[keydir[k].fileid].recs :
         rec.pos = keydir[k].pos /\ rec.len = keydir[k].len /\ CopyEntry(k, rec)
  BY DEF MergeCopy, CopySource
<1>1. PICK rec \in data[keydir[k].fileid].recs :
         rec.pos = keydir[k].pos /\ rec.len = keydir[k].len /\ CopyEntry(k, rec)
  BY <1>0
<1>2. /\ mpc = "merge" /\ lock = "merger" /\ \A u \in Threads : pc[u] # "index"
      /\ UNCHANGED <<keydir, closed, lock, active, written, pool, cache, pc, req, ent, rdr, res>>
      /\ UNCHANGED <<mpc, mfiles, spc, nwrites, nmerges>>
  BY MergeExcludes DEF MergeCopy
<1> DEFINE e == keydir[k]
           n == e.len
           v == rec.val
           b == mid + 1
           full == MergeExceeds(n)
<1>3. /\ data \in [DOMAIN data -> DataFiles] /\ \A f \in DOMAIN data : WellFormed(data[f])
      /\ mid \in DOMAIN data /\ mid \in files /\ mid \in Nat /\ active < mid /\ active \in Nat
      /\ \A f \in DOMAIN data : f \in Nat /\ f <= mid
      /\ files \subseteq DOMAIN data /\ mpos = data[mid].size /\ mpos \in Nat
      /\ \A f \in mfiles : f <= active
      /\ mtodo \subseteq DOMAIN keydir /\ DOMAIN keydir \subseteq Keys
      /\ mid \in DOMAIN hint /\ hint \in [DOMAIN hint -> Seq(Hints)]
  BY <1>2 DEF CoreInv, TypeOK, LogInv, FileInv, CoreMerge
<1>4. b \in Nat /\ b \notin DOMAIN data
  BY <1>3
<1>5. /\ e \in Entries /\ n \in Nat \ {0} /\ k \in Keys
      /\ rec.key \in Keys /\ v \in Values \cup {NoValue}
  <2>1. k \in DOMAIN keydir /\ k \in Keys
    BY <1>3
  <2>2. e \in Entries /\ e.fileid \in DOMAIN data
    BY <1>3, <2>1 DEF CoreInv, TypeOK, CoreKeydir
  <2>3. rec \in Records
    BY <1>3, <2>2 DEF DataFiles
  <2> QED BY <2>1, <2>2, <2>3 DEF Entries, Records
<1>6. /\ DOMAIN data' = IF full THEN DOMAIN data \cup {b} ELSE DOMAIN data
      /\ data' \in [DOMAIN data' -> DataFiles]
      /\ \A f \in DOMAIN data' : WellFormed(data'[f])
      /\ Grows(data, data')
      /\ IF full THEN data'[b].size = 0 ELSE data'[mid].size = mpos + n
  <2> DEFINE d2  == Upd(data, mid, AppendEntry(data[mid], rec.key, v, n))
  <2>1. data' = IF full THEN Upd(d2, b, EmptyFile) ELSE d2
    BY <1>1 DEF CopyEntry
  <2> HIDE DEF n, v, b, full
  <2>3. /\ DOMAIN d2 = DOMAIN data
        /\ d2 \in [DOMAIN d2 -> DataFiles]
        /\ \A f \in DOMAIN d2 : WellFormed(d2[f])
        /\ Grows(data, d2)
        /\ d2[mid].size = data[mid].size + n
        /\ [pos |-> data[mid].size, len |-> n, key |-> rec.key, val |-> v] \in d2[mid].recs
    BY <1>3, <1>5, AppendFile
  <2> HIDE DEF d2
  <2>4. LET d3 == Upd(d2, b, EmptyFile)
        IN  /\ DOMAIN d3 = DOMAIN d2 \cup {b}
            /\ d3 \in [DOMAIN d3 -> DataFiles]
            /\ \A f \in DOMAIN d3 : WellFormed(d3[f])
            /\ Grows(d2, d3)
            /\ d3[b].size = 0
    BY <1>4, <2>3, CreateFile
  <2>5. CASE full
    <3>1. Grows(data, data')
      BY <2>1, <2>3, <2>4, <2>5 DEF Grows
    <3> QED BY <1>3, <2>1, <2>3, <2>4, <2>5, <3>1
  <2>6. CASE ~full
    BY <1>3, <2>1, <2>3, <2>6
  <2> QED BY <2>5, <2>6
<1>7. /\ mtodo' = mtodo \ {k}
      /\ files' = IF full THEN files \cup {b} ELSE files
      /\ mid' = IF full THEN b ELSE mid
      /\ mpos' = IF full THEN 0 ELSE mpos + n
      /\ mnew' = Upd(mnew, k, [fileid |-> mid, pos |-> mpos, len |-> n])
      /\ stats' = Upd(stats, mid, AddLive(StatsOf(stats, mid)))
      /\ synced' = IF full THEN Upd(synced, b, 0) ELSE synced
  BY <1>1 DEF CopyEntry, MergedEntry
<1>8. /\ DOMAIN hint' = IF full THEN DOMAIN hint \cup {mid, b} ELSE DOMAIN hint \cup {mid}
      /\ hint' \in [DOMAIN hint' -> Seq(Hints)]
  <2> DEFINE seq == Append(hint[mid], HintEntry(k, e))
             h2  == Upd(hint, mid, seq)
             h3  == Upd(h2, b, <<>>)
  <2>1. hint' = IF full THEN h3 ELSE h2
    BY <1>1 DEF CopyEntry
  <2>2. HintEntry(k, e) \in Hints
    BY <1>5 DEF HintEntry, Hints, Entries
  <2>3. seq \in Seq(Hints)
    BY <1>3, <2>2
  <2>4. <<>> \in Seq(Hints)
    OBVIOUS
  <2> HIDE DEF seq
  <2>5. DOMAIN h2 = DOMAIN hint \cup {mid}
    BY UpdDomain
  <2>6. h2 \in [DOMAIN h2 -> Seq(Hints)]
    BY <1>3, <2>3, UpdType
  <2> HIDE DEF h2
  <2>7. DOMAIN h3 = DOMAIN h2 \cup {b}
    BY UpdDomain
  <2>8. h3 \in [DOMAIN h3 -> Seq(Hints)]
    BY <2>4, <2>6, UpdType
  <2> HIDE DEF h3
  <2> QED BY <2>1, <2>5, <2>6, <2>7, <2>8
<1> HIDE DEF full
<1>9. TypeOK'
  <2>1. synced' \in [DOMAIN data' -> Nat]
    <3>1. synced \in [DOMAIN data -> Nat]
      BY DEF CoreInv, TypeOK
    <3>2. Upd(synced, b, 0) \in [DOMAIN data \cup {b} -> Nat]
      BY <3>1, UpdMap
    <3> QED BY <1>6, <1>7, <3>1, <3>2
  <2>2. stats' \in [DOMAIN stats' -> LogStats]
    <3>1. StatsOf(stats, mid) \in LogStats /\ stats \in [DOMAIN stats -> LogStats]
      BY StatsOfType DEF CoreInv, TypeOK
    <3>2. AddLive(StatsOf(stats, mid)) \in LogStats
      BY <3>1, CountType
    <3> QED BY <1>7, <3>1, <3>2, UpdType
  <2>3. files' \subseteq DOMAIN data' /\ DOMAIN data' \subseteq Nat
    BY <1>3, <1>4, <1>6, <1>7
  <2>4. mid' \in Nat /\ mpos' \in Nat /\ mtodo' \subseteq Keys
    BY <1>3, <1>4, <1>5, <1>7
  <2>5. mnew' \in [DOMAIN mnew' -> Entries] /\ DOMAIN mnew' \subseteq Keys
    <3>1. [fileid |-> mid, pos |-> mpos, len |-> n] \in Entries
      BY <1>3, <1>5 DEF Entries
    <3>2. mnew \in [DOMAIN mnew -> Entries] /\ DOMAIN mnew \subseteq Keys
      BY DEF CoreInv, TypeOK
    <3>3. mnew' \in [DOMAIN mnew' -> Entries]
      BY <1>7, <3>1, <3>2, UpdType
    <3>4. DOMAIN mnew' = DOMAIN mnew \cup {k}
      BY <1>7, UpdDomain
    <3> QED BY <1>5, <3>2, <3>3, <3>4
  <2>6. /\ cache' \in [Readers -> Seq(DOMAIN data')]
        /\ \A r \in Readers : Len(cache'[r]) <= CacheSize
    BY <1>2, <1>6, GrowthKeeps
  <2> QED BY <1>2, <1>6, <1>8, <2>1, <2>2, <2>3, <2>4, <2>5, <2>6 DEF CoreInv, TypeOK
<1>10. LogInv'
  BY <1>6 DEF LogInv
<1>11. LockInv'
  BY <1>2 DEF CoreInv, LockInv
<1>12. FileInv'
  <2>1. DOMAIN stats' = DOMAIN stats \cup {mid}
    BY <1>7, UpdDomain
  <2>2. DOMAIN hint' \subseteq files'
    BY <1>3, <1>7, <1>8 DEF CoreInv, FileInv
  <2> QED BY <1>2, <1>3, <1>4, <1>6, <1>7, <2>1, <2>2 DEF CoreInv, FileInv
<1>13. CoreIndex'
  BY <1>2 DEF CoreIndex
<1>14. CoreMerge'
  <2> DEFINE c == [fileid |-> mid, pos |-> mpos, len |-> n]
  <2>1. DOMAIN mnew' = DOMAIN mnew \cup {k}
    BY <1>7, UpdDomain
  <2>2. mnew'[k] = c
    BY <1>7, UpdNew
  <2>3. \A j \in DOMAIN mnew : j # k => mnew'[j] = mnew[j]
    BY <1>7, UpdOld
  <2>4. mid' \in files' /\ active < mid' /\ mpos' = data'[mid'].size
    BY <1>3, <1>4, <1>6, <1>7
  <2>5. \A j \in DOMAIN keydir : keydir[j].fileid \in mfiles => j \in mtodo' \cup DOMAIN mnew'
    BY <1>2, <1>7, <2>1 DEF CoreInv, CoreMerge
  <2>7. ASSUME NEW j \in DOMAIN mnew'
        PROVE  mnew'[j].fileid \in files' /\ active < mnew'[j].fileid
    <3>1. CASE j = k
      BY <1>3, <1>7, <2>2, <3>1
    <3>2. CASE j # k
      <4>1. j \in DOMAIN mnew /\ mnew'[j] = mnew[j]
        BY <2>1, <2>3, <3>2
      <4>2. mnew[j].fileid \in files /\ active < mnew[j].fileid
        BY <1>2, <4>1 DEF CoreInv, CoreMerge
      <4> QED BY <1>7, <4>1, <4>2
    <3> QED BY <3>1, <3>2
  <2> QED BY <1>2, <1>3, <1>7, <1>8, <2>4, <2>5, <2>7 DEF CoreInv, CoreMerge
<1>15. CoreKeydir'
  BY <1>2, <1>7 DEF CoreInv, CoreKeydir
<1> QED BY <1>9, <1>10, <1>11, <1>12, <1>13, <1>14, <1>15 DEF CoreInv

-----------------------------------------------------------------------------
(* All steps *)

\* Every step preserves CoreInv.
LEMMA NextCore ==
  ASSUME CoreInv, [Next]_vars
  PROVE  CoreInv'
<1>1. ASSUME NEW t \in Threads, NEW r \in Requests, Call(t, r)
      PROVE  CoreInv'
  BY <1>1, CallStep
<1>2. ASSUME NEW t \in Threads, Write(t)
      PROVE  CoreInv'
  BY <1>2, WriteStep
<1>3. ASSUME NEW t \in Threads, KeydirSet(t) \/ KeydirRemove(t)
      PROVE  CoreInv'
  BY <1>3, IndexStep
<1>4. ASSUME NEW t \in Threads, GetLookup(t)
      PROVE  CoreInv'
  BY <1>4, GetLookupStep
<1>5. ASSUME NEW t \in Threads, GetRead(t)
      PROVE  CoreInv'
  BY <1>5, GetReadStep
<1>6. ASSUME NEW t \in Threads, Return(t)
      PROVE  CoreInv'
  BY <1>6, ReturnStep
<1>7. CASE Close \/ MergeTick \/ MergeSkip \/ MergeStop \/ SyncTick \/ SyncStop
  BY <1>7, TaskStep
<1>8. CASE SyncActive
  BY <1>8, SyncActiveStep
<1>9. CASE MergeBegin
  BY <1>9, MergeBeginStep
<1>10. CASE MergeStep
  BY <1>10, MergeCopyStep, MergeKeydirSetStep, MergeRemoveHintStep, MergeRemoveDataStep,
     MergeFinishStep DEF MergeStep
<1>11. CASE UNCHANGED vars
  BY <1>11 DEF vars, disk, ctx, writer, rds, calls, merge, bounds, CoreInv, TypeOK, LogInv,
     LockInv, FileInv, CoreIndex, CoreMerge, CoreKeydir
<1> QED BY <1>1, <1>2, <1>3, <1>4, <1>5, <1>6, <1>7, <1>8, <1>9, <1>10, <1>11 DEF Next

-----------------------------------------------------------------------------
(* Data files are append-only *)

\* LogWriter::append to one file, and the creation of another, keep the
\* entries of every file there is.
LEMMA AppendGrows ==
  ASSUME NEW d, NEW a \in DOMAIN d, NEW k, NEW v, NEW n, NEW b, b \notin DOMAIN d
  PROVE  LET d2 == Upd(d, a, AppendEntry(d[a], k, v, n))
         IN  Grows(d, d2) /\ Grows(d, Upd(d2, b, EmptyFile))
BY DEF Grows, Upd, AppendEntry

\* The creation of a file keeps the entries of the others.
LEMMA CreateGrows ==
  ASSUME NEW d, NEW b, b \notin DOMAIN d
  PROVE  Grows(d, Upd(d, b, EmptyFile))
BY DEF Grows, Upd

\* No step of any thread or task takes an entry out of a data file: files
\* are written at their end only, and removal unlinks them from the
\* directory while a LogReader may still have them mapped.
LEMMA DataGrows ==
  ASSUME CoreInv, [Next]_vars
  PROVE  Grows(data, data')
<1>0. /\ active \in DOMAIN data /\ DOMAIN data \subseteq Nat /\ active \in Nat /\ mid \in Nat
      /\ \A f \in DOMAIN data : f <= (IF mpc = "merge" THEN mid ELSE active)
      /\ mpc = "merge" => mid \in DOMAIN data
  BY DEF CoreInv, TypeOK, FileInv, CoreMerge
<1>1. mpc # "merge" => NextFileid \notin DOMAIN data
  BY <1>0 DEF NextFileid
<1>2. mpc = "merge" => mid + 1 \notin DOMAIN data
  BY <1>0
<1>3. CASE UNCHANGED data
  BY <1>3 DEF Grows
<1>4. CASE \E t \in Threads : Write(t)
  <2>1. PICK t \in Threads : Write(t)
    BY <1>4
  <2>2. mpc # "merge"
    BY <2>1, ThreadsAssumption DEF Write, CoreInv, LockInv
  <2> QED
    BY <1>0, <1>1, <2>1, <2>2, AppendGrows DEF Write
<1>5. CASE MergeBegin
  BY <1>1, <1>5, CreateGrows DEF MergeBegin
<1>6. CASE MergeCopy
  <2>1. PICK k \in mtodo : \E rec \in CopySource(k) : CopyEntry(k, rec)
    BY <1>6 DEF MergeCopy
  <2>2. mpc = "merge"
    BY <1>6 DEF MergeCopy
  <2> QED
    BY <1>0, <1>2, <2>1, <2>2, AppendGrows DEF CopyEntry
<1>7. CASE MergeFinish
  BY <1>2, <1>7, CreateGrows DEF MergeFinish, Removing
<1> QED
  BY <1>3, <1>4, <1>5, <1>6, <1>7
     DEF Next, vars, disk, Call, KeydirSet, KeydirRemove, GetLookup, GetRead, Return, Close,
         MergeTick, MergeSkip, MergeStep, MergeKeydirSet, MergeRemoveHint, MergeRemoveData,
         MergeStop, SyncTick, SyncActive, SyncStop

-----------------------------------------------------------------------------
(* Entries are where they are said to be *)

\* A step that points nothing at a new entry keeps PlaceInv.
LEMMA PlaceKept ==
  ASSUME PlaceInv, Grows(data, data'),
         \A k \in DOMAIN keydir' : k \in DOMAIN keydir /\ keydir'[k] = keydir[k],
         \A t \in Threads : pc'[t] = "index" =>
           pc[t] = "index" /\ req'[t] = req[t] /\ ent'[t] = ent[t],
         \A k \in DOMAIN mnew' : k \in DOMAIN mnew /\ mnew'[k] = mnew[k]
  PROVE  PlaceInv'
BY LocatesGrows DEF PlaceInv

\* Writer::write, KeydirSet, MergeCopy and MergeKeydirSet point a call, a copy
\* or a key at the entry it has just stored.
LEMMA PlaceStep ==
  ASSUME CoreInv, PlaceInv, [Next]_vars
  PROVE  PlaceInv'
<1>0. TypeOK /\ Grows(data, data')
  BY DataGrows DEF CoreInv
<1>1. ASSUME NEW t \in Threads, Write(t)
      PROVE  PlaceInv'
  <2> DEFINE v == req[t].val
             n == EntryLen[v]
             new == [pos |-> data[active].size, len |-> n, key |-> req[t].key, val |-> v]
             d2 == Upd(data, active, AppendEntry(data[active], req[t].key, v, n))
  <2>1. /\ keydir' = keydir /\ mnew' = mnew /\ req' = req
        /\ pc' = [pc EXCEPT ![t] = "index"]
        /\ ent' = [ent EXCEPT ![t] = [fileid |-> active, pos |-> data[active].size, len |-> n]]
        /\ data' = IF Exceeds(n) THEN Upd(d2, active + 1, EmptyFile) ELSE d2
        /\ lock = "none"
    BY <1>1 DEF Write, ctx, merge, EntryIndex, NextFileid
  <2>2. \A u \in Threads : pc[u] # "index"
    BY <2>1, ThreadsAssumption DEF CoreInv, LockInv
  <2>3. active \in DOMAIN data /\ active \in Nat
    BY DEF CoreInv, TypeOK, FileInv
  <2>4. new \in data'[active].recs /\ active \in DOMAIN data'
    <3>1. active \in DOMAIN d2 /\ new \in d2[active].recs
      BY <2>3 DEF Upd, AppendEntry
    <3>2. active # active + 1
      BY <2>3
    <3> HIDE DEF d2, new, n
    <3>3. CASE Exceeds(n)
      BY <2>1, <3>1, <3>2, <3>3 DEF Upd
    <3>4. CASE ~Exceeds(n)
      BY <2>1, <3>1, <3>4
    <3> QED BY <3>3, <3>4
  <2>5. req[t].op = "set" => v \in Values
    <3>1. req[t] \in Requests \cup {NoReq}
      BY <1>0 DEF TypeOK
    <3> QED BY <3>1 DEF Requests, NoReq
  <2>6. ASSUME NEW u \in Threads, pc'[u] = "index", req'[u].op = "set"
        PROVE  Locates(data', ent'[u], req'[u].key)
    <3>1. u = t
      BY <1>0, <2>1, <2>2, <2>6 DEF TypeOK
    <3>2. ent'[t] = [fileid |-> active, pos |-> data[active].size, len |-> n]
      BY <1>0, <2>1 DEF TypeOK
    <3> QED BY <2>1, <2>4, <2>5, <2>6, <3>1, <3>2 DEF Locates
  <2> QED BY <1>0, <2>1, <2>6, LocatesGrows DEF PlaceInv
<1>2. ASSUME NEW t \in Threads, KeydirSet(t)
      PROVE  PlaceInv'
  <2>1. /\ pc[t] = "index" /\ req[t].op = "set" /\ keydir' = Upd(keydir, req[t].key, ent[t])
        /\ data' = data /\ mnew' = mnew /\ req' = req /\ ent' = ent
        /\ pc' = [pc EXCEPT ![t] = "ret"]
    BY <1>2 DEF KeydirSet, disk, merge
  <2>2. Locates(data, ent[t], req[t].key)
    BY <2>1 DEF PlaceInv
  <2>3. \A k \in DOMAIN keydir' : Locates(data, keydir'[k], k)
    BY <2>1, <2>2 DEF PlaceInv, Upd
  <2>4. \A u \in Threads : pc'[u] = "index" => pc[u] = "index"
    BY <1>0, <2>1 DEF TypeOK
  <2> QED BY <2>1, <2>3, <2>4 DEF PlaceInv
<1>3. ASSUME NEW t \in Threads, KeydirRemove(t)
      PROVE  PlaceInv'
  <2>1. /\ keydir' = Without(keydir, req[t].key) /\ mnew' = mnew
        /\ req' = req /\ ent' = ent /\ pc' = [pc EXCEPT ![t] = "ret"]
    BY <1>3 DEF KeydirRemove, disk, merge
  <2>2. \A k \in DOMAIN keydir' : k \in DOMAIN keydir /\ keydir'[k] = keydir[k]
    BY <2>1 DEF Without
  <2>3. \A u \in Threads : pc'[u] = "index" => pc[u] = "index"
    BY <1>0, <2>1 DEF TypeOK
  <2> QED BY <1>0, <2>1, <2>2, <2>3, PlaceKept
<1>4. CASE MergeCopy
  <2>0. PICK k \in mtodo : \E rec \in CopySource(k) : CopyEntry(k, rec)
    BY <1>4 DEF MergeCopy
  <2>1. PICK rec \in CopySource(k) : CopyEntry(k, rec)
    BY <2>0
  <2> DEFINE e == keydir[k]
             new == [pos |-> data[mid].size, len |-> e.len, key |-> rec.key, val |-> rec.val]
             d2 == Upd(data, mid, AppendEntry(data[mid], rec.key, rec.val, e.len))
  <2>2. /\ mpc = "merge" /\ UNCHANGED <<keydir, pc, req, ent>>
        /\ mnew' = Upd(mnew, k, [fileid |-> mid, pos |-> mpos, len |-> e.len])
        /\ data' = IF MergeExceeds(e.len) THEN Upd(d2, mid + 1, EmptyFile) ELSE d2
    BY <1>4, <2>1 DEF MergeCopy, CopyEntry, MergedEntry, ctx, calls
  <2>3. /\ k \in DOMAIN keydir /\ mid \in DOMAIN data /\ mid \in Nat /\ mpos = data[mid].size
    BY <1>0, <2>1, <2>2 DEF CoreInv, CoreMerge, TypeOK
  \* The entry found at the position of k is the one stored for k.
  <2>4. rec.key = k /\ rec.val \in Values
    <3>1. PICK r2 \in data[e.fileid].recs :
            r2.pos = e.pos /\ r2.len = e.len /\ r2.key = k /\ r2.val \in Values
      BY <2>3 DEF PlaceInv, Locates
    <3>2. WellFormed(data[e.fileid])
      BY <2>3 DEF PlaceInv, Locates, CoreInv, LogInv
    <3>3. r2 = rec
      BY <2>1, <3>1, <3>2 DEF WellFormed, CopySource
    <3> QED BY <3>1, <3>3
  <2>5. new \in data'[mid].recs /\ mid \in DOMAIN data'
    BY <2>2, <2>3 DEF Upd, AppendEntry
  <2>6. ASSUME NEW j \in DOMAIN mnew'
        PROVE  Locates(data', mnew'[j], j)
    <3>1. CASE j = k
      <4>1. mnew'[k] = [fileid |-> mid, pos |-> mpos, len |-> e.len]
        BY <2>2, UpdNew
      <4> QED BY <2>3, <2>4, <2>5, <3>1, <4>1 DEF Locates
    <3>2. CASE j # k
      <4>1. j \in DOMAIN mnew /\ mnew'[j] = mnew[j]
        BY <2>2, <3>2 DEF Upd
      <4> QED BY <1>0, <4>1, LocatesGrows DEF PlaceInv
    <3> QED BY <3>1, <3>2
  <2> QED BY <1>0, <2>2, <2>6, LocatesGrows DEF PlaceInv
<1>5. CASE MergeKeydirSet
  <2>1. PICK k \in DOMAIN mnew : keydir' = Upd(keydir, k, mnew[k]) /\ mnew' = Without(mnew, k)
    BY <1>5 DEF MergeKeydirSet
  <2>2. UNCHANGED <<data, pc, req, ent>>
    BY <1>5 DEF MergeKeydirSet, disk, calls
  <2>3. \A j \in DOMAIN keydir' : Locates(data, keydir'[j], j)
    BY <2>1 DEF PlaceInv, Upd
  <2>4. \A j \in DOMAIN mnew' : j \in DOMAIN mnew /\ mnew'[j] = mnew[j]
    BY <2>1 DEF Without
  <2> QED BY <2>2, <2>3, <2>4 DEF PlaceInv
<1>6. CASE \/ \E t \in Threads : \/ \E r \in Requests : Call(t, r)
                                \/ GetLookup(t) \/ GetRead(t) \/ Return(t)
           \/ Close \/ MergeTick \/ MergeSkip \/ MergeBegin \/ MergeRemoveHint \/ MergeRemoveData
           \/ MergeFinish \/ MergeStop \/ SyncTick \/ SyncActive \/ SyncStop \/ UNCHANGED vars
  <2>1. keydir' = keydir /\ mnew' = mnew
    BY <1>6 DEF Call, GetLookup, GetRead, Return, Close, MergeTick, MergeSkip, MergeBegin,
       MergeRemoveHint, MergeRemoveData, MergeFinish, MergeStop, SyncTick, SyncActive, SyncStop,
       vars, ctx, merge
  <2>2. ASSUME NEW u \in Threads, pc'[u] = "index"
        PROVE  pc[u] = "index" /\ req'[u] = req[u] /\ ent'[u] = ent[u]
    BY <1>0, <1>6, <2>2 DEF TypeOK, Call, GetLookup, GetRead, Return, Close, MergeTick, MergeSkip,
       MergeBegin, MergeRemoveHint, MergeRemoveData, MergeFinish, MergeStop, SyncTick, SyncActive,
       SyncStop, vars, calls
  <2> QED BY <1>0, <2>1, <2>2, PlaceKept
<1> QED BY <1>1, <1>2, <1>3, <1>4, <1>5, <1>6 DEF Next, MergeStep

-----------------------------------------------------------------------------
(* The theorems *)

\* An empty directory satisfies the invariant.
LEMMA InitInv ==
  ASSUME Init
  PROVE  IndInv
<1> USE DEF Init
<1>1. TypeOK
  <2>1. data \in [DOMAIN data -> DataFiles] /\ DOMAIN data = {0}
    BY EmptyFileType
  <2>2. pool \in Seq(Readers)
    BY ConcurrencyAssumption DEF Readers
  <2>3. /\ cache \in [Readers -> Seq(DOMAIN data)]
        /\ \A r \in Readers : Len(cache[r]) <= CacheSize
    BY CacheSizeAssumption
  <2>4. /\ hint \in [DOMAIN hint -> Seq(Hints)] /\ keydir \in [DOMAIN keydir -> Entries]
        /\ stats \in [DOMAIN stats -> LogStats] /\ mnew \in [DOMAIN mnew -> Entries]
        /\ DOMAIN keydir = {} /\ DOMAIN mnew = {}
    BY DEF EmptyMap
  <2>5. /\ req \in [Threads -> Requests \cup {NoReq}] /\ ent \in [Threads -> Entries \cup {NoEnt}]
        /\ rdr \in [Threads -> Readers \cup {0}] /\ res \in [Threads -> Results]
        /\ pc \in [Threads -> {"idle", "wait", "index", "read", "ret"}]
    BY DEF Results
  <2>6. synced \in [DOMAIN data -> Nat] /\ files \subseteq DOMAIN data /\ DOMAIN data \subseteq Nat
    BY <2>1
  <2>9. closed \in BOOLEAN /\ lock \in Threads \cup {"none", "merger"}
    BY Zenon
  <2>7. /\ active \in Nat /\ written \in Nat /\ mid \in Nat /\ mpos \in Nat
        /\ mfiles \subseteq Nat /\ mtodo \subseteq Keys /\ nwrites \in Nat /\ nmerges \in Nat
    OBVIOUS
  <2>8. mpc \in {"sleep", "stopped"} /\ spc \in {"sleep", "stopped"}
    BY Zenon
  <2> HIDE DEF Init
  <2> QED BY <2>1, <2>2, <2>3, <2>4, <2>5, <2>6, <2>7, <2>8, <2>9 DEF TypeOK
<1>2. LogInv
  BY DEF LogInv, WellFormed, EmptyFile
<1>3. LockInv
  BY DEF LockInv
<1>4. FileInv
  BY DEF FileInv, EmptyMap
<1>5. IndexInv
  BY DEF IndexInv
<1>6. MergeInv
  BY DEF MergeInv, EmptyMap
<1>7. KeydirValid
  BY DEF KeydirValid, EmptyMap
<1> QED BY <1>1, <1>2, <1>3, <1>4, <1>5, <1>6, <1>7 DEF IndInv

\* Every step preserves the invariant.
LEMMA NextInv ==
  ASSUME IndInv, [Next]_vars
  PROVE  IndInv'
<1>1. CoreInv /\ PlaceInv
  BY InvParts
<1>2. CoreInv' /\ PlaceInv'
  BY <1>1, NextCore, PlaceStep
<1>3. (IndInv <=> CoreInv /\ PlaceInv)'
  BY InvParts, PTL
<1> QED BY <1>2, <1>3

\* IndInv holds in every reachable state of a running instance, for any sets
\* of keys, values and threads and any configuration.
THEOREM InvariantHolds == Spec => []IndInv
<1>1. Init => IndInv
  BY InitInv
<1>2. IndInv /\ [Next]_vars => IndInv'
  BY NextInv
<1> QED BY <1>1, <1>2, PTL DEF Spec

\* Every variable keeps its type, and no LogDir ever holds more open files
\* than readers_cache_size (the LruCache of log.rs).
THEOREM TypeCorrect == Spec => []TypeOK
<1>1. IndInv => TypeOK
  BY DEF IndInv
<1> QED BY <1>1, InvariantHolds, PTL

\* The KeyDir points at valid file locations in every reachable state, while
\* sets, gets, deletes, merges and syncs interleave in any way: the promise
\* of Writer (writer.rs:24) that the unsafe mmap reads depend on.
THEOREM KeydirCorrect == Spec => []KeydirValid
<1>1. IndInv => KeydirValid
  BY DEF IndInv
<1> QED BY <1>1, InvariantHolds, PTL

\* log::create, which opens with create_new, never meets an existing file:
\* ids of new active and merge files are above all ids in the directory.
THEOREM FreshIdsCorrect == Spec => []FreshFileids
<1>1. IndInv => FreshFileids
  BY DEF IndInv, TypeOK, FileInv, FreshFileids
<1> QED BY <1>1, InvariantHolds, PTL

-----------------------------------------------------------------------------
(* The values that entries hold and the results of calls *)

\* A thread with a Reader in hand is in a get and its entry, looked up some
\* time ago, still locates a value of its key, be the file removed or not.
ReadInv ==
  \A t \in Threads : pc[t] = "read" =>
    req[t].op = "get" /\ Locates(data, ent[t], req[t].key)

\* What a set is about to index is the value it was called with.
PutInv ==
  \A t \in Threads : pc[t] = "index" /\ req[t].op = "set" => ValueAt(ent[t]) = req[t].val

\* The copies a merge has made hold what the keys have now.
CopyInv ==
  \A k \in DOMAIN mnew : k \in DOMAIN keydir /\ ValueAt(mnew[k]) = ValueAt(keydir[k])

RefInv == IndInv /\ ReadInv /\ PutInv /\ CopyInv

-----------------------------------------------------------------------------
(* What an entry reads *)

\* Reading the byte range of an entry of a well-formed file yields its value.
LEMMA ReadRecord ==
  ASSUME NEW file \in DataFiles, WellFormed(file), NEW rec \in file.recs
  PROVE  ReadAt(file, rec.pos, rec.len) = rec.val
<1>1. rec.pos \in Nat /\ rec.len \in Nat /\ file.size \in Nat
  BY DEF DataFiles, Records
<1>2. EntriesAt(file, rec.pos, rec.len) = {rec}
  BY <1>1 DEF EntriesAt, WellFormed
<1>3. ~(rec.pos + rec.len > file.size)
  BY <1>1 DEF WellFormed
<1> QED
  BY <1>2, <1>3 DEF ReadAt

\* So an entry that locates a value of k reads that value ...
LEMMA ReadLocated ==
  ASSUME NEW d, d \in [DOMAIN d -> DataFiles], \A f \in DOMAIN d : WellFormed(d[f]),
         NEW e, NEW k, Locates(d, e, k)
  PROVE  ReadAt(d[e.fileid], e.pos, e.len) \in Values
<1>1. PICK rec \in d[e.fileid].recs : rec.pos = e.pos /\ rec.len = e.len /\ rec.val \in Values
  BY DEF Locates
<1>2. d[e.fileid] \in DataFiles /\ WellFormed(d[e.fileid])
  BY DEF Locates
<1> QED
  BY <1>1, <1>2, ReadRecord

\* ... and reads the same for ever.
LEMMA ReadStable ==
  ASSUME IndInv, IndInv', Grows(data, data'), NEW e, NEW k, Locates(data, e, k)
  PROVE  /\ ReadAt(data'[e.fileid], e.pos, e.len) = ReadAt(data[e.fileid], e.pos, e.len)
         /\ ReadAt(data[e.fileid], e.pos, e.len) \in Values
<1>1. PICK rec \in data[e.fileid].recs : rec.pos = e.pos /\ rec.len = e.len /\ rec.val \in Values
  BY DEF Locates
<1>2. /\ e.fileid \in DOMAIN data /\ e.fileid \in DOMAIN data'
      /\ rec \in data'[e.fileid].recs
  BY <1>1 DEF Locates, Grows
<1>3. data[e.fileid] \in DataFiles /\ WellFormed(data[e.fileid])
  BY <1>2 DEF IndInv, TypeOK, LogInv
<1>4. data'[e.fileid] \in DataFiles /\ WellFormed(data'[e.fileid])
  BY <1>2 DEF IndInv, TypeOK, LogInv
<1> QED
  BY <1>1, <1>2, <1>3, <1>4, ReadRecord

-----------------------------------------------------------------------------
(* The entries in the threads' hands *)

\* The variables that only the calls of threads change.
callVars == <<pc, req, ent, rdr, res, pool, cache>>

\* A step is one of a thread, which leaves the other threads' calls alone, or
\* one of the background tasks or of the owner, which leaves them all alone.
LEMMA WhoMoves ==
  ASSUME [Next]_vars
  PROVE  \/ UNCHANGED callVars
         \/ \E t \in Threads : \/ \E r \in Requests : Call(t, r)
                               \/ Write(t) \/ KeydirSet(t) \/ KeydirRemove(t)
                               \/ GetLookup(t) \/ GetRead(t) \/ Return(t)
BY DEF Next, vars, calls, rds, callVars, Close, MergeTick, MergeSkip, MergeBegin, MergeStep,
       MergeCopy, MergeKeydirSet, MergeRemoveHint, MergeRemoveData, MergeFinish, MergeStop,
       SyncTick, SyncActive, SyncStop

\* A thread starts to read by a lookup that finds its key, and keeps what it
\* has in hand until it has read.
LEMMA ReadBegins ==
  ASSUME TypeOK, [Next]_vars, NEW t \in Threads, pc'[t] = "read"
  PROVE  \/ /\ pc[t] = "read" /\ req'[t] = req[t] /\ ent'[t] = ent[t] /\ rdr'[t] = rdr[t]
         \/ /\ GetLookup(t) /\ req[t].key \in DOMAIN keydir
            /\ req'[t] = req[t] /\ ent'[t] = keydir[req[t].key] /\ rdr'[t] = Head(pool)
<1>1. CASE UNCHANGED callVars
  BY <1>1 DEF callVars
<1>2. ASSUME NEW u \in Threads, NEW r \in Requests, Call(u, r)
      PROVE  pc[t] = "read" /\ req'[t] = req[t] /\ ent'[t] = ent[t] /\ rdr'[t] = rdr[t]
  BY <1>2 DEF Call, TypeOK
<1>3. ASSUME NEW u \in Threads, Write(u) \/ KeydirSet(u) \/ KeydirRemove(u) \/ GetRead(u) \/ Return(u)
      PROVE  pc[t] = "read" /\ req'[t] = req[t] /\ ent'[t] = ent[t] /\ rdr'[t] = rdr[t]
  BY <1>3 DEF Write, KeydirSet, KeydirRemove, GetRead, Return, TypeOK
<1>4. ASSUME NEW u \in Threads, GetLookup(u), u # t
      PROVE  pc[t] = "read" /\ req'[t] = req[t] /\ ent'[t] = ent[t] /\ rdr'[t] = rdr[t]
  BY <1>4 DEF GetLookup, TypeOK
<1>5. ASSUME GetLookup(t)
      PROVE  /\ req[t].key \in DOMAIN keydir
             /\ req'[t] = req[t] /\ ent'[t] = keydir[req[t].key] /\ rdr'[t] = Head(pool)
  BY <1>5 DEF GetLookup, TypeOK
<1> QED
  BY <1>1, <1>2, <1>3, <1>4, <1>5, WhoMoves

\* The entry of a get locates its value until it is read.
LEMMA ReadInvStep ==
  ASSUME IndInv, ReadInv, [Next]_vars
  PROVE  ReadInv'
<1> SUFFICES ASSUME NEW t \in Threads, pc'[t] = "read"
             PROVE  req'[t].op = "get" /\ Locates(data', ent'[t], req'[t].key)
  BY DEF ReadInv
<1>1. CASE pc[t] = "read" /\ req'[t] = req[t] /\ ent'[t] = ent[t]
  <2>1. req[t].op = "get" /\ Locates(data, ent[t], req[t].key)
    BY <1>1 DEF ReadInv
  <2> QED
    BY <1>1, <2>1, DataGrows, InvParts, LocatesGrows
<1>2. CASE /\ GetLookup(t) /\ req[t].key \in DOMAIN keydir
           /\ req'[t] = req[t] /\ ent'[t] = keydir[req[t].key]
  <2>1. req[t].op = "get" /\ Locates(data, keydir[req[t].key], req[t].key)
    BY <1>2 DEF GetLookup, IndInv, KeydirValid
  <2> QED
    BY <1>2, <2>1, DataGrows, InvParts, LocatesGrows
<1> QED
  BY <1>1, <1>2, ReadBegins DEF IndInv

\* A set is about to index the value it was called with.
LEMMA PutInvStep ==
  ASSUME IndInv, IndInv', PutInv, [Next]_vars
  PROVE  PutInv'
<1> SUFFICES ASSUME NEW t \in Threads, pc'[t] = "index", req'[t].op = "set"
             PROVE  ReadAt(data'[ent'[t].fileid], ent'[t].pos, ent'[t].len) = req'[t].val
  BY DEF PutInv, ValueAt
<1>1. CASE pc[t] = "index" /\ req'[t] = req[t] /\ ent'[t] = ent[t]
  <2>1. Locates(data, ent[t], req[t].key) /\ ValueAt(ent[t]) = req[t].val
    BY <1>1 DEF PutInv, IndInv, IndexInv
  <2> QED
    BY <1>1, <2>1, DataGrows, InvParts, ReadStable DEF ValueAt
<1>2. CASE Write(t)
  <2> DEFINE n   == EntryLen[req[t].val]
             rec == [pos |-> data[active].size, len |-> n, key |-> req[t].key, val |-> req[t].val]
  <2>1. /\ req'[t] = req[t] /\ ent'[t] = [fileid |-> active, pos |-> data[active].size, len |-> n]
        /\ active \in DOMAIN data /\ active # NextFileid
    BY <1>2 DEF Write, EntryIndex, NextFileid, IndInv, TypeOK, FileInv
  <2>2. active \in DOMAIN data' /\ rec \in data'[active].recs
    BY <1>2, <2>1 DEF Write, Upd, AppendEntry
  <2>3. data'[active] \in DataFiles /\ WellFormed(data'[active])
    BY <2>2 DEF IndInv, TypeOK, LogInv
  <2>4. ReadAt(data'[active], rec.pos, rec.len) = rec.val
    BY <2>2, <2>3, ReadRecord
  <2> QED
    BY <2>1, <2>4
<1>3. (pc[t] = "index" /\ req'[t] = req[t] /\ ent'[t] = ent[t]) \/ Write(t)
  <2>1. CASE UNCHANGED callVars
    BY <2>1 DEF callVars
  <2>2. ASSUME NEW u \in Threads, NEW r \in Requests, Call(u, r)
        PROVE  pc[t] = "index" /\ req'[t] = req[t] /\ ent'[t] = ent[t]
    BY <2>2 DEF Call, IndInv, TypeOK
  <2>3. ASSUME NEW u \in Threads,
               KeydirSet(u) \/ KeydirRemove(u) \/ GetLookup(u) \/ GetRead(u) \/ Return(u)
                 \/ (Write(u) /\ u # t)
        PROVE  pc[t] = "index" /\ req'[t] = req[t] /\ ent'[t] = ent[t]
    BY <2>3 DEF KeydirSet, KeydirRemove, GetLookup, GetRead, Return, Write, IndInv, TypeOK
  <2> QED
    BY <2>1, <2>2, <2>3, WhoMoves
<1> QED
  BY <1>1, <1>2, <1>3

\* A merge's copies go on to hold what the keys have.
LEMMA CopyInvStep ==
  ASSUME IndInv, IndInv', CopyInv, [Next]_vars
  PROVE  CopyInv'
<1>g. Grows(data, data')
  BY DataGrows, InvParts
<1>s. ASSUME NEW k \in DOMAIN mnew
      PROVE  /\ k \in DOMAIN keydir
             /\ ReadAt(data'[keydir[k].fileid], keydir[k].pos, keydir[k].len)
                  = ReadAt(data'[mnew[k].fileid], mnew[k].pos, mnew[k].len)
  <2>1. /\ k \in DOMAIN keydir /\ Locates(data, keydir[k], k) /\ Locates(data, mnew[k], k)
        /\ ValueAt(mnew[k]) = ValueAt(keydir[k])
    BY DEF CopyInv, IndInv, KeydirValid, MergeInv
  <2> QED
    BY <1>g, <2>1, ReadStable DEF ValueAt
<1>1. CASE UNCHANGED <<keydir, mnew>>
  BY <1>1, <1>s DEF CopyInv, ValueAt
<1>2. ASSUME NEW t \in Threads, KeydirSet(t) \/ KeydirRemove(t)
      PROVE  CopyInv'
  <2>1. mpc # "merge" /\ UNCHANGED mnew
    BY <1>2, ThreadsAssumption DEF KeydirSet, KeydirRemove, merge, IndInv, LockInv
  <2> QED
    BY <2>1 DEF CopyInv, IndInv, MergeInv
<1>3. CASE MergeKeydirSet
  <2>1. PICK k \in DOMAIN mnew : keydir' = Upd(keydir, k, mnew[k]) /\ mnew' = Without(mnew, k)
    BY <1>3 DEF MergeKeydirSet
  <2>2. ASSUME NEW j \in DOMAIN mnew'
        PROVE  j \in DOMAIN mnew /\ j \in DOMAIN keydir' /\ mnew'[j] = mnew[j] /\ keydir'[j] = keydir[j]
    BY <1>s, <2>1 DEF Upd, Without
  <2> QED
    BY <1>s, <2>2 DEF CopyInv, ValueAt
<1>4. CASE MergeCopy
  <2>1. PICK k \in mtodo : \E rec \in CopySource(k) : CopyEntry(k, rec)
    BY <1>4 DEF MergeCopy
  <2>2. PICK rec \in CopySource(k) : CopyEntry(k, rec)
    BY <2>1
  <2> DEFINE e    == keydir[k]
             copy == [pos |-> data[mid].size, len |-> e.len, key |-> rec.key, val |-> rec.val]
  <2>3. /\ mpc = "merge" /\ UNCHANGED keydir /\ k \in DOMAIN keydir
        /\ mid \in DOMAIN data /\ mid \in Nat /\ mpos = data[mid].size
    BY <1>4 DEF MergeCopy, ctx, IndInv, TypeOK, MergeInv
  <2>4. rec \in data[e.fileid].recs /\ rec.pos = e.pos /\ rec.len = e.len
    BY <2>2 DEF CopySource
  <2>5. /\ mnew' = Upd(mnew, k, [fileid |-> mid, pos |-> mpos, len |-> e.len])
        /\ mid \in DOMAIN data' /\ copy \in data'[mid].recs
    BY <2>2, <2>3 DEF CopyEntry, MergedEntry, Upd, AppendEntry
  <2>6. e.fileid \in DOMAIN data /\ e.fileid \in DOMAIN data' /\ rec \in data'[e.fileid].recs
    BY <1>g, <2>3, <2>4 DEF IndInv, KeydirValid, Locates, Grows
  <2>7. \A f \in DOMAIN data' : data'[f] \in DataFiles /\ WellFormed(data'[f])
    BY DEF IndInv, TypeOK, LogInv
  <2>8. ReadAt(data'[e.fileid], e.pos, e.len) = rec.val
    BY <2>4, <2>6, <2>7, ReadRecord
  <2>9. ReadAt(data'[mid], copy.pos, copy.len) = copy.val
    BY <2>5, <2>7, ReadRecord
  <2>10. ASSUME NEW j \in DOMAIN mnew', j # k
         PROVE  j \in DOMAIN mnew /\ mnew'[j] = mnew[j]
    BY <2>5, <2>10 DEF Upd
  <2>11. mnew'[k] = [fileid |-> mid, pos |-> mpos, len |-> e.len]
    BY <2>5 DEF Upd
  <2>12. ASSUME NEW j \in DOMAIN mnew'
         PROVE  /\ j \in DOMAIN keydir
                /\ ReadAt(data'[keydir[j].fileid], keydir[j].pos, keydir[j].len)
                     = ReadAt(data'[mnew'[j].fileid], mnew'[j].pos, mnew'[j].len)
    <3>1. CASE j = k
      BY <2>3, <2>8, <2>9, <2>11, <3>1
    <3>2. CASE j # k
      BY <1>s, <2>10, <3>2
    <3> QED
      BY <3>1, <3>2
  <2> QED
    BY <2>3, <2>12 DEF CopyInv, ValueAt
<1> QED
  BY <1>1, <1>2, <1>3, <1>4
     DEF Next, vars, ctx, merge, Call, Write, GetLookup, GetRead, Return, Close, MergeTick,
         MergeSkip, MergeBegin, MergeStep, MergeRemoveHint, MergeRemoveData, MergeFinish,
         MergeStop, SyncTick, SyncActive, SyncStop

\* RefInv holds in every state of every behaviour.
LEMMA RefInvariant == Spec => []RefInv
<1>1. Init => RefInv
  <2> SUFFICES ASSUME Init PROVE RefInv
    OBVIOUS
  <2>1. ReadInv /\ PutInv /\ CopyInv
    BY DEF Init, ReadInv, PutInv, CopyInv, EmptyMap
  <2> QED
    BY <2>1, InitInv DEF RefInv
<1>2. RefInv /\ [Next]_vars => RefInv'
  BY NextInv, ReadInvStep, PutInvStep, CopyInvStep DEF RefInv
<1> QED
  BY <1>1, <1>2, PTL DEF Spec

-----------------------------------------------------------------------------
(* The queue of Readers *)

InQueue(q, r) == \E i \in 1..Len(q) : q[i] = r
Distinct(q)   == \A i, j \in 1..Len(q) : i # j => q[i] # q[j]

\* ArrayQueue::pop takes the first Reader, which was in the queue once.
LEMMA PopQueue ==
  ASSUME NEW q \in Seq(Readers), q # <<>>, Distinct(q)
  PROVE  /\ Head(q) \in Readers /\ Tail(q) \in Seq(Readers)
         /\ Distinct(Tail(q)) /\ InQueue(q, Head(q))
         /\ \A r : InQueue(Tail(q), r) <=> InQueue(q, r) /\ r # Head(q)
<1>1. /\ Len(q) \in Nat \ {0} /\ Head(q) = q[1] /\ Head(q) \in Readers
      /\ Tail(q) \in Seq(Readers) /\ Len(Tail(q)) = Len(q) - 1
      /\ \A i \in 1..(Len(q) - 1) : Tail(q)[i] = q[i + 1]
  OBVIOUS
<1>2. Distinct(Tail(q))
  BY <1>1 DEF Distinct
<1>3. InQueue(q, Head(q))
  BY <1>1 DEF InQueue
<1>4. ASSUME NEW r, InQueue(Tail(q), r)
      PROVE  InQueue(q, r) /\ r # Head(q)
  <2>1. PICK i \in 1..(Len(q) - 1) : Tail(q)[i] = r
    BY <1>1, <1>4 DEF InQueue
  <2>2. i + 1 \in 1..Len(q) /\ 1 \in 1..Len(q) /\ i + 1 # 1 /\ q[i + 1] = r
    BY <1>1, <2>1
  <2> QED
    BY <1>1, <2>2 DEF InQueue, Distinct
<1>5. ASSUME NEW r, InQueue(q, r), r # Head(q)
      PROVE  InQueue(Tail(q), r)
  <2>1. PICK i \in 1..Len(q) : q[i] = r
    BY <1>5 DEF InQueue
  <2>2. i - 1 \in 1..(Len(q) - 1) /\ Tail(q)[i - 1] = q[(i - 1) + 1] /\ (i - 1) + 1 = i
    BY <1>1, <1>5, <2>1
  <2> QED
    BY <1>1, <2>1, <2>2 DEF InQueue
<1> QED
  BY <1>1, <1>2, <1>3, <1>4, <1>5

\* ArrayQueue::push of a Reader that is not in the queue.
LEMMA PushQueue ==
  ASSUME NEW q \in Seq(Readers), NEW r \in Readers, Distinct(q), ~InQueue(q, r)
  PROVE  /\ Append(q, r) \in Seq(Readers) /\ Distinct(Append(q, r))
         /\ \A x : InQueue(Append(q, r), x) <=> InQueue(q, x) \/ x = r
<1>1. /\ Len(q) \in Nat /\ Append(q, r) \in Seq(Readers) /\ Len(Append(q, r)) = Len(q) + 1
      /\ \A i \in 1..Len(q) : Append(q, r)[i] = q[i]
      /\ Append(q, r)[Len(q) + 1] = r
  OBVIOUS
<1>2. \A i \in 1..(Len(q) + 1) : i = Len(q) + 1 \/ i \in 1..Len(q)
  BY <1>1
<1>3. Distinct(Append(q, r))
  BY <1>1, <1>2 DEF Distinct, InQueue
<1>4. ASSUME NEW x
      PROVE  InQueue(Append(q, r), x) <=> InQueue(q, x) \/ x = r
  <2>1. InQueue(Append(q, r), x) => InQueue(q, x) \/ x = r
    BY <1>1, <1>2 DEF InQueue
  <2>2. InQueue(q, x) => InQueue(Append(q, r), x)
    BY <1>1 DEF InQueue
  <2>3. x = r => InQueue(Append(q, r), x)
    BY <1>1 DEF InQueue
  <2> QED
    BY <2>1, <2>2, <2>3
<1> QED
  BY <1>1, <1>3, <1>4

\* ReadersConserved in the terms of these lemmas.
LEMMA ConservedForm ==
  ReadersConserved <=>
    /\ Distinct(pool)
    /\ \A r \in Readers : InQueue(pool, r) => \A t \in Threads : pc[t] = "read" => rdr[t] # r
    /\ SmallEntries =>
         \A r \in Readers : InQueue(pool, r) \/ \E t \in Threads : pc[t] = "read" /\ rdr[t] = r
    /\ \A t, u \in Threads : t # u /\ pc[t] = "read" /\ pc[u] = "read" => rdr[t] # rdr[u]
BY DEF ReadersConserved, Distinct, InQueue

\* A get that reads never panics as long as entries fit in a BufWriter: its
\* entry lies inside its file, and was never there in part.
LEMMA ReadDoesNotPanic ==
  ASSUME IndInv, ReadInv, NEW t \in Threads, pc[t] = "read"
  PROVE  /\ ReadResult(cache[rdr[t]], ent[t]) # "panic"
         /\ SmallEntries => ~MapEndsInside(cache[rdr[t]], ent[t])
<1>1. Locates(data, ent[t], req[t].key)
  BY DEF ReadInv
<1>2. data \in [DOMAIN data -> DataFiles] /\ \A f \in DOMAIN data : WellFormed(data[f])
  BY DEF IndInv, TypeOK, LogInv
<1>3. ReadAt(data[ent[t].fileid], ent[t].pos, ent[t].len) \in Values
  BY <1>1, <1>2, ReadLocated
<1>4. ASSUME SmallEntries
      PROVE  ~(ent[t].len > BufferSize)
  <2>1. PICK rec \in data[ent[t].fileid].recs : rec.len = ent[t].len /\ ent[t].fileid \in DOMAIN data
    BY <1>1 DEF Locates
  <2>2. rec.len <= BufferSize /\ rec.len \in Nat
    BY <1>2, <1>4, <2>1 DEF SmallEntries, DataFiles, Records
  <2> QED
    BY <2>1, <2>2, BufferAssumption
<1> QED
  BY <1>3, <1>4, ValuesAssumption DEF ReadResult, MapEndsInside

\* No step loses or doubles a Reader.
LEMMA ConservedStep ==
  ASSUME IndInv, ReadInv, ReadersConserved, [Next]_vars
  PROVE  ReadersConserved'
<1> DEFINE Held(r) == \E t \in Threads : pc[t] = "read" /\ rdr[t] = r
<1>1. /\ Distinct(pool)
      /\ \A r \in Readers : InQueue(pool, r) => ~Held(r)
      /\ SmallEntries => \A r \in Readers : InQueue(pool, r) \/ Held(r)
      /\ \A t, u \in Threads : t # u /\ pc[t] = "read" /\ pc[u] = "read" => rdr[t] # rdr[u]
  BY ConservedForm
<1>2. /\ pool \in Seq(Readers) /\ pc \in [Threads -> {"idle", "wait", "index", "read", "ret"}]
      /\ rdr \in [Threads -> Readers \cup {0}]
      /\ \A t \in Threads : pc[t] = "read" => rdr[t] \in Readers
  BY DEF IndInv, TypeOK, LockInv
<1>g. SmallEntries' => SmallEntries
  <2>1. Grows(data, data')
    BY DataGrows, InvParts
  <2> QED
    BY <2>1 DEF Grows, SmallEntries
<1> DEFINE HeldNext(r) == \E t \in Threads : pc'[t] = "read" /\ rdr'[t] = r
           Conserved ==
             /\ Distinct(pool')
             /\ \A r \in Readers : InQueue(pool', r) => ~HeldNext(r)
             /\ SmallEntries' => \A r \in Readers : InQueue(pool', r) \/ HeldNext(r)
             /\ \A t, u \in Threads :
                  t # u /\ pc'[t] = "read" /\ pc'[u] = "read" => rdr'[t] # rdr'[u]
<1> SUFFICES Conserved
  BY DEF ReadersConserved, Distinct, InQueue
<1>3. CASE /\ pool' = pool /\ rdr' = rdr
           /\ \A t \in Threads : pc'[t] = "read" <=> pc[t] = "read"
  BY <1>1, <1>3, <1>g
<1>4. ASSUME NEW t \in Threads, NEW r \in Requests, Call(t, r)
      PROVE  /\ pool' = pool /\ rdr' = rdr
             /\ \A u \in Threads : pc'[u] = "read" <=> pc[u] = "read"
  BY <1>2, <1>4 DEF Call, rds
<1>5. ASSUME NEW t \in Threads, Write(t) \/ KeydirSet(t) \/ KeydirRemove(t) \/ Return(t)
      PROVE  /\ pool' = pool /\ rdr' = rdr
             /\ \A u \in Threads : pc'[u] = "read" <=> pc[u] = "read"
  BY <1>2, <1>5 DEF Write, KeydirSet, KeydirRemove, Return, rds
<1>6. CASE UNCHANGED callVars
  BY <1>3, <1>6 DEF callVars
<1>7. ASSUME NEW t \in Threads, GetLookup(t)
      PROVE  Conserved
  <2>1. /\ pool # <<>> /\ pc[t] = "wait"
    BY <1>7 DEF GetLookup
  <2>2. /\ Head(pool) \in Readers /\ Tail(pool) \in Seq(Readers)
        /\ Distinct(Tail(pool)) /\ InQueue(pool, Head(pool))
        /\ \A r : InQueue(Tail(pool), r) <=> InQueue(pool, r) /\ r # Head(pool)
    BY <1>1, <1>2, <2>1, PopQueue
  <2>0. pc'[t] \in {"read", "ret"}
    BY <1>2, <1>7 DEF GetLookup
  <2>3. CASE pc'[t] = "read"
    <3>1. /\ pool' = Tail(pool) /\ rdr' = [rdr EXCEPT ![t] = Head(pool)]
          /\ pc' = [pc EXCEPT ![t] = "read"]
      BY <1>2, <1>7, <2>3 DEF GetLookup, PopReader
    <3>2. ~Held(Head(pool))
      BY <1>1, <2>2
    <3>3. \A r : HeldNext(r) <=> Held(r) \/ r = Head(pool)
      BY <1>2, <2>1, <3>1
    <3> QED
      BY <1>1, <1>2, <1>g, <2>1, <2>2, <3>1, <3>2, <3>3
  <2>4. CASE pc'[t] = "ret"
    <3>1. /\ pool' = Append(Tail(pool), Head(pool)) /\ rdr' = rdr
          /\ pc' = [pc EXCEPT ![t] = "ret"]
      BY <1>2, <1>7, <2>4 DEF GetLookup, PopReader, PushReader
    <3>2. /\ Distinct(pool')
          /\ \A x : InQueue(pool', x) <=> InQueue(Tail(pool), x) \/ x = Head(pool)
      BY <2>2, <3>1, PushQueue
    <3>3. \A r : HeldNext(r) <=> Held(r)
      BY <1>2, <2>1, <3>1
    <3> QED
      BY <1>1, <1>2, <1>g, <2>1, <2>2, <3>1, <3>2, <3>3
  <2> QED
    BY <2>0, <2>3, <2>4
<1>8. ASSUME NEW t \in Threads, GetRead(t)
      PROVE  Conserved
  <2>1. /\ pc[t] = "read" /\ rdr[t] \in Readers /\ ~InQueue(pool, rdr[t])
    BY <1>1, <1>2, <1>8 DEF GetRead
  <2>2. /\ rdr' = [rdr EXCEPT ![t] = 0] /\ pc' = [pc EXCEPT ![t] = "ret"]
        /\ \/ pool' = Append(pool, rdr[t])
           \/ pool' = pool /\ ~SmallEntries
    BY <1>8, <2>1, ReadDoesNotPanic DEF GetRead, PushReader
  <2>3. \A r \in Readers : HeldNext(r) <=> Held(r) /\ r # rdr[t]
    BY <1>1, <1>2, <2>1, <2>2
  <2>4. CASE pool' = Append(pool, rdr[t])
    <3>1. /\ Distinct(pool')
          /\ \A x : InQueue(pool', x) <=> InQueue(pool, x) \/ x = rdr[t]
      BY <1>1, <1>2, <2>1, <2>4, PushQueue
    <3> QED
      BY <1>1, <1>2, <1>g, <2>1, <2>2, <2>3, <3>1
  <2>5. CASE pool' = pool /\ ~SmallEntries
    BY <1>1, <1>2, <1>g, <2>1, <2>2, <2>3, <2>5
  <2> QED
    BY <2>2, <2>4, <2>5
<1> QED
  BY <1>3, <1>4, <1>5, <1>6, <1>7, <1>8, WhoMoves

\* No Reader is twice in the queue, in the queue and in use, or in use twice, in
\* every reachable state, so that no push finds the queue full; and as long as
\* every entry written fits in a BufWriter no Reader is lost: no get panics, for
\* the reason KeydirValid gives.
THEOREM ReadersCorrect == Spec => []ReadersConserved
<1>1. Init => ReadersConserved
  <2> SUFFICES ASSUME Init PROVE ReadersConserved
    OBVIOUS
  <2>1. /\ pool = [r \in 1..Concurrency |-> r] /\ Len(pool) = Concurrency
    BY ConcurrencyAssumption DEF Init, Readers
  <2> QED
    BY <2>1, ConcurrencyAssumption DEF Init, ReadersConserved, Readers
<1>2. RefInv /\ ReadersConserved /\ [Next]_vars => ReadersConserved'
  BY ConservedStep DEF RefInv
<1> QED
  BY <1>1, <1>2, RefInvariant, PTL DEF Spec

-----------------------------------------------------------------------------
(* The instance implements KVStore *)

\* The store shows a value for the keys of the KeyDir and none for others.
LEMMA ViewValues ==
  ASSUME IndInv, NEW k \in Keys
  PROVE  /\ k \in DOMAIN keydir => View[k] = ValueAt(keydir[k]) /\ View[k] \in Values
         /\ k \notin DOMAIN keydir => View[k] = NoValue
<1>1. k \in DOMAIN keydir => Locates(data, keydir[k], k)
  BY DEF IndInv, KeydirValid
<1>2. data \in [DOMAIN data -> DataFiles] /\ \A f \in DOMAIN data : WellFormed(data[f])
  BY DEF IndInv, TypeOK, LogInv
<1> QED
  BY <1>1, <1>2, ReadLocated DEF View, ValueAt

\* The entry of a key in the KeyDir reads the same after any step.
LEMMA KeyStable ==
  ASSUME IndInv, IndInv', [Next]_vars, NEW k \in DOMAIN keydir
  PROVE  ReadAt(data'[keydir[k].fileid], keydir[k].pos, keydir[k].len) = ValueAt(keydir[k])
<1>1. Locates(data, keydir[k], k)
  BY DEF IndInv, KeydirValid
<1> QED
  BY <1>1, DataGrows, InvParts, ReadStable DEF ValueAt

\* A step that leaves the KeyDir alone, or points keys of it at entries that
\* hold the same, changes nothing in the store.
LEMMA ViewSame ==
  ASSUME IndInv, IndInv', [Next]_vars, DOMAIN keydir' = DOMAIN keydir,
         \A k \in DOMAIN keydir :
           ReadAt(data'[keydir'[k].fileid], keydir'[k].pos, keydir'[k].len) = ValueAt(keydir[k])
  PROVE  View' = View
BY DEF View, ValueAt

\* So does one that leaves the whole KeyDir alone.
LEMMA ViewKept ==
  ASSUME IndInv, IndInv', [Next]_vars, keydir' = keydir
  PROVE  View' = View
BY KeyStable, ViewSame

\* A get under way is bound to what it has looked up, whatever step is taken.
LEMMA ResultKept ==
  ASSUME IndInv, IndInv', ReadInv, [Next]_vars, NEW t \in Threads,
         \/ pc[t] = "read" /\ pc'[t] = "read" /\ ent'[t] = ent[t]
         \/ pc[t] # "read" /\ pc'[t] # "read" /\ res'[t] = res[t]
  PROVE  CallResult'[t] = CallResult[t]
<1>1. CASE pc[t] = "read" /\ pc'[t] = "read" /\ ent'[t] = ent[t]
  <2>1. Locates(data, ent[t], req[t].key)
    BY <1>1 DEF ReadInv
  <2>2. ReadAt(data'[ent[t].fileid], ent[t].pos, ent[t].len) = ValueAt(ent[t])
    BY <2>1, DataGrows, InvParts, ReadStable DEF ValueAt
  <2> QED
    BY <1>1, <2>2 DEF CallResult, ValueAt
<1>2. CASE pc[t] # "read" /\ pc'[t] # "read" /\ res'[t] = res[t]
  BY <1>2 DEF CallResult
<1> QED
  BY <1>1, <1>2

\* A step of the background tasks, of the owner of the Bitcask, or of none:
\* the store's clients see nothing of it but the closing.
LEMMA TaskRefines ==
  ASSUME RefInv, IndInv', [Next]_vars, UNCHANGED callVars
  PROVE  KV!Shut \/ UNCHANGED KV!kvars
<1>0. IndInv /\ ReadInv /\ CopyInv
  BY DEF RefInv
<1>1. CallState' = CallState /\ req' = req
  BY DEF callVars, CallState
<1>2. CallResult' = CallResult
  <2>1. \A t \in Threads : CallResult'[t] = CallResult[t]
    BY <1>0, ResultKept DEF callVars
  <2> QED
    BY <2>1 DEF CallResult
<1>3. View' = View
  <2>1. CASE keydir' = keydir
    BY <1>0, <2>1, ViewKept
  <2>2. CASE MergeKeydirSet
    <3>1. PICK k \in DOMAIN mnew : keydir' = Upd(keydir, k, mnew[k])
      BY <2>2 DEF MergeKeydirSet
    <3>2. k \in DOMAIN keydir /\ ValueAt(mnew[k]) = ValueAt(keydir[k]) /\ UNCHANGED data
      BY <1>0, <2>2 DEF CopyInv, MergeKeydirSet, disk
    <3>3. DOMAIN keydir' = DOMAIN keydir
      BY <3>1, <3>2 DEF Upd
    <3>4. ASSUME NEW j \in DOMAIN keydir
          PROVE  ReadAt(data'[keydir'[j].fileid], keydir'[j].pos, keydir'[j].len) = ValueAt(keydir[j])
      BY <3>1, <3>2 DEF Upd, ValueAt
    <3> QED
      BY <1>0, <3>3, <3>4, ViewSame
  <2>3. ASSUME NEW t \in Threads, KeydirSet(t) \/ KeydirRemove(t)
        PROVE  FALSE
    BY <1>0, <2>3 DEF KeydirSet, KeydirRemove, callVars, IndInv, TypeOK
  <2> QED
    BY <2>1, <2>2, <2>3
       DEF Next, vars, ctx, Call, Write, GetLookup, GetRead, Return, Close, MergeTick, MergeSkip,
           MergeBegin, MergeStep, MergeCopy, MergeRemoveHint, MergeRemoveData, MergeFinish,
           MergeStop, SyncTick, SyncActive, SyncStop
<1>4. closed' = closed \/ (~closed /\ closed')
  BY <1>0 DEF Next, vars, ctx, Call, Write, KeydirSet, KeydirRemove, GetLookup, GetRead, Return,
         Close, MergeTick, MergeSkip, MergeBegin, MergeStep, MergeCopy, MergeKeydirSet,
         MergeRemoveHint, MergeRemoveData, MergeFinish, MergeStop, SyncTick, SyncActive, SyncStop
<1>5. closed \in BOOLEAN /\ closed' \in BOOLEAN
  BY <1>0 DEF IndInv, TypeOK
<1> QED
  BY <1>1, <1>2, <1>3, <1>4, <1>5 DEF KV!Shut, KV!kvars

\* A step of thread t changes the abstract state of t's call and no other.
LEMMA OneCall ==
  ASSUME IndInv, IndInv', ReadInv, [Next]_vars, NEW t \in Threads,
         \A u \in Threads \ {t} : pc'[u] = pc[u] /\ ent'[u] = ent[u] /\ res'[u] = res[u]
  PROVE  /\ CallState' = [CallState EXCEPT ![t] = CallState'[t]]
         /\ CallResult' = [CallResult EXCEPT ![t] = CallResult'[t]]
<1>1. \A u \in Threads \ {t} : CallResult'[u] = CallResult[u]
  BY ResultKept
<1>2. \A u \in Threads \ {t} : CallState'[u] = CallState[u]
  <2>1. pc \in [Threads -> {"idle", "wait", "index", "read", "ret"}]
    BY DEF IndInv, TypeOK
  <2> QED
    BY <2>1 DEF CallState
<1>3. CallState' = [CallState EXCEPT ![t] = CallState'[t]]
  <2>1. CallState = [u \in Threads |-> CallState[u]]
    BY DEF CallState
  <2>2. CallState' = [u \in Threads |-> CallState'[u]]
    BY DEF CallState
  <2> QED
    BY <1>2, <2>1, <2>2
<1>4. CallResult' = [CallResult EXCEPT ![t] = CallResult'[t]]
  <2>1. CallResult = [u \in Threads |-> CallResult[u]]
    BY DEF CallResult
  <2>2. CallResult' = [u \in Threads |-> CallResult'[u]]
    BY DEF CallResult
  <2> QED
    BY <1>1, <2>1, <2>2
<1> QED
  BY <1>3, <1>4

\* A call begins; on a closed store it is refused at once.
LEMMA CallRefines ==
  ASSUME RefInv, IndInv', [Next]_vars, NEW t \in Threads, NEW r \in Requests, Call(t, r)
  PROVE  KV!Invoke(t, r)
<1> USE DEF Call, disk, ctx, writer, rds, merge
<1>0. IndInv /\ ReadInv /\ TypeOK
  BY DEF RefInv, IndInv
<1>1. View' = View
  BY <1>0, ViewKept
<1>2. /\ CallState' = [CallState EXCEPT ![t] = CallState'[t]]
      /\ CallResult' = [CallResult EXCEPT ![t] = CallResult'[t]]
  BY <1>0, OneCall DEF TypeOK
<1>3. /\ CallState[t] = "idle" /\ CallState'[t] = IF closed THEN "done" ELSE "called"
      /\ CallResult'[t] = IF closed THEN "closed" ELSE CallResult[t]
  BY <1>0 DEF CallState, CallResult, TypeOK
<1> HIDE DEF Call
<1>4. req' = [req EXCEPT ![t] = r] /\ closed' = closed
  BY DEF Call
<1> QED
  BY <1>1, <1>2, <1>3, <1>4 DEF KV!Invoke

\* Appending the entry, fsync and rotation are invisible.
LEMMA WriteRefines ==
  ASSUME RefInv, IndInv', [Next]_vars, NEW t \in Threads, Write(t)
  PROVE  UNCHANGED KV!kvars
<1>0. IndInv /\ ReadInv /\ TypeOK
  BY DEF RefInv, IndInv
<1>1. /\ keydir' = keydir /\ closed' = closed /\ req' = req /\ res' = res /\ pc[t] = "wait"
      /\ pc' = [pc EXCEPT ![t] = "index"] /\ \A u \in Threads \ {t} : ent'[u] = ent[u]
  BY <1>0 DEF Write, ctx, TypeOK
<1>2. View' = View
  BY <1>0, <1>1, ViewKept
<1>3. CallState' = CallState
  BY <1>0, <1>1 DEF CallState, TypeOK
<1>4. \A u \in Threads : CallResult'[u] = CallResult[u]
  BY <1>0, <1>1, ResultKept DEF TypeOK
<1>5. CallResult' = CallResult
  BY <1>4 DEF CallResult
<1> QED
  BY <1>1, <1>2, <1>3, <1>5 DEF KV!kvars

\* A set or del takes effect when it changes the KeyDir.
LEMMA IndexRefines ==
  ASSUME RefInv, IndInv', [Next]_vars, NEW t \in Threads, KeydirSet(t) \/ KeydirRemove(t)
  PROVE  KV!Apply(t)
<1>0. IndInv /\ ReadInv /\ PutInv /\ TypeOK
  BY DEF RefInv, IndInv
<1> DEFINE k == req[t].key
<1>1. /\ pc[t] = "index" /\ UNCHANGED <<data, req, ent, closed>> /\ pc' = [pc EXCEPT ![t] = "ret"]
      /\ req[t] \in Requests /\ k \in Keys
      /\ \A u \in Threads \ {t} : res'[u] = res[u]
  BY <1>0 DEF KeydirSet, KeydirRemove, disk, TypeOK, Requests, NoReq
<1>2. /\ CallState' = [CallState EXCEPT ![t] = CallState'[t]]
      /\ CallResult' = [CallResult EXCEPT ![t] = CallResult'[t]]
  BY <1>0, <1>1, OneCall DEF TypeOK
<1>3. /\ CallState[t] = "called" /\ CallState'[t] = "done" /\ CallResult'[t] = res'[t]
  BY <1>0, <1>1 DEF CallState, CallResult, TypeOK
<1>4. \A j \in Keys \ {k} : View'[j] = View[j]
  BY <1>0, <1>1 DEF KeydirSet, KeydirRemove, View, ValueAt, Upd, Without
<1>5. View'[k] = req[t].val
  <2>1. CASE KeydirSet(t)
    <3>1. k \in DOMAIN keydir' /\ keydir'[k] = ent[t] /\ ValueAt(ent[t]) = req[t].val
      BY <1>0, <1>1, <2>1 DEF KeydirSet, Upd, PutInv
    <3> QED
      BY <1>1, <3>1 DEF View, ValueAt
  <2>2. CASE KeydirRemove(t)
    <3>1. k \notin DOMAIN keydir' /\ req[t].val = NoValue
      BY <1>1, <2>2 DEF KeydirRemove, Without, Requests
    <3> QED
      BY <1>1, <3>1 DEF View
  <2> QED
    BY <2>1, <2>2
<1>6. View' = KV!After(req[t])
  <2>1. req[t].op # "get"
    BY DEF KeydirSet, KeydirRemove
  <2>2. View = [j \in Keys |-> View[j]] /\ View' = [j \in Keys |-> View'[j]]
    BY DEF View
  <2> HIDE DEF View
  <2>3. View' = [View EXCEPT ![k] = req[t].val]
    BY <1>1, <1>4, <1>5, <2>2
  <2> QED
    BY <2>1, <2>3 DEF KV!After
<1>7. res'[t] = KV!Result(req[t])
  <2>1. CASE KeydirSet(t)
    BY <1>0, <2>1 DEF KeydirSet, TypeOK, KV!Result
  <2>2. CASE KeydirRemove(t)
    <3>1. res'[t] = DelResult(k) /\ req[t].op = "del"
      BY <1>0, <2>2 DEF KeydirRemove, TypeOK
    <3>2. View[k] = NoValue <=> k \notin DOMAIN keydir
      BY <1>0, <1>1, ViewValues, ValuesAssumption
    <3> HIDE DEF View
    <3> QED
      BY <3>1, <3>2 DEF DelResult, KV!Result
  <2> QED
    BY <2>1, <2>2
<1> QED
  BY <1>1, <1>2, <1>3, <1>6, <1>7 DEF KV!Apply

\* A get takes effect when it looks its key up, or misses its key while the
\* entry is being replaced.
LEMMA LookupRefines ==
  ASSUME RefInv, IndInv', [Next]_vars, NEW t \in Threads, GetLookup(t)
  PROVE  KV!Apply(t) \/ KV!GetMisses(t)
<1>0. IndInv /\ ReadInv /\ TypeOK
  BY DEF RefInv, IndInv
<1> DEFINE k == req[t].key
<1>1. /\ pc[t] = "wait" /\ req[t].op = "get" /\ UNCHANGED <<data, keydir, req, closed>>
      /\ req[t] \in Requests /\ k \in Keys
      /\ \A u \in Threads \ {t} : pc'[u] = pc[u] /\ ent'[u] = ent[u] /\ res'[u] = res[u]
  BY <1>0 DEF GetLookup, disk, ctx, TypeOK, Requests, NoReq
<1>2. /\ CallState' = [CallState EXCEPT ![t] = CallState'[t]]
      /\ CallResult' = [CallResult EXCEPT ![t] = CallResult'[t]]
  BY <1>0, <1>1, OneCall
<1>3. CallState[t] = "called" /\ CallState'[t] = "done"
  BY <1>0, <1>1 DEF GetLookup, CallState, TypeOK
<1>4. View' = View
  BY <1>0, <1>1, ViewKept
<1>5. CallResult'[t] = View[k] \/ (k \in Replacing /\ CallResult'[t] = NoValue)
  <2>1. \/ k \in DOMAIN keydir /\ pc'[t] = "read" /\ ent'[t] = keydir[k]
        \/ (k \notin DOMAIN keydir \/ k \in Replacing) /\ pc'[t] = "ret" /\ res'[t] = NoValue
    BY <1>0 DEF GetLookup, TypeOK
  <2>2. CASE k \in DOMAIN keydir /\ pc'[t] = "read" /\ ent'[t] = keydir[k]
    BY <1>1, <2>2 DEF CallResult, ValueAt, View
  <2>3. CASE /\ k \notin DOMAIN keydir \/ k \in Replacing
             /\ pc'[t] = "ret" /\ res'[t] = NoValue
    BY <1>1, <2>3 DEF CallResult, View
  <2> QED
    BY <2>1, <2>2, <2>3
<1>6. KV!After(req[t]) = View /\ KV!Result(req[t]) = View[k]
  <2> HIDE DEF View
  <2> QED
    BY <1>1 DEF KV!After, KV!Result
<1>7. CASE CallResult'[t] = View[k]
  BY <1>1, <1>2, <1>3, <1>4, <1>6, <1>7 DEF KV!Apply
<1>8. CASE k \in Replacing /\ CallResult'[t] = NoValue
  BY <1>1, <1>2, <1>3, <1>4, <1>8 DEF KV!GetMisses
<1> QED
  BY <1>5, <1>7, <1>8

\* The read returns what was looked up, an I/O error where the file has been
\* removed since, or panics where its map ends inside the entry.
LEMMA ReadRefines ==
  ASSUME RefInv, IndInv', [Next]_vars, NEW t \in Threads, GetRead(t)
  PROVE  KV!GetFails(t) \/ UNCHANGED KV!kvars
<1>0. IndInv /\ ReadInv /\ TypeOK
  BY DEF RefInv, IndInv
<1>1. /\ pc[t] = "read" /\ pc'[t] = "ret" /\ UNCHANGED <<data, keydir, req, closed>>
      /\ req[t].op = "get"
      /\ \A u \in Threads \ {t} : pc'[u] = pc[u] /\ ent'[u] = ent[u] /\ res'[u] = res[u]
      /\ res'[t] = ReadResult(cache[rdr[t]], ent[t]) \/ res'[t] = "panic"
  BY <1>0 DEF GetRead, disk, ctx, TypeOK, ReadInv
<1>2. /\ CallState' = [CallState EXCEPT ![t] = CallState'[t]]
      /\ CallResult' = [CallResult EXCEPT ![t] = CallResult'[t]]
  BY <1>0, <1>1, OneCall
<1>3. CallState[t] = "done" /\ CallState'[t] = "done" /\ CallState' = CallState
  <2>1. CallState[t] = "done" /\ CallState'[t] = "done"
    BY <1>1 DEF CallState
  <2>2. CallState = [u \in Threads |-> CallState[u]]
    BY DEF CallState
  <2> QED
    BY <1>2, <2>1, <2>2
<1>4. View' = View
  BY <1>0, <1>1, ViewKept
<1>5. CallResult'[t] \in {"io_error", "panic"} \/ CallResult'[t] = CallResult[t]
  BY <1>1 DEF CallResult, ReadResult, ValueAt
<1>6. CASE CallResult'[t] \in {"io_error", "panic"}
  BY <1>1, <1>2, <1>3, <1>4, <1>6 DEF KV!GetFails
<1>7. CASE CallResult'[t] = CallResult[t]
  <2>1. CallResult' = CallResult
    BY <1>2, <1>7 DEF CallResult
  <2> QED
    BY <1>1, <1>3, <1>4, <2>1 DEF KV!kvars
<1> QED
  BY <1>5, <1>6, <1>7

\* The call returns.
LEMMA ReturnRefines ==
  ASSUME RefInv, IndInv', [Next]_vars, NEW t \in Threads, Return(t)
  PROVE  KV!Return(t)
<1>0. IndInv /\ ReadInv /\ TypeOK
  BY DEF RefInv, IndInv
<1>1. /\ pc[t] = "ret" /\ pc'[t] = "idle" /\ res'[t] = "none"
      /\ UNCHANGED <<keydir, closed>> /\ req' = [req EXCEPT ![t] = NoReq]
      /\ \A u \in Threads \ {t} : pc'[u] = pc[u] /\ ent'[u] = ent[u] /\ res'[u] = res[u]
  BY <1>0 DEF Return, ctx, TypeOK
<1>2. /\ CallState' = [CallState EXCEPT ![t] = CallState'[t]]
      /\ CallResult' = [CallResult EXCEPT ![t] = CallResult'[t]]
  BY <1>0, <1>1, OneCall
<1>3. CallState[t] = "done" /\ CallState'[t] = "idle" /\ CallResult'[t] = "none"
  BY <1>0, <1>1 DEF CallState, CallResult
<1>4. View' = View
  BY <1>0, <1>1, ViewKept
<1> QED
  BY <1>1, <1>2, <1>3, <1>4 DEF KV!Return, KV!NoCall, NoReq

\* Every step of a running instance is one of KVStore, or is invisible.
LEMMA RefinesStep ==
  ASSUME RefInv, RefInv', [Next]_vars
  PROVE  KV!Next \/ UNCHANGED KV!kvars
<1>0. IndInv'
  BY DEF RefInv
<1>1. CASE UNCHANGED callVars
  BY <1>0, <1>1, TaskRefines DEF KV!Next
<1>2. ASSUME NEW t \in Threads, NEW r \in Requests, Call(t, r)
      PROVE  KV!Next
  BY <1>0, <1>2, CallRefines DEF KV!Next, KV!Requests, Requests
<1>3. ASSUME NEW t \in Threads, Write(t)
      PROVE  UNCHANGED KV!kvars
  BY <1>0, <1>3, WriteRefines
<1>4. ASSUME NEW t \in Threads, KeydirSet(t) \/ KeydirRemove(t) \/ GetLookup(t)
      PROVE  KV!Next
  BY <1>0, <1>4, IndexRefines, LookupRefines DEF KV!Next
<1>5. ASSUME NEW t \in Threads, GetRead(t)
      PROVE  KV!Next \/ UNCHANGED KV!kvars
  BY <1>0, <1>5, ReadRefines DEF KV!Next
<1>6. ASSUME NEW t \in Threads, Return(t)
      PROVE  KV!Next
  BY <1>0, <1>6, ReturnRefines DEF KV!Next
<1> QED
  BY <1>1, <1>2, <1>3, <1>4, <1>5, <1>6, WhoMoves

\* A running instance implements KVStore: whatever threads, merges and syncs
\* interleave, every set, del and get takes effect at one instant between its
\* call and its return, but for a get that misses a key whose KeyDir entry is
\* being replaced.
THEOREM ImplementsKVStore == Spec => RefinesKVStore
<1>1. Init => KV!Init
  BY DEF Init, KV!Init, View, CallState, CallResult, EmptyMap, NoReq, KV!NoCall
<1>2. RefInv /\ RefInv' /\ [Next]_vars => [KV!Next]_(KV!kvars)
  BY RefinesStep
<1> QED
  BY <1>1, <1>2, RefInvariant, PTL DEF Spec, RefinesKVStore, KV!Spec

-----------------------------------------------------------------------------
(* Without merges the KeyDir is what the log says *)

\* No merge has begun: there is neither a hint file nor a file to remove.
NoMergeInv == nmerges = 0 => DOMAIN hint = {} /\ mpc # "merge"

\* The Writer has counted the bytes of its active file.
WrittenInv == data[active].size = written

\* Position p of file f is not after position q of file g.
UpTo(f, p, g, q) == f < g \/ (f = g /\ p <= q)

\* A thread has appended the entry at position p of f and not yet indexed it.
InHand(f, p) == \E t \in Threads : pc[t] = "index" /\ ent[t].fileid = f /\ ent[t].pos = p

\* rec is an entry of key k in file f that has been indexed.
Logged(k, f, rec) ==
  f \in files /\ rec \in data[f].recs /\ rec.key = k /\ ~InHand(f, rec.pos)

\* No indexed entry of key k comes after position q of file g.
LastLogged(k, g, q) == \A f, rec : Logged(k, f, rec) => UpTo(f, rec.pos, g, q)

\* A key that is absent has never been set, or its last entry is a tombstone.
Erased(k) ==
  \/ \A f, rec : ~Logged(k, f, rec)
  \/ \E g, tomb : Logged(k, g, tomb) /\ tomb.val = NoValue /\ LastLogged(k, g, tomb.pos)

\* What a thread has appended and not indexed is the end of the log.
AppendedInv ==
  \A t \in Threads : pc[t] = "index" =>
    /\ ent[t].fileid \in files
    /\ \E rec \in data[ent[t].fileid].recs :
         rec.pos = ent[t].pos /\ rec.key = req[t].key /\ rec.val = req[t].val
    /\ \A f \in files : \A rec \in data[f].recs : UpTo(f, rec.pos, ent[t].fileid, ent[t].pos)

\* Each key points at the last of its entries in the log.
LatestInv ==
  /\ AppendedInv
  /\ \A k \in DOMAIN keydir : LastLogged(k, keydir[k].fileid, keydir[k].pos)
  /\ \A k \in Keys \ DOMAIN keydir : Erased(k)

\* A step that changes no set of indexed entries.
LEMMA LoggedKept ==
  ASSUME \A k, f, rec : Logged(k, f, rec)' <=> Logged(k, f, rec), NEW k
  PROVE  /\ \A g, q : LastLogged(k, g, q)' <=> LastLogged(k, g, q)
         /\ Erased(k)' <=> Erased(k)
<1>1. \A g, q : LastLogged(k, g, q)' <=> LastLogged(k, g, q)
  BY DEF LastLogged, UpTo
<1>2. QED
  BY <1>1 DEF Erased

\* What a step without merging leaves alone.
LEMMA NoMergeStep ==
  ASSUME NoMergeInv, nmerges \in Nat, [Next]_vars, nmerges' = 0
  PROVE  /\ nmerges = 0 /\ mpc # "merge" /\ NoMergeInv'
         /\ ~MergeBegin /\ ~MergeStep
<1>1. MergeBegin => nmerges' = nmerges + 1
  BY DEF MergeBegin
<1>2. ~MergeBegin
  BY <1>1
<1>3. ~MergeBegin => nmerges' = nmerges
  BY DEF Next, Call, Write, KeydirSet, KeydirRemove, GetLookup, GetRead, Return, vars,
         Close, MergeTick, MergeSkip, MergeStep, MergeCopy, MergeKeydirSet, MergeRemoveHint,
         MergeRemoveData, MergeFinish, MergeStop, SyncTick, SyncActive, SyncStop, bounds
<1>4. nmerges = 0 /\ mpc # "merge" /\ DOMAIN hint = {}
  BY <1>2, <1>3 DEF NoMergeInv
<1>5. ~MergeStep
  BY <1>4 DEF MergeStep, MergeCopy, MergeKeydirSet, MergeRemoveHint, MergeRemoveData,
              MergeFinish, Removing
<1>6. hint' = hint /\ mpc' # "merge"
  BY <1>2, <1>4, <1>5
     DEF Next, Call, Write, KeydirSet, KeydirRemove, GetLookup, GetRead, Return, vars,
         Close, MergeTick, MergeSkip, MergeStop, SyncTick, SyncActive, SyncStop, disk, merge
<1>7. QED
  BY <1>2, <1>4, <1>5, <1>6 DEF NoMergeInv

\* What Writer::write does to the data files.
LEMMA WriteLog ==
  ASSUME IndInv, NEW t \in Threads, Write(t)
  PROVE  LET v   == req[t].val
             n   == EntryLen[v]
             b   == active + 1
             new == [pos |-> data[active].size, len |-> n, key |-> req[t].key, val |-> v]
         IN  /\ n \in Nat \ {0} /\ (\A u \in Threads : pc[u] # "index")
             /\ active \in files /\ active \in Nat /\ data[active].size \in Nat
             /\ \A f \in DOMAIN data : f <= active
             /\ \A rec \in data[active].recs : rec.pos < data[active].size
             /\ keydir' = keydir /\ b \notin DOMAIN data
             /\ data'[active].recs = data[active].recs \cup {new}
             /\ data'[active].size = data[active].size + n
             /\ \A f \in DOMAIN data : f # active => data'[f] = data[f]
             /\ \/ files' = files /\ active' = active /\ written' = written + n
                \/ /\ files' = files \cup {b} /\ data'[b] = EmptyFile
                   /\ active' = b /\ written' = 0
             /\ req' = req /\ pc' = [pc EXCEPT ![t] = "index"]
             /\ ent' = [ent EXCEPT ![t] = [fileid |-> active, pos |-> data[active].size, len |-> n]]
<1> DEFINE v == req[t].val
           n == EntryLen[v]
           b == active + 1
           after == AppendEntry(data[active], req[t].key, v, n)
           grown == Upd(data, active, after)
<1>1. req[t] \in Requests \cup {NoReq} /\ req[t].op \in {"set", "del"}
  BY DEF Write, IndInv, TypeOK
<1>2. v \in Values \cup {NoValue}
  BY <1>1 DEF Requests, NoReq
<1>3. n \in Nat \ {0}
  BY <1>2, EntryLenAssumption
<1>4. mpc # "merge" /\ (\A u \in Threads : pc[u] # "index")
  BY ThreadsAssumption DEF Write, IndInv, LockInv
<1>5. /\ active \in files /\ active \in Nat /\ active \in DOMAIN data /\ DOMAIN data \subseteq Nat
      /\ \A f \in DOMAIN data : f <= active
      /\ data[active] \in DataFiles /\ WellFormed(data[active])
  BY <1>4 DEF IndInv, TypeOK, FileInv, LogInv
<1>6. b \notin DOMAIN data /\ b # active
  BY <1>5
<1>7. /\ data[active].size \in Nat
      /\ \A rec \in data[active].recs : rec.pos < data[active].size
  BY <1>5 DEF DataFiles, WellFormed, Records
<1>8. /\ data' = IF Exceeds(n) THEN Upd(grown, b, EmptyFile) ELSE grown
      /\ files' = IF Exceeds(n) THEN files \cup {b} ELSE files
      /\ active' = IF Exceeds(n) THEN b ELSE active
      /\ written' = IF Exceeds(n) THEN 0 ELSE written + n
      /\ keydir' = keydir /\ req' = req /\ pc' = [pc EXCEPT ![t] = "index"]
      /\ ent' = [ent EXCEPT ![t] = [fileid |-> active, pos |-> data[active].size, len |-> n]]
  BY DEF Write, NextFileid, ctx, EntryIndex
<1>9. /\ DOMAIN grown = DOMAIN data /\ grown[active] = after
      /\ \A f \in DOMAIN data : f # active => grown[f] = data[f]
  BY <1>5 DEF Upd
<1>10. /\ after.recs = data[active].recs \cup
                        {[pos |-> data[active].size, len |-> n, key |-> req[t].key, val |-> v]}
       /\ after.size = data[active].size + n
  BY DEF AppendEntry
<1> HIDE DEF n, v, after, grown
<1>11. CASE Exceeds(n)
  <2>1. data'[b] = EmptyFile /\ \A f \in DOMAIN data : data'[f] = grown[f]
    BY <1>6, <1>8, <1>9, <1>11 DEF Upd
  <2>2. QED
    BY <1>3, <1>4, <1>5, <1>6, <1>7, <1>8, <1>9, <1>10, <1>11, <2>1 DEF n, v
<1>12. CASE ~Exceeds(n)
  BY <1>3, <1>4, <1>5, <1>6, <1>7, <1>8, <1>9, <1>10, <1>12 DEF n, v
<1>13. QED
  BY <1>11, <1>12

\* The entry that Writer::write appends is the end of the log and in hand.
LEMMA WriteLatest ==
  ASSUME IndInv, LatestInv, NEW t \in Threads, Write(t)
  PROVE  LatestInv'
<1> DEFINE v   == req[t].val
           n   == EntryLen[v]
           b   == active + 1
           new == [pos |-> data[active].size, len |-> n, key |-> req[t].key, val |-> v]
<1>1. /\ n \in Nat \ {0} /\ (\A u \in Threads : pc[u] # "index")
      /\ active \in files /\ active \in Nat /\ data[active].size \in Nat
      /\ \A f \in DOMAIN data : f <= active
      /\ \A rec \in data[active].recs : rec.pos < data[active].size
      /\ keydir' = keydir /\ b \notin DOMAIN data
      /\ data'[active].recs = data[active].recs \cup {new}
      /\ \A f \in DOMAIN data : f # active => data'[f] = data[f]
      /\ \/ files' = files
         \/ files' = files \cup {b} /\ data'[b] = EmptyFile
      /\ req' = req /\ pc' = [pc EXCEPT ![t] = "index"]
      /\ ent' = [ent EXCEPT ![t] = [fileid |-> active, pos |-> data[active].size, len |-> n]]
  BY WriteLog
<1>2. /\ files \subseteq DOMAIN data /\ DOMAIN data \subseteq Nat
      /\ pc \in [Threads -> {"idle", "wait", "index", "read", "ret"}]
      /\ ent \in [Threads -> Entries \cup {NoEnt}]
      /\ \A f \in DOMAIN data : \A rec \in data[f].recs : rec.pos \in Nat
  BY DEF IndInv, TypeOK, DataFiles, Records
<1>3. /\ new.pos = data[active].size /\ new.key = req[t].key /\ new.val = v
      /\ EmptyFile.recs = {}
  BY DEF EmptyFile
<1>4. /\ pc'[t] = "index" /\ ent'[t].fileid = active /\ ent'[t].pos = data[active].size
      /\ \A u \in Threads : pc'[u] = "index" => u = t
  BY <1>1, <1>2
<1> HIDE DEF new, n
<1>5. ASSUME NEW f \in files', NEW rec \in data'[f].recs
      PROVE  \/ f \in files /\ rec \in data[f].recs
                /\ (f < active \/ (f = active /\ rec.pos < data[active].size))
             \/ f = active /\ rec = new
  <2>1. CASE f = active
    BY <1>1, <1>5, <2>1
  <2>2. CASE f \in files /\ f # active
    BY <1>1, <1>2, <1>5, <2>2
  <2>3. CASE f \notin files
    BY <1>1, <1>3, <1>5, <2>3
  <2>4. QED
    BY <2>1, <2>2, <2>3
<1>6. \A f \in files : f \in files' /\ data[f].recs \subseteq data'[f].recs
  BY <1>1, <1>2
<1>7. \A f, p : ~InHand(f, p)
  BY <1>1 DEF InHand
<1>8. \A f, p : InHand(f, p)' <=> f = active /\ p = data[active].size
  BY <1>4 DEF InHand
<1>9. ASSUME NEW k, NEW f, NEW rec
      PROVE  Logged(k, f, rec)' <=> Logged(k, f, rec)
  <2>1. ASSUME Logged(k, f, rec)' PROVE Logged(k, f, rec)
    BY <1>3, <1>5, <1>7, <1>8, <2>1 DEF Logged
  <2>2. ASSUME Logged(k, f, rec) PROVE Logged(k, f, rec)'
    <3>1. f \in files /\ rec \in data[f].recs /\ rec.key = k /\ f \in DOMAIN data
      BY <1>2, <2>2 DEF Logged
    <3>2. ~(f = active /\ rec.pos = data[active].size)
      BY <1>1, <1>2, <3>1
    <3>3. QED
      BY <1>6, <1>8, <3>1, <3>2 DEF Logged
  <2>3. QED
    BY <2>1, <2>2
<1>10. \A k : /\ \A g, q : LastLogged(k, g, q)' <=> LastLogged(k, g, q)
              /\ Erased(k)' <=> Erased(k)
  BY <1>9, LoggedKept
<1>11. AppendedInv'
  <2>1. active \in files' /\ new \in data'[active].recs
    BY <1>1, <1>6
  <2>2. \A f \in files' : \A rec \in data'[f].recs : UpTo(f, rec.pos, active, data[active].size)
    BY <1>1, <1>2, <1>3, <1>5 DEF UpTo
  <2>3. QED
    BY <1>1, <1>3, <1>4, <2>1, <2>2 DEF AppendedInv
<1>12. QED
  BY <1>1, <1>10, <1>11 DEF LatestInv

\* Indexing an entry, or removing the key for a tombstone, makes the end of
\* the log the last entry of the key.
LEMMA IndexLatest ==
  ASSUME IndInv, LatestInv, NEW t \in Threads, KeydirSet(t) \/ KeydirRemove(t)
  PROVE  LatestInv'
<1> DEFINE key == req[t].key
<1>1. /\ pc[t] = "index" /\ UNCHANGED <<data, files, req, ent>>
      /\ pc' = [pc EXCEPT ![t] = "ret"]
  BY DEF KeydirSet, KeydirRemove, disk
<1>2. /\ pc \in [Threads -> {"idle", "wait", "index", "read", "ret"}]
      /\ req[t] \in Requests \cup {NoReq} /\ lock = t
      /\ \A u \in Threads : pc[u] = "index" => u = t
  BY <1>1 DEF IndInv, TypeOK, LockInv
<1>3. \A f, p : ~InHand(f, p)'
  BY <1>1, <1>2 DEF InHand
<1>4. AppendedInv'
  BY <1>1, <1>2 DEF AppendedInv
<1>5. PICK new \in data[ent[t].fileid].recs :
        /\ ent[t].fileid \in files /\ new.pos = ent[t].pos /\ new.key = key
        /\ new.val = req[t].val
        /\ \A f \in files : \A rec \in data[f].recs : UpTo(f, rec.pos, ent[t].fileid, ent[t].pos)
  BY <1>1 DEF LatestInv, AppendedInv
<1>6. LastLogged(key, ent[t].fileid, ent[t].pos)'
  BY <1>1, <1>5 DEF LastLogged, Logged
<1>7. Logged(key, ent[t].fileid, new)'
  BY <1>1, <1>3, <1>5 DEF Logged
<1>8. ASSUME NEW k, k # key
      PROVE  /\ \A g, q : LastLogged(k, g, q) => LastLogged(k, g, q)'
             /\ Erased(k) => Erased(k)'
  <2>1. ASSUME NEW f, NEW rec PROVE Logged(k, f, rec)' <=> Logged(k, f, rec)
    <3>1. ASSUME f \in files, rec \in data[f].recs, InHand(f, rec.pos)
          PROVE  rec.key = key
      <4>1. f = ent[t].fileid /\ rec.pos = new.pos
        BY <1>2, <1>5, <3>1 DEF InHand
      <4>2. WellFormed(data[f])
        BY <3>1 DEF IndInv, LogInv, TypeOK
      <4>3. rec = new
        BY <1>5, <3>1, <4>1, <4>2 DEF WellFormed
      <4>4. QED
        BY <1>5, <4>3
    <3>2. QED
      BY <1>1, <1>3, <1>8, <3>1 DEF Logged
  <2>2. QED
    BY <2>1 DEF LastLogged, Erased
<1>9. CASE KeydirSet(t)
  <2>1. keydir' = Upd(keydir, key, ent[t])
    BY <1>9 DEF KeydirSet
  <2>2. /\ DOMAIN keydir' = DOMAIN keydir \cup {key} /\ keydir'[key] = ent[t]
        /\ \A k \in DOMAIN keydir : k # key => keydir'[k] = keydir[k]
    BY <2>1 DEF Upd
  <2>3. \A k \in DOMAIN keydir' : LastLogged(k, keydir[k].fileid, keydir[k].pos)'
    BY <1>1, <1>6, <1>8, <2>2 DEF LatestInv
  <2>4. \A k \in Keys \ DOMAIN keydir' : Erased(k)'
    BY <1>8, <2>2 DEF LatestInv
  <2>5. QED
    BY <1>4, <2>3, <2>4 DEF LatestInv
<1>10. CASE KeydirRemove(t)
  <2>1. keydir' = Without(keydir, key) /\ req[t].op = "del"
    BY <1>10 DEF KeydirRemove
  <2>2. /\ DOMAIN keydir' = DOMAIN keydir \ {key}
        /\ \A k \in DOMAIN keydir' : keydir'[k] = keydir[k]
    BY <2>1 DEF Without
  <2>3. req[t].val = NoValue
    BY <1>2, <2>1 DEF Requests, NoReq
  <2>4. Erased(key)'
    BY <1>1, <1>5, <1>6, <1>7, <2>3 DEF Erased
  <2>5. \A k \in DOMAIN keydir' : LastLogged(k, keydir[k].fileid, keydir[k].pos)'
    BY <1>8, <2>2 DEF LatestInv
  <2>6. \A k \in Keys \ DOMAIN keydir' : Erased(k)'
    BY <1>1, <1>8, <2>2, <2>4 DEF LatestInv
  <2>7. QED
    BY <1>4, <2>5, <2>6 DEF LatestInv
<1>11. QED
  BY <1>9, <1>10

\* A step that leaves the log, the KeyDir and the entries in hand alone.
LEMMA QuietLatest ==
  ASSUME LatestInv, UNCHANGED <<data, files, keydir>>,
         \A t \in Threads : /\ pc'[t] = "index" <=> pc[t] = "index"
                            /\ pc[t] = "index" => req'[t] = req[t] /\ ent'[t] = ent[t]
  PROVE  LatestInv'
<1>1. \A f, p : InHand(f, p)' <=> InHand(f, p)
  BY DEF InHand
<1>2. \A k, f, rec : Logged(k, f, rec)' <=> Logged(k, f, rec)
  BY <1>1 DEF Logged
<1>3. \A k : /\ \A g, q : LastLogged(k, g, q)' <=> LastLogged(k, g, q)
             /\ Erased(k)' <=> Erased(k)
  BY <1>2, LoggedKept
<1>4. AppendedInv'
  BY DEF LatestInv, AppendedInv
<1>5. QED
  BY <1>3, <1>4 DEF LatestInv

\* As long as no merge has begun, every step keeps the KeyDir at the last
\* entries of the log.
LEMMA LatestStep ==
  ASSUME IndInv, NoMergeInv, LatestInv, [Next]_vars, nmerges' = 0
  PROVE  LatestInv'
<1>1. ~MergeBegin /\ ~MergeStep
  BY NoMergeStep DEF IndInv, TypeOK
<1>2. ASSUME NEW t \in Threads, NEW r \in Requests, Call(t, r)
      PROVE  LatestInv'
  <2>1. UNCHANGED <<data, files, keydir>>
    BY <1>2 DEF Call, disk, ctx
  <2>2. \A u \in Threads : /\ pc'[u] = "index" <=> pc[u] = "index"
                           /\ pc[u] = "index" => req'[u] = req[u] /\ ent'[u] = ent[u]
    BY <1>2 DEF Call, IndInv, TypeOK
  <2>3. QED
    BY <2>1, <2>2, QuietLatest
<1>3. ASSUME NEW t \in Threads, GetLookup(t) \/ GetRead(t) \/ Return(t)
      PROVE  LatestInv'
  <2>1. UNCHANGED <<data, files, keydir>>
    BY <1>3 DEF GetLookup, GetRead, Return, disk, ctx
  <2>2. \A u \in Threads : /\ pc'[u] = "index" <=> pc[u] = "index"
                           /\ pc[u] = "index" => req'[u] = req[u] /\ ent'[u] = ent[u]
    BY <1>3 DEF GetLookup, GetRead, Return, IndInv, TypeOK
  <2>3. QED
    BY <2>1, <2>2, QuietLatest
<1>4. CASE \/ Close \/ MergeTick \/ MergeSkip \/ MergeStop \/ SyncTick \/ SyncActive \/ SyncStop
           \/ UNCHANGED vars
  <2>1. UNCHANGED <<data, files, keydir, pc, req, ent>>
    BY <1>4 DEF Close, MergeTick, MergeSkip, MergeStop, SyncTick, SyncActive, SyncStop, vars,
                disk, ctx, calls
  <2>2. QED
    BY <2>1, QuietLatest
<1>5. QED
  BY <1>1, <1>2, <1>3, <1>4, WriteLatest, IndexLatest DEF Next

\* The size of the active file is counted at every step.
LEMMA WrittenStep ==
  ASSUME IndInv, WrittenInv, [Next]_vars
  PROVE  WrittenInv'
<1>0. /\ active \in DOMAIN data /\ active \in Nat /\ mid \in Nat /\ DOMAIN data \subseteq Nat
      /\ \A f \in DOMAIN data : f <= (IF mpc = "merge" THEN mid ELSE active)
      /\ mpc = "merge" => active < mid
  BY DEF IndInv, TypeOK, FileInv, MergeInv
<1>1. ASSUME NEW t \in Threads, Write(t) PROVE WrittenInv'
  BY <1>1, WriteLog DEF WrittenInv, EmptyFile
<1>2. CASE MergeBegin
  BY <1>0, <1>2 DEF MergeBegin, WrittenInv, Upd, NextFileid, IndInv, MergeInv, LockInv
<1>3. CASE MergeCopy
  <2>1. PICK k \in mtodo : \E rec \in CopySource(k) : CopyEntry(k, rec)
    BY <1>3 DEF MergeCopy
  <2>2. PICK rec \in CopySource(k) : CopyEntry(k, rec)
    BY <2>1
  <2>3. active < mid /\ active' = active /\ written' = written
    BY <1>0, <1>3 DEF MergeCopy
  <2>4. data'[active] = data[active]
    BY <1>0, <2>2, <2>3 DEF CopyEntry, Upd
  <2>5. QED
    BY <2>3, <2>4 DEF WrittenInv
<1>4. CASE MergeFinish
  BY <1>4 DEF MergeFinish, WrittenInv, Upd, EmptyFile
<1>5. CASE UNCHANGED <<data, active, written>>
  BY <1>5 DEF WrittenInv
<1>6. QED
  BY <1>1, <1>2, <1>3, <1>4, <1>5
     DEF Next, vars, disk, writer, Call, KeydirSet, KeydirRemove, GetLookup, GetRead, Return, Close,
         MergeTick, MergeSkip, MergeStep, MergeKeydirSet, MergeRemoveHint, MergeRemoveData,
         MergeStop, SyncTick, SyncActive, SyncStop

\* An empty directory has nothing to index.
LEMMA LatestInit ==
  ASSUME Init
  PROVE  NoMergeInv /\ LatestInv /\ WrittenInv
<1>1. /\ DOMAIN keydir = {} /\ DOMAIN hint = {} /\ mpc # "merge"
      /\ data[0].recs = {} /\ data[0].size = 0 /\ files = {0} /\ active = 0 /\ written = 0
      /\ \A t \in Threads : pc[t] = "idle"
  BY DEF Init, EmptyMap, EmptyFile
<1>2. \A k, f, rec : ~Logged(k, f, rec)
  BY <1>1 DEF Logged
<1>3. QED
  BY <1>1, <1>2 DEF NoMergeInv, LatestInv, WrittenInv, AppendedInv, Erased
=============================================================================
