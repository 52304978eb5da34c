----------------------------- MODULE BitcaskLog -----------------------------
(***************************************************************************)
(* The values the storage engine works on and the pure operations on them  *)
(* (src/src/storage/bitcask/log.rs, bufio.rs, and the entry types of       *)
(* bitcask.rs and context.rs).                                             *)
(*                                                                         *)
(* A data file is abstracted to its size in bytes and the set of entries   *)
(* it holds.  An entry keeps the byte range it occupies, so a position     *)
(* that is wrong is visibly wrong; its serialized form and the timestamp,  *)
(* on which nothing in the code depends, are left out.                     *)
(***************************************************************************)
EXTENDS Integers, Sequences

\* A map with one entry inserted or overwritten.
Upd(f, x, v) == [y \in DOMAIN f \cup {x} |-> IF y = x THEN v ELSE f[y]]

\* A map with one entry removed, if it is there.
Without(f, x) == [y \in DOMAIN f \ {x} |-> f[y]]

\* The map with no entry.
EmptyMap == [y \in {} |-> 0]

-----------------------------------------------------------------------------
(* Data files *)

EmptyFile == [size |-> 0, recs |-> {}]

\* LogWriter::append, and the raw copy a merge makes: the entry goes to the
\* end of the file, at the position the buffered writer has counted up to.
AppendEntry(file, key, val, len) ==
  [size |-> file.size + len,
   recs |-> file.recs \cup {[pos |-> file.size, len |-> len, key |-> key, val |-> val]}]

\* The KeyDirEntry of what has just been appended to data file `fileid`.
EntryIndex(fileid, file, len) == [fileid |-> fileid, pos |-> file.size, len |-> len]

\* The entries that bincode::deserialize can decode from bytes pos..pos+len:
\* the slice must begin at an entry and hold all of it; bytes that follow the
\* entry are ignored.
EntriesAt(file, pos, len) == {rec \in file.recs : rec.pos = pos /\ rec.len <= len}

\* LogReader::at on a map of the whole file, followed by taking the entry's
\* value: a slice that runs past the end panics, one that does not begin at an
\* entry yields a deserialization error.  (Bitcask's MapEndsInside is the case
\* of an older map.)
ReadAt(file, pos, len) ==
  IF pos + len > file.size THEN "panic"
  ELSE IF EntriesAt(file, pos, len) = {} THEN "corrupt"
  ELSE (CHOOSE rec \in EntriesAt(file, pos, len) : TRUE).val

-----------------------------------------------------------------------------
(* LogStatistics: the entries of one data file, counted.                   *)

NoStats == [live |-> 0, dead |-> 0, deadBytes |-> 0]

\* HashMap::entry(fileid).or_default()
StatsOf(stats, fileid) == IF fileid \in DOMAIN stats THEN stats[fileid] ELSE NoStats

AddLive(st) == [st EXCEPT !.live = @ + 1]

AddDead(st, nbytes) ==
  [live |-> st.live, dead |-> st.dead + 1, deadBytes |-> st.deadBytes + nbytes]

\* Mutants of Overwrite: the superseded entry is still counted as live; its
\* bytes are not counted as dead.
OverwriteKeepsLive(st, nbytes) ==
  [live |-> st.live, dead |-> st.dead + 1, deadBytes |-> st.deadBytes + nbytes]
OverwriteKeepsBytes(st, nbytes) ==
  [live |-> st.live - 1, dead |-> st.dead + 1, deadBytes |-> st.deadBytes]

Overwrite(st, nbytes) ==
  [live |-> st.live - 1, dead |-> st.dead + 1, deadBytes |-> st.deadBytes + nbytes]

\* The statistics after the entry e is superseded.
SupersedeIn(stats, e) == Upd(stats, e.fileid, Overwrite(StatsOf(stats, e.fileid), e.len))

\* fragmentation() > percent / 100
FragmentationAbove(st, percent) ==
  st.dead # 0 /\ st.dead * 100 > percent * (st.dead + st.live)

-----------------------------------------------------------------------------
(* LogDir: the least-recently-used cache of open data files, oldest first. *)

Cached(cache, fileid) == \E i \in 1..Len(cache) : cache[i] = fileid

\* LruCache::get_mut on a hit moves the file to the young end; LruCache::put
\* on a miss adds it there and drops the oldest file of a full cache.
Touch(cache, fileid, cacheSize) ==
  IF Cached(cache, fileid)
  THEN LET i == CHOOSE j \in 1..Len(cache) : cache[j] = fileid
       IN  [j \in 1..Len(cache) |-> IF j < i THEN cache[j]
                                    ELSE IF j < Len(cache) THEN cache[j + 1]
                                    ELSE fileid]
  ELSE IF Len(cache) < cacheSize THEN Append(cache, fileid)
  ELSE Append(Tail(cache), fileid)

=============================================================================
