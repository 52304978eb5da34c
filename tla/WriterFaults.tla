---------------------------- MODULE WriterFaults ----------------------------
(***************************************************************************)
(* The Writer when the file system fails it (writer.rs, log.rs): an append,*)
(* an fsync, the creation of a file or its removal returns an error, and   *)
(* the code returns it with `?`, leaving its state as it is at that point. *)
(* Everything here runs under the writer's mutex, so the calls follow one  *)
(* another; Bitcask has what readers see of them, without faults.          *)
(*                                                                         *)
(* FaultPoints says where faults happen: "write" (append or fsync of an    *)
(* entry), "rotate" (the new active file), "begin" (the first hint file of *)
(* a merge), "copy" (inside the copying loop), "drop" (the flush of a merge*)
(* file's BufWriter when it is dropped, whose error nobody sees), "remove" *)
(* (of a merged file), "finish" (the active file after a merge).  Hint     *)
(* files, which only an opening reads, are left out.                       *)
(***************************************************************************)
EXTENDS BitcaskLog, FiniteSets

CONSTANTS
  Keys, Values, NoValue,
  EntryLen,
  MaxFileSize,
  TriggerDeadBytes, ThresholdDeadBytes,  \* the other conditions of merges do
                                         \* not apply
  FaultPoints,
  MaxWrites, MaxMerges, MaxFaults        \* bounds of the model

Points == {"write", "rotate", "begin", "copy", "drop", "remove", "finish"}

ASSUME FaultAssumption ==
  /\ Keys \subseteq Nat /\ NoValue \notin Values
  /\ EntryLen \in [Values \cup {NoValue} -> Nat \ {0}]
  /\ MaxFileSize \in Nat \ {0}
  /\ FaultPoints \subseteq Points

VARIABLES
  data,     \* data file id -> contents, of removed files too
  files,    \* data files in the directory
  keydir, stats,
  active,   \* active_fileid
  wfile,    \* the file that `writer` has open
  written,  \* written_bytes
  mpc,      \* the merge: "idle", "copy", "remove" or, after a panic, "dead"
  mfiles, mtodo, mid, mpos, mnew,  \* as in Bitcask
  wanted,   \* key -> the value of the last set or del that returned no error
  settled,  \* history: keys whose last such call found active_fileid to be
            \* the id of the file that the writer has open, less those since
            \* pointed at a copy that is not in its file
  nwrites, nmerges, nfaults

disk   == <<data, files>>
writer == <<active, wfile, written>>
merge  == <<mpc, mfiles, mtodo, mid, mpos, mnew>>
counts == <<nwrites, nmerges, nfaults>>
wvars  == <<disk, keydir, stats, writer, merge, wanted, settled, counts>>

Init ==
  /\ data = [f \in {0} |-> EmptyFile] /\ files = {0}
  /\ keydir = EmptyMap /\ stats = EmptyMap
  /\ active = 0 /\ wfile = 0 /\ written = 0
  /\ mpc = "idle" /\ mfiles = {} /\ mtodo = {} /\ mid = 0 /\ mpos = 0 /\ mnew = EmptyMap
  /\ wanted = [k \in Keys |-> NoValue] /\ settled = Keys
  /\ nwrites = 0 /\ nmerges = 0 /\ nfaults = 0

\* A fault at this point.
Fault(point) ==
  /\ point \in FaultPoints /\ nfaults < MaxFaults
  /\ nfaults' = nfaults + 1

\* log::create(f), which does not open a file that is there already.
Created(f) ==
  /\ f \notin files
  /\ data' = Upd(data, f, EmptyFile)
  /\ files' = files \cup {f}

-----------------------------------------------------------------------------
(* Writer::put and Writer::delete; v is NoValue for a delete *)

\* Mutant of Position: that of written_bytes.
PositionWritten == written

\* BufWriterWithPos.pos
Position == data[wfile].size

\* The entry in the file.  What BufWriter could not flush stays in its
\* buffer and goes out with the next entry, so a failed append is no hole.
Appended(k, v) == Upd(data, wfile, AppendEntry(data[wfile], k, v, EntryLen[v]))

\* Mutant of CountedFile: the statistics are those of the file written to.
CountedWritten == wfile

\* The file whose statistics count the entry.
CountedFile == active

Counted(v) ==
  LET st == StatsOf(stats, CountedFile)
  IN  Upd(stats, CountedFile, IF v = NoValue THEN AddDead(st, EntryLen[v]) ELSE AddLive(st))

\* The statistics s once key k no longer points at its present entry, if any.
Superseded(s, k) == IF k \in DOMAIN keydir THEN SupersedeIn(s, keydir[k]) ELSE s

Exceeds(v) == written + EntryLen[v] > MaxFileSize

MayWrite(k, v) ==
  /\ mpc \in {"idle", "dead"} /\ nwrites < MaxWrites
  /\ nwrites' = nwrites + 1
  /\ UNCHANGED <<merge, nmerges>>

\* No fault: the entry is appended, counted and indexed, and the file
\* rotated where it has become too large.
Write(k, v) ==
  /\ MayWrite(k, v)
  /\ LET e == [fileid |-> active, pos |-> Position, len |-> EntryLen[v]]
     IN  keydir' = IF v = NoValue THEN Without(keydir, k) ELSE Upd(keydir, k, e)
  /\ stats' = Superseded(Counted(v), k)
  /\ wanted' = [wanted EXCEPT ![k] = v]
  /\ settled' = IF active = wfile THEN settled \cup {k} ELSE settled \ {k}
  /\ IF Exceeds(v)
     THEN /\ active + 1 \notin files
          /\ data' = Upd(Appended(k, v), active + 1, EmptyFile)
          /\ files' = files \cup {active + 1}
          /\ active' = active + 1 /\ wfile' = active + 1 /\ written' = 0
     ELSE /\ data' = Appended(k, v)
          /\ written' = written + EntryLen[v]
          /\ UNCHANGED <<files, active, wfile>>
  /\ UNCHANGED nfaults

\* LogWriter::append or LogWriter::sync fails.
WriteFails(k, v) ==
  /\ MayWrite(k, v)
  /\ Fault("write")
  /\ data' = Appended(k, v)
  /\ UNCHANGED <<files, keydir, stats, writer, wanted, settled>>

\* new_active_datafile fails after it has set active_fileid: the writer is
\* still that of the old file and written_bytes is not reset.
RotateFails(k, v) ==
  /\ MayWrite(k, v) /\ Exceeds(v)
  /\ (active + 1 \in files /\ UNCHANGED nfaults) \/ Fault("rotate")
  /\ data' = Appended(k, v)
  /\ stats' = Counted(v)
  /\ active' = active + 1
  /\ written' = written + EntryLen[v]
  /\ UNCHANGED <<files, keydir, wfile, wanted, settled>>

-----------------------------------------------------------------------------
(* Writer::merge *)

CanMerge == \E f \in DOMAIN stats : stats[f].deadBytes > TriggerDeadBytes
FileidsToMerge == {f \in DOMAIN stats : stats[f].deadBytes > ThresholdDeadBytes}

\* can_merge holds and fileids_to_merge finds the metadata of every file it
\* has statistics of.
MergeStarts ==
  /\ mpc = "idle" /\ CanMerge /\ DOMAIN stats \subseteq files
  /\ nmerges < MaxMerges
  /\ nmerges' = nmerges + 1
  /\ UNCHANGED <<keydir, stats, writer, wanted, settled, nwrites>>

MergeBegin ==
  /\ MergeStarts
  /\ Created(active + 1)
  /\ mpc' = "copy"
  /\ mfiles' = FileidsToMerge
  /\ mtodo' = {k \in DOMAIN keydir : keydir[k].fileid \in FileidsToMerge}
  /\ mid' = active + 1 /\ mpos' = 0 /\ mnew' = EmptyMap
  /\ UNCHANGED nfaults

\* The hint file cannot be created, the data file is there.
MergeBeginFails ==
  /\ MergeStarts
  /\ Fault("begin")
  /\ Created(active + 1)
  /\ UNCHANGED merge

\* The merge returns with an error, or panics.
MergeEnds(how) ==
  /\ mpc' = how
  /\ mfiles' = {} /\ mtodo' = {} /\ mid' = 0 /\ mpos' = 0 /\ mnew' = EmptyMap

NextKey == CHOOSE k \in mtodo : \A j \in mtodo : k <= j

\* The bytes e of a file as they are at the end of the merge file.
CopiedTo(file, from, e) ==
  [size |-> file.size + e.len,
   recs |-> file.recs \cup
              {[rec EXCEPT !.pos = file.size + rec.pos - e.pos] :
                 rec \in {r \in from.recs : e.pos <= r.pos /\ r.pos + r.len <= e.pos + e.len}}]

\* One turn of the loop: the entry is copied, counted, written to the hint
\* file, and the next merge file created where this one has become too large.
\* The files looked at are there (MergeStarts) and the next merge file is not:
\* those that a failed merge has left follow the active one without a gap.
MergeCopy ==
  LET k      == NextKey
      e      == keydir[k]
      full   == mpos + e.len > MaxFileSize
      copied == Upd(data, mid, CopiedTo(data[mid], data[e.fileid], e))
      next   == Upd(copied, mid + 1, EmptyFile)
  IN
  /\ mpc = "copy" /\ mtodo # {}
  /\ \/ /\ e.pos + e.len <= data[e.fileid].size
        /\ stats' = Upd(stats, mid, AddLive(StatsOf(stats, mid)))
        /\ \/ /\ data' = IF full THEN next ELSE copied
              /\ files' = IF full THEN files \cup {mid + 1} ELSE files
              /\ mnew' = Upd(mnew, k, [fileid |-> mid, pos |-> mpos, len |-> e.len])
              /\ mtodo' = mtodo \ {k}
              /\ mid' = IF full THEN mid + 1 ELSE mid
              /\ mpos' = IF full THEN 0 ELSE mpos + e.len
              /\ UNCHANGED <<mpc, mfiles, nfaults>>
           \/ \* the hint is not written or the next data file not created
              /\ Fault("copy")
              /\ data' = copied
              /\ MergeEnds("idle")
              /\ UNCHANGED files
           \/ \* the next hint file is not created
              /\ Fault("copy") /\ full
              /\ data' = next /\ files' = files \cup {mid + 1}
              /\ MergeEnds("idle")
     \/ \* the entry cannot be copied
        /\ Fault("copy")
        /\ MergeEnds("idle")
        /\ UNCHANGED <<disk, stats>>
     \/ \* the slice of the map panics
        /\ e.pos + e.len > data[e.fileid].size
        /\ MergeEnds("dead")
        /\ UNCHANGED <<disk, stats, nfaults>>
  /\ UNCHANGED <<keydir, writer, wanted, settled, nwrites, nmerges>>

\* The first n bytes of a file.
Cut(file, n) == [size |-> n, recs |-> {rec \in file.recs : rec.pos + rec.len <= n}]

\* The BufWriter of a merge file goes when it is replaced or the loop ends,
\* and the bytes it cannot write then are lost without an error: Drop for
\* BufWriter ignores it, and the merge goes on.  What the file lacks is not
\* looked at before the KeyDir is set, so the loss may come at any time until
\* then.
DropLoses ==
  /\ mpc = "copy"
  /\ Fault("drop")
  /\ \E f \in (active + 1)..mid :
       /\ f < mid \/ mtodo = {}
       /\ \E n \in 0..(data[f].size - 1) : data' = Upd(data, f, Cut(data[f], n))
  /\ UNCHANGED <<files, keydir, stats, writer, merge, wanted, settled, nwrites, nmerges>>

\* The bytes that the entry points at are in the file.
InFile(e) == e.pos + e.len <= data[e.fileid].size

\* All is copied and the keys are pointed at the copies, whether these have
\* reached their files or not.
MergeKeydirSet ==
  /\ mpc = "copy" /\ mtodo = {}
  /\ keydir' = [k \in DOMAIN keydir |-> IF k \in DOMAIN mnew THEN mnew[k] ELSE keydir[k]]
  /\ settled' = {k \in settled : k \in DOMAIN mnew => InFile(mnew[k])}
  /\ mpc' = "remove" /\ mnew' = EmptyMap
  /\ UNCHANGED <<disk, stats, writer, mfiles, mtodo, mid, mpos, wanted, counts>>

OldestMerged == CHOOSE f \in mfiles : \A g \in mfiles : f <= g

\* The statistics go, then the files; the merge returns if one cannot be
\* removed.
MergeRemove ==
  /\ mpc = "remove" /\ mfiles # {}
  /\ stats' = Without(stats, OldestMerged)
  /\ \/ /\ files' = files \ {OldestMerged}
        /\ mfiles' = mfiles \ {OldestMerged}
        /\ UNCHANGED <<mpc, mtodo, mid, mpos, mnew, nfaults>>
     \/ /\ Fault("remove")
        /\ MergeEnds("idle")
        /\ UNCHANGED files
  /\ UNCHANGED <<data, keydir, writer, wanted, settled, nwrites, nmerges>>

\* new_active_datafile(merge_fileid + 1)
MergeFinish ==
  /\ mpc = "remove" /\ mfiles = {}
  /\ active' = mid + 1
  /\ \/ /\ Created(mid + 1)
        /\ wfile' = mid + 1 /\ written' = 0
        /\ UNCHANGED nfaults
     \/ /\ Fault("finish")
        /\ UNCHANGED <<disk, wfile, written>>
  /\ MergeEnds("idle")
  /\ UNCHANGED <<keydir, stats, wanted, settled, nwrites, nmerges>>

-----------------------------------------------------------------------------

Next ==
  \/ \E k \in Keys, v \in Values \cup {NoValue} :
       Write(k, v) \/ WriteFails(k, v) \/ RotateFails(k, v)
  \/ MergeBegin \/ MergeBeginFails
  \/ MergeCopy \/ DropLoses \/ MergeKeydirSet \/ MergeRemove \/ MergeFinish

Spec == Init /\ [][Next]_wvars

-----------------------------------------------------------------------------
(* Properties *)

\* What a read of key k returns: LogDir::read at the KeyDir's entry.
ReadKey(k) ==
  IF k \notin DOMAIN keydir THEN NoValue
  ELSE IF keydir[k].fileid \notin files THEN "io_error"
  ELSE ReadAt(data[keydir[k].fileid], keydir[k].pos, keydir[k].len)

\* Faults spoil no key but those written while active_fileid is not the id
\* of the file that is written to and those that a merge has pointed at a copy
\* its dropped BufWriter did not write: every other key reads as the last call
\* for it that returned no error has left it, whatever calls have failed
\* and wherever merges were cut short.
SettledKeysKept == \A k \in settled : ReadKey(k) = wanted[k]

\* A file's live_keys is never less than the number of keys that point into
\* it, so that overwrite() never takes it below zero, where a u64 wraps.
LiveCovered ==
  \A k \in DOMAIN keydir :
    LET f == keydir[k].fileid
    IN  StatsOf(stats, f).live >= Cardinality({j \in DOMAIN keydir : keydir[j].fileid = f})
=============================================================================
