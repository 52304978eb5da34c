------------------------- MODULE WriterFaultsProofs -------------------------
(***************************************************************************)
(* Proofs about WriterFaults: what a writer whose file system fails it     *)
(* still guarantees, for any keys, values, file sizes and number of        *)
(* faults.                                                                 *)
(***************************************************************************)
EXTENDS WriterFaults, FiniteSetTheorems, WellFoundedInduction, TLAPS

Records   == [pos : Nat, len : Nat \ {0}, key : Keys, val : Values \cup {NoValue}]
DataFiles == [size : Nat, recs : SUBSET Records]
Entries   == [fileid : Nat, pos : Nat, len : Nat \ {0}]
LogStats  == [live : Int, dead : Nat, deadBytes : Nat]

FaultTypeOK ==
  /\ data \in [DOMAIN data -> DataFiles] /\ DOMAIN data \subseteq Nat
  /\ files \subseteq DOMAIN data
  /\ keydir \in [DOMAIN keydir -> Entries] /\ DOMAIN keydir \subseteq Keys
  /\ stats \in [DOMAIN stats -> LogStats]
  /\ active \in Nat /\ wfile \in DOMAIN data /\ wfile <= active
  /\ mpc \in {"idle", "copy", "remove", "dead"}
  /\ mtodo \subseteq DOMAIN keydir /\ mid \in Nat /\ mpos \in Nat
  /\ mnew \in [DOMAIN mnew -> Entries] /\ DOMAIN mnew \subseteq DOMAIN keydir
  /\ wanted \in [Keys -> Values \cup {NoValue}] /\ settled \subseteq Keys

\* The entries of a file lie within it and no two begin at the same byte.
WellFormed(file) ==
  /\ \A rec \in file.recs : rec.pos + rec.len <= file.size
  /\ \A r1, r2 \in file.recs : r1.pos = r2.pos => r1 = r2

LogInv == \A f \in DOMAIN data : WellFormed(data[f])

\* The files that failed calls have left above active_fileid follow it without
\* a gap.  Where active_fileid is the file that is written to, that file is
\* in the directory, but for the moment before a merge sets the next one.
FileInv ==
  /\ \A f \in files : f > active => (active + 1)..f \subseteq files
  /\ active = wfile => active \in files \/ (mpc = "remove" /\ mfiles = {})

\* The entry e of the directory holds the value v.
Stores(e, v) ==
  /\ e.fileid \in files
  /\ \E rec \in data[e.fileid].recs : rec.pos = e.pos /\ rec.len = e.len /\ rec.val = v

SettledInv ==
  \A k \in settled : IF k \in DOMAIN keydir THEN Stores(keydir[k], wanted[k])
                     ELSE wanted[k] = NoValue

\* During a merge the merge file is the newest; each key that points into a
\* file to be removed is still to be copied, or its copy holds its value where
\* it has reached its file.  No settled key points into a merge file before
\* the KeyDir is set, so that nothing but copies is lost in a dropped one.
MergeInv ==
  /\ mpc \in {"copy", "remove"} =>
       /\ mid \in files /\ active < mid /\ \A f \in files : f <= mid
       /\ mfiles \subseteq files /\ \A f \in mfiles : f <= active
  /\ mpc = "copy" =>
       /\ mtodo # {} => mpos = data[mid].size
       /\ \A k \in settled \cap DOMAIN keydir : keydir[k].fileid <= active
       /\ \A k \in DOMAIN keydir : keydir[k].fileid \in mfiles => k \in mtodo \cup DOMAIN mnew
       /\ \A k \in mtodo : keydir[k].fileid \in mfiles
       /\ \A k \in DOMAIN mnew :
            /\ active < mnew[k].fileid /\ mnew[k].fileid <= mid /\ mnew[k].fileid \in files
            /\ mnew[k].fileid = mid => mnew[k].pos + mnew[k].len <= mpos
            /\ k \in settled /\ InFile(mnew[k]) => Stores(mnew[k], wanted[k])
  /\ mpc # "copy" => mtodo = {} /\ DOMAIN mnew = {}
  /\ mpc = "remove" => \A k \in DOMAIN keydir : keydir[k].fileid \notin mfiles

FaultInv == FaultTypeOK /\ LogInv /\ FileInv /\ SettledInv /\ MergeInv

\* `live` covers the keys that point into a file and the copies that keys are
\* about to be pointed at.
KeysIn(f) == {k \in DOMAIN keydir : keydir[k].fileid = f}
NewIn(f)  == {k \in DOMAIN mnew : mnew[k].fileid = f}

LiveInv ==
  /\ IsFiniteSet(DOMAIN keydir) /\ IsFiniteSet(DOMAIN mnew)
  /\ mtodo \cap DOMAIN mnew = {}
  /\ \A f \in Nat : StatsOf(stats, f).live >= Cardinality(KeysIn(f)) + Cardinality(NewIn(f))

-----------------------------------------------------------------------------
(* The operators of the model *)

\* A set of natural numbers that is not empty has a least element.
LEMMA LeastExists ==
  ASSUME NEW S \in SUBSET Nat, S # {}
  PROVE  \E m \in S : \A n \in S : m <= n
<1> DEFINE R == OpToRel(<, Nat)
<1>1. IsWellFoundedOn(R, Nat)
  BY NatLessThanWellFounded
<1>2. \A x, y \in Nat : y < x => <<y, x>> \in R
  BY Zenon DEF OpToRel
<1> HIDE DEF R
<1>3. PICK m \in S : \A n \in S : ~(<<n, m>> \in R)
  BY <1>1, WFMin
<1>4. \A n \in S : n \in Nat /\ m \in Nat /\ ~(n < m)
  BY <1>2, <1>3
<1>5. \A n \in S : m <= n
  BY <1>4
<1> QED
  BY <1>5

\* The copying loop takes a key of those still to be copied, the removing
\* loop the oldest file.
LEMMA NextKeyChosen ==
  ASSUME mtodo \subseteq Keys, mtodo # {}
  PROVE  NextKey \in mtodo
<1>1. \E k \in mtodo : \A j \in mtodo : k <= j
  BY LeastExists, FaultAssumption
<1> QED
  BY <1>1 DEF NextKey

\* OldestMerged is the oldest merged file.
LEMMA OldestChosen ==
  ASSUME mfiles \subseteq Nat, mfiles # {}
  PROVE  OldestMerged \in mfiles /\ \A g \in mfiles : OldestMerged <= g
<1>1. \E f \in mfiles : \A g \in mfiles : f <= g
  BY LeastExists
<1> QED
  BY <1>1 DEF OldestMerged

\* LogWriter::append keeps a file well formed and what is in it.
LEMMA AppendKeeps ==
  ASSUME NEW file \in DataFiles, WellFormed(file),
         NEW k \in Keys, NEW v \in Values \cup {NoValue}, NEW n \in Nat \ {0},
         NEW after, after = AppendEntry(file, k, v, n)
  PROVE  /\ after \in DataFiles /\ WellFormed(after) /\ file.recs \subseteq after.recs
         /\ \E rec \in after.recs : rec.pos = file.size /\ rec.len = n /\ rec.val = v
<1> DEFINE new == [pos |-> file.size, len |-> n, key |-> k, val |-> v]
<1>1. /\ file.size \in Nat /\ file.recs \subseteq Records
      /\ after = [size |-> file.size + n, recs |-> file.recs \cup {new}]
  BY DEF DataFiles, AppendEntry
<1>2. new \in Records
  BY <1>1 DEF Records
<1>3. after \in DataFiles /\ after.recs = file.recs \cup {new} /\ after.size = file.size + n
  BY <1>1, <1>2 DEF DataFiles
<1>4. \A rec \in file.recs : /\ rec.pos \in Nat /\ rec.len \in Nat \ {0}
                             /\ rec.pos + rec.len <= file.size
  BY <1>1 DEF Records, WellFormed
<1>5. new.pos = file.size /\ new.len = n /\ new.val = v
  OBVIOUS
<1> HIDE DEF new
<1>6. \A rec \in after.recs : rec.pos + rec.len <= after.size
  BY <1>1, <1>3, <1>4, <1>5
<1>7. ASSUME NEW r1 \in after.recs, NEW r2 \in after.recs, r1.pos = r2.pos
      PROVE  r1 = r2
  BY <1>1, <1>3, <1>4, <1>5, <1>7 DEF WellFormed
<1> QED
  BY <1>3, <1>5, <1>6, <1>7 DEF WellFormed

\* So does the copy that a merge makes of the bytes e, whatever they are, and
\* an entry at e is found again where the copy begins.
LEMMA CopyKeeps ==
  ASSUME NEW file \in DataFiles, WellFormed(file), NEW from \in DataFiles, WellFormed(from),
         NEW e \in Entries
  PROVE  LET after == CopiedTo(file, from, e)
         IN  /\ after \in DataFiles /\ WellFormed(after) /\ file.recs \subseteq after.recs
             /\ after.size = file.size + e.len
             /\ \A rec \in from.recs : rec.pos = e.pos /\ rec.len = e.len =>
                  \E r \in after.recs : r.pos = file.size /\ r.len = e.len /\ r.val = rec.val
<1> DEFINE after == CopiedTo(file, from, e)
<1> DEFINE src   == {r \in from.recs : e.pos <= r.pos /\ r.pos + r.len <= e.pos + e.len}
           at(r) == [r EXCEPT !.pos = file.size + r.pos - e.pos]
<1>1. /\ file.size \in Nat /\ file.recs \subseteq Records /\ from.recs \subseteq Records
      /\ e.pos \in Nat /\ e.len \in Nat \ {0}
      /\ after = [size |-> file.size + e.len, recs |-> file.recs \cup {at(r) : r \in src}]
  BY DEF DataFiles, Entries, CopiedTo
<1>2. ASSUME NEW r \in src
      PROVE  /\ r \in Records /\ r \in from.recs
             /\ r.pos \in Nat /\ r.len \in Nat \ {0} /\ e.pos <= r.pos
             /\ r.pos + r.len <= e.pos + e.len
  BY <1>1 DEF Records
<1>3. ASSUME NEW r \in src
      PROVE  /\ at(r) \in Records
             /\ at(r).pos = file.size + r.pos - e.pos
             /\ at(r).len = r.len /\ at(r).key = r.key /\ at(r).val = r.val
             /\ at(r).pos >= file.size /\ at(r).pos + at(r).len <= file.size + e.len
  <2>1. /\ r \in Records /\ r.pos \in Nat /\ r.len \in Nat \ {0} /\ e.pos <= r.pos
        /\ r.pos + r.len <= e.pos + e.len
    BY <1>2
  <2>2. /\ at(r).pos = file.size + r.pos - e.pos
        /\ at(r).len = r.len /\ at(r).key = r.key /\ at(r).val = r.val
        /\ at(r) = [pos |-> file.size + r.pos - e.pos, len |-> r.len, key |-> r.key, val |-> r.val]
    BY <2>1 DEF Records
  <2>3. file.size + r.pos - e.pos \in Nat /\ file.size + r.pos - e.pos >= file.size
    BY <1>1, <2>1
  <2>4. at(r) \in Records
    BY <2>1, <2>2, <2>3 DEF Records
  <2>5. at(r).pos + at(r).len <= file.size + e.len
    BY <1>1, <2>1, <2>2
  <2> QED
    BY <2>2, <2>3, <2>4, <2>5
<1>4. ASSUME NEW r \in src, NEW q \in src, at(r).pos = at(q).pos
      PROVE  r = q
  <2>1. r.pos \in Nat /\ q.pos \in Nat /\ r \in from.recs /\ q \in from.recs
    BY <1>2
  <2>2. r.pos = q.pos
    BY <1>1, <1>3, <1>4, <2>1
  <2> QED
    BY <2>1, <2>2 DEF WellFormed
<1>5. \A rec \in file.recs : /\ rec.pos \in Nat /\ rec.len \in Nat \ {0}
                             /\ rec.pos + rec.len <= file.size
  BY <1>1 DEF Records, WellFormed
<1>6. after.recs = file.recs \cup {at(r) : r \in src} /\ after.size = file.size + e.len
  BY <1>1
<1>7. after \in DataFiles
  BY <1>1, <1>3 DEF DataFiles
<1>8. ASSUME NEW rec \in from.recs, rec.pos = e.pos, rec.len = e.len
      PROVE  \E r \in after.recs : r.pos = file.size /\ r.len = e.len /\ r.val = rec.val
  <2>1. rec \in src
    BY <1>1, <1>8 DEF Records
  <2>2. /\ at(rec) \in after.recs /\ at(rec).pos = file.size + rec.pos - e.pos
        /\ at(rec).len = rec.len /\ at(rec).val = rec.val
    BY <1>3, <1>6, <2>1
  <2>3. at(rec).pos = file.size
    BY <1>1, <1>8, <2>2
  <2> QED
    BY <1>8, <2>2, <2>3
<1> HIDE DEF src, at, after
<1>9. \A rec \in after.recs : rec.pos + rec.len <= after.size
  BY <1>1, <1>3, <1>5, <1>6
<1>10. ASSUME NEW r1 \in after.recs, NEW r2 \in after.recs, r1.pos = r2.pos
       PROVE  r1 = r2
  <2>1. CASE r1 \in file.recs /\ r2 \in file.recs
    BY <1>10, <2>1 DEF WellFormed
  <2>2. CASE r1 \in {at(r) : r \in src} /\ r2 \in {at(r) : r \in src}
    BY <1>4, <1>10, <2>2
  <2>3. CASE r1 \in file.recs /\ r2 \in {at(r) : r \in src}
    BY <1>1, <1>3, <1>5, <1>10, <2>3
  <2>4. CASE r2 \in file.recs /\ r1 \in {at(r) : r \in src}
    BY <1>1, <1>3, <1>5, <1>10, <2>4
  <2> QED
    BY <1>6, <2>1, <2>2, <2>3, <2>4
<1> QED
  BY <1>6, <1>7, <1>8, <1>9, <1>10 DEF WellFormed, after

\* The files d are typed and well formed.
GoodLog(d) ==
  /\ d \in [DOMAIN d -> DataFiles] /\ DOMAIN d \subseteq Nat
  /\ \A f \in DOMAIN d : WellFormed(d[f])

\* One file has grown.
LEMMA GoodGrown ==
  ASSUME NEW d, GoodLog(d), NEW w \in DOMAIN d, NEW file \in DataFiles, WellFormed(file),
         d[w].recs \subseteq file.recs, NEW d2, d2 = Upd(d, w, file)
  PROVE  /\ GoodLog(d2) /\ DOMAIN d2 = DOMAIN d /\ d2[w] = file
         /\ \A f \in DOMAIN d : d[f].recs \subseteq d2[f].recs
  BY DEF GoodLog, Upd

\* One file has been created.
LEMMA GoodCreated ==
  ASSUME NEW d, GoodLog(d), NEW b \in Nat
  PROVE  /\ GoodLog(Upd(d, b, EmptyFile)) /\ DOMAIN Upd(d, b, EmptyFile) = DOMAIN d \cup {b}
         /\ Upd(d, b, EmptyFile)[b].size = 0
         /\ \A f \in DOMAIN d \ {b} : Upd(d, b, EmptyFile)[f] = d[f]
<1>1. EmptyFile \in DataFiles /\ WellFormed(EmptyFile) /\ EmptyFile.size = 0
  BY DEF EmptyFile, DataFiles, WellFormed
<1> QED
  BY <1>1 DEF GoodLog, Upd

\* The map without entries.
LEMMA EmptyMapType ==
  DOMAIN EmptyMap = {} /\ EmptyMap \in [DOMAIN EmptyMap -> Entries]
  BY DEF EmptyMap

\* Files only grow: an entry of a file that stays keeps its value.
Kept == \A f \in files : f \in DOMAIN data' /\ data[f].recs \subseteq data'[f].recs

\* What put and delete append.
LEMMA AppendedGood ==
  ASSUME FaultInv, NEW k \in Keys, NEW v \in Values \cup {NoValue}
  PROVE  LET d == Appended(k, v)
         IN  /\ GoodLog(d) /\ DOMAIN d = DOMAIN data
             /\ \A f \in DOMAIN data : data[f].recs \subseteq d[f].recs
             /\ \E rec \in d[wfile].recs :
                  rec.pos = data[wfile].size /\ rec.len = EntryLen[v] /\ rec.val = v
<1> DEFINE after == AppendEntry(data[wfile], k, v, EntryLen[v])
           d     == Appended(k, v)
<1>1. GoodLog(data) /\ wfile \in DOMAIN data
  BY DEF FaultInv, FaultTypeOK, LogInv, GoodLog
<1>2. data[wfile] \in DataFiles /\ WellFormed(data[wfile])
  BY <1>1 DEF GoodLog
<1>3. EntryLen[v] \in Nat \ {0}
  BY FaultAssumption
<1>4. /\ after \in DataFiles /\ WellFormed(after) /\ data[wfile].recs \subseteq after.recs
      /\ \E rec \in after.recs :
           rec.pos = data[wfile].size /\ rec.len = EntryLen[v] /\ rec.val = v
  BY <1>2, <1>3, AppendKeeps
<1>5. d = Upd(data, wfile, after)
  BY DEF Appended
<1> HIDE DEF after, d
<1>6. /\ GoodLog(d) /\ DOMAIN d = DOMAIN data /\ d[wfile] = after
      /\ \A f \in DOMAIN data : data[f].recs \subseteq d[f].recs
  BY <1>1, <1>4, <1>5, GoodGrown
<1> QED
  BY <1>4, <1>6 DEF d

\* The statistics keep their type.
LEMMA CountedType ==
  ASSUME stats \in [DOMAIN stats -> LogStats], NEW v \in Values \cup {NoValue}
  PROVE  Counted(v) \in [DOMAIN Counted(v) -> LogStats]
<1>1. EntryLen[v] \in Nat
  BY FaultAssumption
<1>2. StatsOf(stats, CountedFile) \in LogStats
  BY DEF StatsOf, NoStats, LogStats
<1>3. /\ AddLive(StatsOf(stats, CountedFile)) \in LogStats
      /\ AddDead(StatsOf(stats, CountedFile), EntryLen[v]) \in LogStats
  BY <1>1, <1>2 DEF AddLive, AddDead, LogStats
<1> QED
  BY <1>3 DEF Counted, Upd

\* ... also when the entry of a key is superseded.
LEMMA SupersededType ==
  ASSUME NEW s, s \in [DOMAIN s -> LogStats], keydir \in [DOMAIN keydir -> Entries], NEW k
  PROVE  Superseded(s, k) \in [DOMAIN Superseded(s, k) -> LogStats]
<1>1. CASE k \in DOMAIN keydir
  <2>1. keydir[k].len \in Nat
    BY <1>1 DEF Entries
  <2>2. StatsOf(s, keydir[k].fileid) \in LogStats
    BY DEF StatsOf, NoStats, LogStats
  <2>3. Overwrite(StatsOf(s, keydir[k].fileid), keydir[k].len) \in LogStats
    BY <2>1, <2>2 DEF Overwrite, LogStats
  <2> QED
    BY <1>1, <2>3 DEF Superseded, SupersedeIn, Upd
<1>2. CASE k \notin DOMAIN keydir
  BY <1>2 DEF Superseded
<1> QED
  BY <1>1, <1>2

-----------------------------------------------------------------------------
(* Settled keys are kept: step by step *)

\* A set or del that returns no error.
LEMMA WriteStep ==
  ASSUME FaultInv, NEW k \in Keys, NEW v \in Values \cup {NoValue}, Write(k, v)
  PROVE  FaultInv'
<1> DEFINE d == Appended(k, v)
           n == EntryLen[v]
           b == active + 1
           e == [fileid |-> active, pos |-> data[wfile].size, len |-> n]
<1>1. /\ GoodLog(d) /\ DOMAIN d = DOMAIN data
      /\ \A f \in DOMAIN data : data[f].recs \subseteq d[f].recs
      /\ \E rec \in d[wfile].recs : rec.pos = data[wfile].size /\ rec.len = n /\ rec.val = v
  BY AppendedGood
<1>2. /\ UNCHANGED <<mpc, mfiles, mtodo, mid, mpos, mnew>> /\ mpc \in {"idle", "dead"}
      /\ keydir' = IF v = NoValue THEN Without(keydir, k) ELSE Upd(keydir, k, e)
      /\ wanted' = [wanted EXCEPT ![k] = v]
      /\ settled' = IF active = wfile THEN settled \cup {k} ELSE settled \ {k}
      /\ stats' = Superseded(Counted(v), k)
  BY DEF Write, MayWrite, merge, Position
<1>3. \/ /\ b \notin files /\ data' = Upd(d, b, EmptyFile) /\ files' = files \cup {b}
         /\ active' = b /\ wfile' = b
      \/ /\ data' = d /\ UNCHANGED <<files, active, wfile>>
  BY DEF Write
<1>4. /\ active \in Nat /\ b \in Nat /\ wfile \in DOMAIN data /\ wfile <= active
      /\ files \subseteq DOMAIN data /\ DOMAIN data \subseteq Nat
      /\ data[wfile].size \in Nat /\ n \in Nat \ {0}
      /\ keydir \in [DOMAIN keydir -> Entries] /\ DOMAIN keydir \subseteq Keys
      /\ stats \in [DOMAIN stats -> LogStats]
      /\ mtodo = {} /\ DOMAIN mnew = {}
  BY <1>2, FaultAssumption DEF FaultInv, FaultTypeOK, MergeInv, DataFiles
<1> HIDE DEF d, n
<1>5. e \in Entries
  BY <1>4 DEF Entries
<1>6. keydir' \in [DOMAIN keydir' -> Entries] /\ DOMAIN keydir' \subseteq Keys
  BY <1>2, <1>4, <1>5 DEF Upd, Without
<1>7. stats' \in [DOMAIN stats' -> LogStats]
  <2>1. Counted(v) \in [DOMAIN Counted(v) -> LogStats]
    BY <1>4, CountedType
  <2>2. Superseded(Counted(v), k) \in [DOMAIN Superseded(Counted(v), k) -> LogStats]
    BY <1>4, <2>1, SupersededType
  <2> QED
    BY <1>2, <2>2
<1>8. /\ GoodLog(data') /\ files' \subseteq DOMAIN data' /\ wfile' \in DOMAIN data'
      /\ active' \in Nat /\ wfile' <= active' /\ wfile \in DOMAIN data'
      /\ data'[wfile] = d[wfile] /\ files \subseteq files' /\ Kept
  <2>1. CASE /\ b \notin files /\ data' = Upd(d, b, EmptyFile) /\ files' = files \cup {b}
             /\ active' = b /\ wfile' = b
    <3>0. GoodLog(d) /\ b \in Nat /\ data' = Upd(d, b, EmptyFile) /\ DOMAIN d = DOMAIN data
      BY <1>1, <1>4, <2>1
    <3> HIDE DEF b
    <3>1. /\ GoodLog(data') /\ DOMAIN data' = DOMAIN data \cup {b}
          /\ \A f \in DOMAIN data \ {b} : data'[f] = d[f]
      BY <3>0, GoodCreated
    <3> USE DEF b
    <3> QED
      BY <1>1, <1>4, <2>1, <3>1 DEF Kept
  <2>2. CASE data' = d /\ UNCHANGED <<files, active, wfile>>
    BY <1>1, <1>4, <2>2 DEF Kept
  <2> QED
    BY <1>3, <2>1, <2>2
<1>9. FaultTypeOK'
  <2>1. wanted' \in [Keys -> Values \cup {NoValue}] /\ settled' \subseteq Keys
    BY <1>2 DEF FaultInv, FaultTypeOK
  <2>2. data' \in [DOMAIN data' -> DataFiles] /\ DOMAIN data' \subseteq Nat
    BY <1>8 DEF GoodLog
  <2>3. mtodo' = {} /\ DOMAIN mnew' = {} /\ mnew' \in [DOMAIN mnew' -> Entries]
    BY <1>2, <1>4 DEF FaultInv, FaultTypeOK
  <2>4. mpc' \in {"idle", "copy", "remove", "dead"} /\ mid' \in Nat /\ mpos' \in Nat
    BY <1>2 DEF FaultInv, FaultTypeOK
  <2> QED
    BY <1>6, <1>7, <1>8, <2>1, <2>2, <2>3, <2>4 DEF FaultTypeOK
<1>10. LogInv'
  BY <1>8 DEF GoodLog, LogInv
<1>11. FileInv'
  <2>1. CASE b \notin files /\ files' = files \cup {b} /\ active' = b /\ wfile' = b
    <3>1. \A f \in files : f <= active
      BY <1>4, <2>1 DEF FaultInv, FileInv
    <3> QED
      BY <1>4, <2>1, <3>1 DEF FileInv
  <2>2. CASE UNCHANGED <<files, active, wfile>>
    BY <1>2, <2>2 DEF FaultInv, FileInv
  <2> QED
    BY <1>3, <2>1, <2>2
<1>12. SettledInv'
  <2> SUFFICES ASSUME NEW j \in settled'
               PROVE  IF j \in DOMAIN keydir' THEN Stores(keydir[j], wanted[j])'
                      ELSE wanted'[j] = NoValue
    BY DEF SettledInv
  <2>1. CASE j # k
    <3>1. j \in settled /\ wanted'[j] = wanted[j]
      BY <1>2, <2>1 DEF FaultInv, FaultTypeOK
    <3>2. j \in DOMAIN keydir' <=> j \in DOMAIN keydir
      BY <1>2, <2>1 DEF Upd, Without
    <3>3. j \in DOMAIN keydir => keydir'[j] = keydir[j]
      BY <1>2, <2>1 DEF Upd, Without
    <3>4. IF j \in DOMAIN keydir THEN Stores(keydir[j], wanted[j]) ELSE wanted[j] = NoValue
      BY <3>1 DEF FaultInv, SettledInv
    <3>5. CASE j \in DOMAIN keydir
      <4>1. Stores(keydir[j], wanted[j]) /\ keydir[j].fileid \in files
        BY <3>4, <3>5 DEF Stores
      <4>2. keydir[j].fileid \in files'
        BY <1>8, <4>1
      <4>3. \E rec \in data[keydir[j].fileid].recs :
              rec.pos = keydir[j].pos /\ rec.len = keydir[j].len /\ rec.val = wanted[j]
        BY <4>1 DEF Stores
      <4>4. data[keydir[j].fileid].recs \subseteq data'[keydir[j].fileid].recs
        BY <1>8, <4>1 DEF Kept
      <4> QED
        BY <3>1, <3>2, <3>3, <3>5, <4>2, <4>3, <4>4 DEF Stores
    <3> QED
      BY <3>1, <3>2, <3>4, <3>5
  <2>2. CASE j = k
    <3>1. active = wfile /\ wanted'[j] = v
      BY <1>2, <2>2 DEF FaultInv, FaultTypeOK
    <3>2. CASE v = NoValue
      <4>1. k \notin DOMAIN keydir'
        BY <1>2, <3>2 DEF Without
      <4> QED
        BY <2>2, <3>1, <3>2, <4>1
    <3>3. CASE v # NoValue
      <4>1. keydir'[k] = e /\ k \in DOMAIN keydir'
        BY <1>2, <3>3 DEF Upd
      <4>2. active \in files
        BY <1>2, <3>1 DEF FaultInv, FileInv
      <4>3. \E rec \in data'[wfile].recs : rec.pos = data[wfile].size /\ rec.len = n /\ rec.val = v
        BY <1>1, <1>8
      <4> QED
        BY <1>8, <2>2, <3>1, <4>1, <4>2, <4>3 DEF Stores
    <3> QED
      BY <3>2, <3>3
  <2> QED
    BY <2>1, <2>2
<1>13. MergeInv'
  BY <1>2, <1>4 DEF MergeInv
<1> QED
  BY <1>9, <1>10, <1>11, <1>12, <1>13 DEF FaultInv

\* The steps that leave the KeyDir alone and only add to the directory.
LEMMA SettledGrows ==
  ASSUME SettledInv, Kept, files \subseteq files', UNCHANGED <<keydir, wanted, settled>>
  PROVE  SettledInv'
<1> SUFFICES ASSUME NEW k \in settled
             PROVE  IF k \in DOMAIN keydir THEN Stores(keydir[k], wanted[k])' ELSE wanted[k] = NoValue
  BY DEF SettledInv
<1>1. CASE k \in DOMAIN keydir
  <2>1. Stores(keydir[k], wanted[k]) /\ keydir[k].fileid \in files'
    BY <1>1 DEF SettledInv, Stores
  <2> QED
    BY <1>1, <2>1 DEF Kept, Stores
<1>2. CASE k \notin DOMAIN keydir
  BY <1>2 DEF SettledInv
<1> QED
  BY <1>1, <1>2

\* A set or del that fails, in the append or in the rotation.
LEMMA WriteFailsStep ==
  ASSUME FaultInv, NEW k \in Keys, NEW v \in Values \cup {NoValue},
         WriteFails(k, v) \/ RotateFails(k, v)
  PROVE  FaultInv'
<1>1. /\ GoodLog(data') /\ DOMAIN data' = DOMAIN data
      /\ \A f \in DOMAIN data : data[f].recs \subseteq data'[f].recs
  BY AppendedGood DEF WriteFails, RotateFails
<1>2. /\ UNCHANGED <<mpc, mfiles, mtodo, mid, mpos, mnew, files, keydir, wfile, wanted, settled>>
      /\ mpc \in {"idle", "dead"}
      /\ active' \in {active, active + 1}
  BY DEF WriteFails, RotateFails, MayWrite, merge, writer
<1>3. stats' \in [DOMAIN stats' -> LogStats]
  BY CountedType DEF WriteFails, RotateFails, FaultInv, FaultTypeOK
<1>4. FaultTypeOK'
  BY <1>1, <1>2, <1>3 DEF FaultInv, FaultTypeOK, GoodLog
<1>5. LogInv'
  BY <1>1 DEF GoodLog, LogInv
<1>6. FileInv'
  <2>1. active \in Nat /\ files \subseteq Nat /\ wfile \in Nat /\ wfile <= active
    BY DEF FaultInv, FaultTypeOK
  <2>2. CASE active' = active
    BY <1>2, <2>2 DEF FaultInv, FileInv
  <2>3. CASE active' = active + 1
    <3>1. ASSUME NEW f \in files, f > active + 1
          PROVE  (active + 2)..f \subseteq files
      <4>1. (active + 1)..f \subseteq files
        BY <2>1, <3>1 DEF FaultInv, FileInv
      <4> QED
        BY <2>1, <4>1
    <3>2. active' # wfile'
      BY <1>2, <2>1, <2>3
    <3>3. active' + 1 = active + 2
      BY <2>1, <2>3
    <3> QED
      BY <1>2, <2>3, <3>1, <3>2, <3>3 DEF FileInv
  <2> QED
    BY <1>2, <2>2, <2>3
<1>7. SettledInv'
  <2>1. Kept
    BY <1>1 DEF Kept, FaultInv, FaultTypeOK
  <2> QED
    BY <1>2, <2>1, SettledGrows DEF FaultInv
<1>8. MergeInv'
  BY <1>2 DEF FaultInv, MergeInv
<1> QED
  BY <1>4, <1>5, <1>6, <1>7, <1>8 DEF FaultInv

\* A merge that begins, or fails in doing so, creates the file after the
\* active one, where there is none above the active one.
LEMMA MergeBeginStep ==
  ASSUME FaultInv, MergeBegin \/ MergeBeginFails
  PROVE  FaultInv'
<1> DEFINE b == active + 1
<1>1. /\ mpc = "idle" /\ DOMAIN stats \subseteq files /\ b \notin files
      /\ data' = Upd(data, b, EmptyFile) /\ files' = files \cup {b}
      /\ UNCHANGED <<keydir, stats, active, wfile, wanted, settled>>
  BY DEF MergeBegin, MergeBeginFails, MergeStarts, Created, writer
<1>2. /\ active \in Nat /\ b \in Nat /\ files \subseteq DOMAIN data /\ DOMAIN data \subseteq Nat
      /\ wfile \in DOMAIN data /\ wfile <= active /\ GoodLog(data)
      /\ mtodo = {} /\ DOMAIN mnew = {}
  BY <1>1 DEF FaultInv, FaultTypeOK, LogInv, GoodLog, MergeInv
<1>3. \A f \in files : f <= active
  BY <1>1, <1>2 DEF FaultInv, FileInv
<1>4. /\ GoodLog(data') /\ DOMAIN data' = DOMAIN data \cup {b} /\ data'[b].size = 0
      /\ \A f \in DOMAIN data \ {b} : data'[f] = data[f]
  <2>1. GoodLog(data) /\ b \in Nat /\ data' = Upd(data, b, EmptyFile)
    BY <1>1, <1>2
  <2> HIDE DEF b
  <2> QED
    BY <2>1, GoodCreated
<1>5. Kept /\ files \subseteq files'
  BY <1>1, <1>2, <1>4 DEF Kept
<1>6. /\ mtodo' \subseteq DOMAIN keydir /\ mid' \in Nat /\ mpos' \in Nat
      /\ mnew' \in [DOMAIN mnew' -> Entries] /\ DOMAIN mnew' = {} /\ mpc' \in {"idle", "copy"}
  <2>1. CASE MergeBegin
    BY <1>2, <2>1, EmptyMapType DEF MergeBegin
  <2>2. CASE MergeBeginFails
    BY <1>1, <1>2, <2>2 DEF MergeBeginFails, merge, FaultInv, FaultTypeOK
  <2> QED
    BY <2>1, <2>2
<1>7. FaultTypeOK'
  BY <1>1, <1>2, <1>4, <1>6 DEF FaultInv, FaultTypeOK, GoodLog
<1>8. LogInv'
  BY <1>4 DEF GoodLog, LogInv
<1>9. FileInv'
  <2>1. active = wfile => active \in files
    BY <1>1 DEF FaultInv, FileInv
  <2>2. \A f \in files' : f > active => f = b
    BY <1>1, <1>2, <1>3
  <2>3. (active + 1)..b \subseteq files'
    BY <1>1, <1>2
  <2> QED
    BY <1>1, <2>1, <2>2, <2>3 DEF FileInv
<1>10. SettledInv'
  BY <1>1, <1>5, SettledGrows DEF FaultInv
<1>11. MergeInv'
  <2>1. CASE MergeBegin
    <3>1. /\ mpc' = "copy" /\ mfiles' = FileidsToMerge /\ mid' = b /\ mpos' = 0
          /\ mtodo' = {k \in DOMAIN keydir : keydir[k].fileid \in FileidsToMerge}
      BY <2>1 DEF MergeBegin
    <3>2. FileidsToMerge \subseteq files
      BY <1>1 DEF FileidsToMerge
    <3>3. mid' \in files' /\ active < mid' /\ \A f \in files' : f <= mid'
      BY <1>1, <1>2, <1>3, <3>1
    <3>4. mfiles' \subseteq files' /\ \A f \in mfiles' : f <= active'
      BY <1>1, <1>3, <3>1, <3>2
    <3>5. ASSUME NEW k \in settled \cap DOMAIN keydir
          PROVE  keydir[k].fileid <= active
      BY <1>3 DEF FaultInv, SettledInv, Stores
    <3> QED
      BY <1>1, <1>4, <1>6, <3>1, <3>3, <3>4, <3>5 DEF MergeInv
  <2>2. CASE MergeBeginFails
    BY <1>1, <2>2 DEF MergeBeginFails, merge, FaultInv, MergeInv
  <2> QED
    BY <2>1, <2>2
<1> QED
  BY <1>7, <1>8, <1>9, <1>10, <1>11 DEF FaultInv

\* The keys move to their copies.
LEMMA MergeKeydirSetStep ==
  ASSUME FaultInv, MergeKeydirSet
  PROVE  FaultInv'
<1>1. /\ mpc = "copy" /\ mtodo = {} /\ mpc' = "remove" /\ DOMAIN mnew' = {}
      /\ mnew' \in [DOMAIN mnew' -> Entries]
      /\ keydir' = [k \in DOMAIN keydir |-> IF k \in DOMAIN mnew THEN mnew[k] ELSE keydir[k]]
      /\ settled' = {k \in settled : k \in DOMAIN mnew => InFile(mnew[k])}
      /\ UNCHANGED <<data, files, stats, active, wfile, mfiles, mtodo, mid, mpos, wanted>>
  BY DEF MergeKeydirSet, EmptyMap, disk, writer
<1>2. FaultTypeOK'
  BY <1>1 DEF FaultInv, FaultTypeOK
<1>3. LogInv' /\ FileInv'
  BY <1>1 DEF FaultInv, LogInv, FileInv
<1>4. SettledInv'
  BY <1>1 DEF FaultInv, SettledInv, MergeInv, Stores
<1>5. MergeInv'
  <2>1. \A f \in mfiles : f <= active /\ f \in Nat /\ active \in Nat
    BY <1>1 DEF FaultInv, MergeInv, FaultTypeOK
  <2>2. \A k \in DOMAIN mnew : active < mnew[k].fileid /\ mnew[k].fileid \in Nat
    BY <1>1 DEF FaultInv, MergeInv, FaultTypeOK, Entries
  <2>3. \A k \in DOMAIN keydir : keydir[k].fileid \in mfiles => k \in DOMAIN mnew
    BY <1>1 DEF FaultInv, MergeInv
  <2>4. \A k \in DOMAIN keydir' : keydir'[k].fileid \notin mfiles
    BY <1>1, <2>1, <2>2, <2>3
  <2> QED
    BY <1>1, <2>4 DEF FaultInv, MergeInv
<1> QED
  BY <1>2, <1>3, <1>4, <1>5 DEF FaultInv

\* The oldest merged file goes; the active file is the last to go.
LEMMA MergeRemoveStep ==
  ASSUME FaultInv, MergeRemove
  PROVE  FaultInv'
<1> DEFINE o == OldestMerged
<1>1. /\ mpc = "remove" /\ mfiles # {} /\ stats' = Without(stats, o)
      /\ UNCHANGED <<data, keydir, active, wfile, wanted, settled>>
  BY DEF MergeRemove, writer
<1>2. \/ /\ files' = files \ {o} /\ mfiles' = mfiles \ {o}
         /\ UNCHANGED <<mpc, mtodo, mid, mpos, mnew>>
      \/ /\ files' = files /\ mpc' = "idle" /\ mfiles' = {} /\ mtodo' = {}
         /\ mid' = 0 /\ mpos' = 0 /\ mnew' = EmptyMap
  BY DEF MergeRemove, MergeEnds
<1>3. /\ mfiles \subseteq files /\ files \subseteq DOMAIN data /\ DOMAIN data \subseteq Nat
      /\ active \in Nat /\ mid \in files /\ active < mid
      /\ \A f \in mfiles : f <= active
      /\ \A f \in files : f <= mid
      /\ \A k \in DOMAIN keydir : keydir[k].fileid \notin mfiles
  BY <1>1 DEF FaultInv, FaultTypeOK, MergeInv
<1>4. o \in mfiles /\ \A g \in mfiles : o <= g
  BY <1>1, <1>3, OldestChosen
<1> HIDE DEF o
<1>5. /\ stats' \in [DOMAIN stats' -> LogStats]
      /\ mtodo' \subseteq DOMAIN keydir /\ mid' \in Nat /\ mpos' \in Nat
      /\ mnew' \in [DOMAIN mnew' -> Entries] /\ DOMAIN mnew' = {} /\ mtodo' = {}
      /\ files' \subseteq files
  <2>1. stats' \in [DOMAIN stats' -> LogStats]
    BY <1>1 DEF Without, FaultInv, FaultTypeOK
  <2>2. mtodo = {} /\ DOMAIN mnew = {}
    BY <1>1 DEF FaultInv, MergeInv
  <2>3. /\ mid' \in Nat /\ mpos' \in Nat /\ files' \subseteq files /\ mtodo' = {}
        /\ mnew' \in [DOMAIN mnew' -> Entries] /\ DOMAIN mnew' = {}
    <3>1. mid \in Nat /\ mpos \in Nat /\ mnew \in [DOMAIN mnew -> Entries]
      BY DEF FaultInv, FaultTypeOK
    <3>2. CASE UNCHANGED <<mpc, mtodo, mid, mpos, mnew>> /\ files' = files \ {o}
      BY <2>2, <3>1, <3>2
    <3>3. CASE /\ files' = files /\ mtodo' = {} /\ mid' = 0 /\ mpos' = 0 /\ mnew' = EmptyMap
      BY <3>3, EmptyMapType
    <3> QED
      BY <1>2, <3>2, <3>3
  <2> QED
    BY <2>1, <2>3
<1>6. FaultTypeOK'
  BY <1>1, <1>2, <1>5 DEF FaultInv, FaultTypeOK
<1>7. LogInv'
  BY <1>1 DEF FaultInv, LogInv
<1>8. FileInv'
  <2>1. active = wfile => active \in files
    BY <1>1 DEF FaultInv, FileInv
  <2>2. \A f \in files : f > active => (active + 1)..f \subseteq files
    BY DEF FaultInv, FileInv
  <2>3. CASE files' = files
    BY <1>1, <2>1, <2>2, <2>3 DEF FileInv
  <2>4. CASE files' = files \ {o} /\ mfiles' = mfiles \ {o} /\ mpc' = mpc
    <3>1. o \in Nat /\ o <= active
      BY <1>3, <1>4
    <3>2. ASSUME NEW f \in files', f > active
          PROVE  (active + 1)..f \subseteq files'
      BY <1>3, <2>2, <2>4, <3>1, <3>2
    <3>3. o = active => mfiles' = {}
      BY <1>3, <1>4, <2>4
    <3> QED
      BY <1>1, <2>1, <2>4, <3>2, <3>3 DEF FileInv
  <2> QED
    BY <1>2, <2>3, <2>4
<1>9. SettledInv'
  <2>1. \A k \in DOMAIN keydir : keydir[k].fileid # o
    BY <1>3, <1>4
  <2> QED
    BY <1>1, <1>2, <2>1 DEF FaultInv, SettledInv, Stores
<1>10. MergeInv'
  <2>1. CASE mpc' = "idle"
    BY <1>5, <2>1 DEF MergeInv
  <2>2. CASE /\ files' = files \ {o} /\ mfiles' = mfiles \ {o}
             /\ UNCHANGED <<mpc, mtodo, mid, mpos, mnew>>
    <3>1. mid # o
      BY <1>3, <1>4
    <3> QED
      BY <1>1, <1>3, <1>4, <1>5, <2>2, <3>1 DEF MergeInv
  <2> QED
    BY <1>2, <2>1, <2>2
<1> QED
  BY <1>6, <1>7, <1>8, <1>9, <1>10 DEF FaultInv

\* The new active file after a merge, which may fail to be created.
LEMMA MergeFinishStep ==
  ASSUME FaultInv, MergeFinish
  PROVE  FaultInv'
<1> DEFINE b == mid + 1
<1>1. /\ mpc = "remove" /\ active' = b /\ mpc' = "idle" /\ mfiles' = {} /\ mtodo' = {}
      /\ mid' = 0 /\ mpos' = 0 /\ mnew' = EmptyMap
      /\ UNCHANGED <<keydir, stats, wanted, settled>>
  BY DEF MergeFinish, MergeEnds
<1>2. \/ /\ b \notin files /\ data' = Upd(data, b, EmptyFile) /\ files' = files \cup {b}
         /\ wfile' = b
      \/ UNCHANGED <<data, files, wfile>>
  BY DEF MergeFinish, Created, disk
<1>3. /\ active \in Nat /\ b \in Nat /\ files \subseteq DOMAIN data /\ DOMAIN data \subseteq Nat
      /\ wfile \in DOMAIN data /\ wfile <= active /\ GoodLog(data) /\ active < mid /\ mid \in Nat
      /\ \A f \in files : f <= mid
  BY <1>1 DEF FaultInv, FaultTypeOK, LogInv, GoodLog, MergeInv
<1>4. /\ GoodLog(data') /\ files' \subseteq DOMAIN data' /\ wfile' \in DOMAIN data'
      /\ wfile' <= b /\ Kept /\ files \subseteq files'
      /\ (\A f \in files' : f <= b) /\ (wfile' = b => b \in files')
  <2>1. CASE /\ b \notin files /\ data' = Upd(data, b, EmptyFile) /\ files' = files \cup {b}
             /\ wfile' = b
    <3>0. GoodLog(data) /\ b \in Nat /\ data' = Upd(data, b, EmptyFile)
      BY <1>3, <2>1
    <3> HIDE DEF b
    <3>1. /\ GoodLog(data') /\ DOMAIN data' = DOMAIN data \cup {b}
          /\ \A f \in DOMAIN data \ {b} : data'[f] = data[f]
      BY <3>0, GoodCreated
    <3> USE DEF b
    <3> QED
      BY <1>3, <2>1, <3>1 DEF Kept
  <2>2. CASE UNCHANGED <<data, files, wfile>>
    BY <1>3, <2>2 DEF Kept
  <2> QED
    BY <1>2, <2>1, <2>2
<1>5. FaultTypeOK'
  <2>1. data' \in [DOMAIN data' -> DataFiles] /\ DOMAIN data' \subseteq Nat
    BY <1>4 DEF GoodLog
  <2>2. mnew' \in [DOMAIN mnew' -> Entries] /\ DOMAIN mnew' = {}
    BY <1>1 DEF EmptyMap
  <2> QED
    BY <1>1, <1>3, <1>4, <2>1, <2>2 DEF FaultInv, FaultTypeOK
<1>6. LogInv'
  BY <1>4 DEF GoodLog, LogInv
<1>7. FileInv'
  <2>1. \A f \in files' : f \in Nat /\ ~(f > b)
    BY <1>3, <1>4 DEF GoodLog
  <2> QED
    BY <1>1, <1>4, <2>1 DEF FileInv
<1>8. SettledInv'
  BY <1>1, <1>4, SettledGrows DEF FaultInv
<1>9. MergeInv'
  BY <1>1 DEF MergeInv, EmptyMap
<1> QED
  BY <1>5, <1>6, <1>7, <1>8, <1>9 DEF FaultInv

\* A turn of the copying loop: the entry is copied, or the merge ends.
LEMMA MergeCopyStep ==
  ASSUME FaultInv, MergeCopy
  PROVE  FaultInv'
<1> DEFINE k == NextKey
           e == keydir[k]
           b == mid + 1
           after  == CopiedTo(data[mid], data[e.fileid], e)
           copied == Upd(data, mid, after)
           next   == Upd(copied, b, EmptyFile)
           ne     == [fileid |-> mid, pos |-> mpos, len |-> e.len]
<1>1. /\ mpc = "copy" /\ mtodo # {}
      /\ UNCHANGED <<keydir, active, wfile, wanted, settled>>
  BY DEF MergeCopy, writer
<1>2. stats' = stats \/ stats' = Upd(stats, mid, AddLive(StatsOf(stats, mid)))
  BY DEF MergeCopy
<1>3. \/ /\ \/ data' = next /\ files' = files \cup {b} /\ mid' = b /\ mpos' = 0
            \/ data' = copied /\ files' = files /\ mid' = mid /\ mpos' = mpos + e.len
         /\ mnew' = Upd(mnew, k, ne) /\ mtodo' = mtodo \ {k}
         /\ UNCHANGED <<mpc, mfiles>>
      \/ /\ \/ data' = copied /\ files' = files
            \/ data' = next /\ files' = files \cup {b}
            \/ data' = data /\ files' = files
         /\ mpc' \in {"idle", "dead"} /\ mfiles' = {} /\ mtodo' = {}
         /\ mid' = 0 /\ mpos' = 0 /\ mnew' = EmptyMap
  BY DEF MergeCopy, MergeEnds, disk
<1>4. /\ active \in Nat /\ mid \in Nat /\ b \in Nat /\ mid \in files /\ active < mid
      /\ files \subseteq DOMAIN data /\ DOMAIN data \subseteq Nat /\ GoodLog(data)
      /\ \A f \in files : f <= mid
      /\ mfiles \subseteq files /\ \A f \in mfiles : f <= active
      /\ mpos = data[mid].size /\ mpos \in Nat /\ wfile \in DOMAIN data /\ wfile <= active
      /\ keydir \in [DOMAIN keydir -> Entries] /\ DOMAIN keydir \subseteq Keys
      /\ mtodo \subseteq DOMAIN keydir
      /\ mnew \in [DOMAIN mnew -> Entries] /\ DOMAIN mnew \subseteq DOMAIN keydir
  BY <1>1 DEF FaultInv, FaultTypeOK, LogInv, GoodLog, MergeInv
<1>5. k \in mtodo
  <2>1. mtodo \subseteq Keys
    BY <1>4
  <2> QED
    BY <1>1, <2>1, NextKeyChosen
<1> HIDE DEF k
<1>6. k \in DOMAIN keydir /\ e \in Entries /\ e.fileid \in mfiles /\ e.fileid \in DOMAIN data
  BY <1>1, <1>4, <1>5 DEF FaultInv, MergeInv
<1>7. /\ after \in DataFiles /\ WellFormed(after) /\ data[mid].recs \subseteq after.recs
      /\ after.size = data[mid].size + e.len
      /\ \A rec \in data[e.fileid].recs : rec.pos = e.pos /\ rec.len = e.len =>
           \E r \in after.recs : r.pos = data[mid].size /\ r.len = e.len /\ r.val = rec.val
  <2>1. /\ data[mid] \in DataFiles /\ WellFormed(data[mid])
        /\ data[e.fileid] \in DataFiles /\ WellFormed(data[e.fileid])
    BY <1>4, <1>6 DEF GoodLog
  <2>2. after = CopiedTo(data[mid], data[e.fileid], e)
    OBVIOUS
  <2> HIDE DEF e, after
  <2> QED
    BY <1>6, <2>1, <2>2, CopyKeeps
<1> HIDE DEF after
<1>8. /\ GoodLog(copied) /\ DOMAIN copied = DOMAIN data /\ copied[mid] = after
      /\ \A f \in DOMAIN data : data[f].recs \subseteq copied[f].recs
  BY <1>4, <1>7, GoodGrown
<1> HIDE DEF copied
<1>9. /\ GoodLog(next) /\ DOMAIN next = DOMAIN data \cup {b} /\ next[b].size = 0
      /\ \A f \in DOMAIN data \ {b} : next[f] = copied[f]
  BY <1>4, <1>8, GoodCreated
<1> HIDE DEF next
<1>10. b \notin files /\ mid # b
  BY <1>4
<1>11. /\ GoodLog(data') /\ files' \subseteq DOMAIN data' /\ DOMAIN data \subseteq DOMAIN data'
       /\ files \subseteq files' /\ Kept
  BY <1>3, <1>4, <1>8, <1>9, <1>10 DEF Kept
<1>12. stats' \in [DOMAIN stats' -> LogStats]
  <2>1. stats \in [DOMAIN stats -> LogStats]
    BY DEF FaultInv, FaultTypeOK
  <2>2. StatsOf(stats, mid) \in LogStats
    BY <2>1 DEF StatsOf, NoStats, LogStats
  <2>3. AddLive(StatsOf(stats, mid)) \in LogStats
    BY <2>2 DEF AddLive, LogStats
  <2> QED
    BY <1>2, <2>1, <2>3 DEF Upd
<1>13. e.len \in Nat \ {0} /\ mpos \in Nat /\ ne \in Entries
  <2>1. mpos \in Nat
    BY DEF FaultInv, FaultTypeOK
  <2> QED
    BY <1>4, <1>6, <2>1 DEF Entries
<1> HIDE DEF e, ne
<1>14. /\ mnew' \in [DOMAIN mnew' -> Entries] /\ DOMAIN mnew' \subseteq DOMAIN keydir
       /\ mtodo' \subseteq DOMAIN keydir /\ mid' \in Nat /\ mpos' \in Nat
       /\ mpc' \in {"idle", "copy", "remove", "dead"}
  <2>1. CASE mnew' = EmptyMap /\ mtodo' = {} /\ mid' = 0 /\ mpos' = 0 /\ mpc' \in {"idle", "dead"}
    BY <2>1, EmptyMapType
  <2>2. CASE /\ mnew' = Upd(mnew, k, ne) /\ mtodo' = mtodo \ {k} /\ mpc' = mpc
             /\ mid' \in {b, mid} /\ mpos' \in {0, mpos + e.len}
    <3>1. mnew' \in [DOMAIN mnew' -> Entries] /\ DOMAIN mnew' \subseteq DOMAIN keydir
      BY <1>4, <1>6, <1>13, <2>2 DEF Upd
    <3> QED
      BY <1>1, <1>4, <1>13, <2>2, <3>1
  <2> QED
    BY <1>3, <2>1, <2>2
<1>15. FaultTypeOK'
  BY <1>1, <1>4, <1>11, <1>12, <1>14 DEF FaultInv, FaultTypeOK, GoodLog
<1>16. LogInv'
  BY <1>11 DEF GoodLog, LogInv
<1>17. FileInv'
  <2>1. active = wfile => active \in files
    BY <1>1 DEF FaultInv, FileInv
  <2>2. \A f \in files : f > active => (active + 1)..f \subseteq files
    BY DEF FaultInv, FileInv
  <2>3. (active + 1)..mid \subseteq files
    BY <1>4, <2>2
  <2>4. (active + 1)..b \subseteq files \cup {b}
    BY <1>4, <2>3
  <2>5. ASSUME NEW f \in files', f > active
        PROVE  (active + 1)..f \subseteq files'
    <3>1. CASE f \in files
      BY <1>11, <2>2, <2>5, <3>1
    <3>2. CASE f \notin files
      <4>1. f = b /\ files' = files \cup {b}
        BY <1>3, <3>2
      <4> QED
        BY <2>4, <4>1
    <3> QED
      BY <3>1, <3>2
  <2> QED
    BY <1>1, <1>11, <2>1, <2>5 DEF FileInv
<1>18. SettledInv'
  BY <1>1, <1>11, SettledGrows DEF FaultInv
<1>19. MergeInv'
  <2>1. CASE mpc' \in {"idle", "dead"} /\ mtodo' = {} /\ mnew' = EmptyMap
    BY <2>1, EmptyMapType DEF MergeInv
  <2>2. CASE /\ \/ data' = next /\ files' = files \cup {b} /\ mid' = b /\ mpos' = 0
                \/ data' = copied /\ files' = files /\ mid' = mid /\ mpos' = mpos + e.len
             /\ mnew' = Upd(mnew, k, ne) /\ mtodo' = mtodo \ {k}
             /\ UNCHANGED <<mpc, mfiles>>
    <3>1. mid' \in files' /\ active < mid' /\ \A f \in files' : f <= mid'
      BY <1>4, <2>2
    <3>2. mfiles \subseteq files' /\ \A f \in mfiles : f <= active
      BY <1>4, <1>11
    <3>3. mpos' = data'[mid'].size
      BY <1>4, <1>7, <1>8, <1>9, <2>2
    <3>4. DOMAIN mnew' = DOMAIN mnew \cup {k} /\ mnew'[k] = ne
          /\ \A j \in DOMAIN mnew : j # k => mnew'[j] = mnew[j]
      BY <2>2 DEF Upd
    <3>5. \A j \in DOMAIN keydir : keydir[j].fileid \in mfiles => j \in mtodo' \cup DOMAIN mnew'
      BY <1>1, <2>2, <3>4 DEF FaultInv, MergeInv
    <3>6. \A j \in mtodo' : keydir[j].fileid \in mfiles
      BY <1>1, <2>2 DEF FaultInv, MergeInv
    <3>7. ASSUME NEW j \in DOMAIN mnew'
          PROVE  /\ active < mnew'[j].fileid /\ mnew'[j].fileid <= mid' /\ mnew'[j].fileid \in files'
                 /\ mnew'[j].fileid = mid' => mnew'[j].pos + mnew'[j].len <= mpos'
                 /\ j \in settled /\ InFile(mnew[j])' => Stores(mnew[j], wanted[j])'
      <4>1. CASE j = k
        <5>1. ne.fileid = mid /\ ne.pos = data[mid].size /\ ne.len = e.len
          BY <1>4 DEF ne
        <5>2. ASSUME k \in settled PROVE Stores(mnew[j], wanted[j])'
          <6>1. Stores(e, wanted[k])
            BY <1>6, <5>2 DEF FaultInv, SettledInv, e
          <6>2. PICK rec \in data[e.fileid].recs :
                  rec.pos = e.pos /\ rec.len = e.len /\ rec.val = wanted[k]
            BY <6>1 DEF Stores
          <6>3. \E r \in after.recs : r.pos = data[mid].size /\ r.len = e.len /\ r.val = wanted[k]
            BY <1>7, <6>2
          <6>4. data'[mid] = after
            BY <1>4, <1>8, <1>9, <1>10, <2>2
          <6>5. mid \in files'
            BY <1>4, <1>11
          <6> QED
            BY <1>1, <1>4, <3>4, <4>1, <5>1, <6>3, <6>4, <6>5 DEF Stores
        <5>3. /\ mid <= mid' /\ mid \in files'
              /\ mid = mid' => mpos + e.len <= mpos'
          <6>1. mid' \in {mid, mid + 1} /\ (mid' = mid => mpos' = mpos + e.len)
            BY <1>10, <2>2
          <6> QED
            BY <1>4, <1>11, <1>13, <6>1
        <5> QED
          BY <1>4, <1>13, <3>4, <4>1, <5>1, <5>2, <5>3
      <4>2. CASE j # k
        <5>1. j \in DOMAIN mnew /\ mnew'[j] = mnew[j] /\ mnew[j] \in Entries
          BY <1>4, <3>4, <4>2
        <5>2. /\ active < mnew[j].fileid /\ mnew[j].fileid <= mid /\ mnew[j].fileid \in files
              /\ mnew[j].fileid = mid => mnew[j].pos + mnew[j].len <= mpos
              /\ j \in settled /\ InFile(mnew[j]) => Stores(mnew[j], wanted[j])
          BY <1>1, <5>1 DEF FaultInv, MergeInv
        <5>3. mnew[j].fileid \in Nat /\ mnew[j].pos \in Nat /\ mnew[j].len \in Nat
          BY <5>1 DEF Entries
        <5>4. /\ mnew[j].fileid <= mid' /\ mnew[j].fileid \in files'
              /\ mnew[j].fileid = mid' => mnew[j].pos + mnew[j].len <= mpos'
          BY <1>4, <1>11, <1>13, <2>2, <5>2, <5>3
        <5>5. InFile(mnew[j])' => InFile(mnew[j])
          <6>1. CASE mnew[j].fileid = mid
            BY <1>4, <5>2, <6>1 DEF InFile
          <6>2. CASE mnew[j].fileid # mid
            <7>1. data'[mnew[j].fileid] = data[mnew[j].fileid]
              BY <1>4, <1>8, <1>9, <1>10, <2>2, <5>2, <6>2 DEF copied, Upd
            <7> QED
              BY <5>1, <7>1 DEF InFile
          <6> QED
            BY <6>1, <6>2
        <5> QED
          BY <1>1, <1>11, <5>1, <5>2, <5>4, <5>5 DEF Kept, Stores
      <4> QED
        BY <4>1, <4>2
    <3>8. \A j \in settled \cap DOMAIN keydir : keydir[j].fileid <= active
      BY <1>1 DEF FaultInv, MergeInv
    <3> QED
      BY <1>1, <2>2, <3>1, <3>2, <3>3, <3>5, <3>6, <3>7, <3>8 DEF MergeInv
  <2> QED
    BY <1>3, <2>1, <2>2
<1> QED
  BY <1>15, <1>16, <1>17, <1>18, <1>19 DEF FaultInv

\* A merge file loses its last bytes: no settled key points there yet, and
\* the copies that the file still holds are those they were.
LEMMA DropLosesStep ==
  ASSUME FaultInv, DropLoses
  PROVE  FaultInv'
<1>1. /\ mpc = "copy" /\ UNCHANGED <<files, keydir, stats, active, wfile, wanted, settled>>
      /\ UNCHANGED <<mpc, mfiles, mtodo, mid, mpos, mnew>>
  BY DEF DropLoses, writer, merge
<1>2. /\ active \in Nat /\ mid \in Nat /\ mid \in files /\ GoodLog(data)
      /\ files \subseteq DOMAIN data /\ DOMAIN data \subseteq Nat
      /\ keydir \in [DOMAIN keydir -> Entries]
      /\ mnew \in [DOMAIN mnew -> Entries]
      /\ \A f \in files : f > active => (active + 1)..f \subseteq files
      /\ active < mid
  BY <1>1 DEF FaultInv, FaultTypeOK, LogInv, GoodLog, MergeInv, FileInv
<1>3. PICK f \in (active + 1)..mid :
        /\ f < mid \/ mtodo = {}
        /\ \E n \in 0..(data[f].size - 1) : data' = Upd(data, f, Cut(data[f], n))
  BY DEF DropLoses
<1>4. PICK n \in 0..(data[f].size - 1) : data' = Upd(data, f, Cut(data[f], n))
  BY <1>3
<1> DEFINE file == Cut(data[f], n)
<1>5. f \in files /\ f \in DOMAIN data /\ active < f
  BY <1>2
<1>6. data[f] \in DataFiles /\ WellFormed(data[f]) /\ data[f].size \in Nat /\ n \in Nat /\ n < data[f].size
  BY <1>2, <1>5 DEF GoodLog, DataFiles
<1>7. /\ file \in DataFiles /\ WellFormed(file) /\ file.size = n
      /\ file.recs = {rec \in data[f].recs : rec.pos + rec.len <= n}
  BY <1>6 DEF DataFiles, Cut, WellFormed
<1>8. data' = Upd(data, f, file)
  BY <1>4
<1> HIDE DEF file
<1>9. /\ DOMAIN data' = DOMAIN data /\ data'[f] = file
      /\ \A g \in DOMAIN data : g # f => data'[g] = data[g]
      /\ GoodLog(data')
  BY <1>2, <1>5, <1>7, <1>8 DEF GoodLog, Upd
<1>10. FaultTypeOK'
  BY <1>1, <1>9 DEF FaultInv, FaultTypeOK, GoodLog
<1>11. LogInv'
  BY <1>9 DEF LogInv, GoodLog
<1>12. FileInv'
  BY <1>1 DEF FaultInv, FileInv
<1>13. SettledInv'
  <2> SUFFICES ASSUME NEW k \in settled
               PROVE  IF k \in DOMAIN keydir THEN Stores(keydir[k], wanted[k])' ELSE wanted[k] = NoValue
    BY <1>1 DEF SettledInv
  <2>1. CASE k \in DOMAIN keydir
    <3>1. keydir[k].fileid <= active /\ Stores(keydir[k], wanted[k]) /\ keydir[k].fileid \in files
      BY <1>1, <2>1 DEF FaultInv, MergeInv, SettledInv, Stores
    <3>2. data'[keydir[k].fileid] = data[keydir[k].fileid]
      BY <1>2, <1>5, <1>9, <3>1
    <3> QED
      BY <1>1, <2>1, <3>1, <3>2 DEF Stores
  <2>2. CASE k \notin DOMAIN keydir
    BY <2>2 DEF FaultInv, SettledInv
  <2> QED
    BY <2>1, <2>2
<1>14. ASSUME NEW k \in DOMAIN mnew, k \in settled, InFile(mnew[k])'
       PROVE  Stores(mnew[k], wanted[k])'
  <2>1. /\ mnew[k].fileid \in files /\ mnew[k] \in Entries
        /\ InFile(mnew[k]) => Stores(mnew[k], wanted[k])
    BY <1>1, <1>2, <1>14 DEF FaultInv, MergeInv
  <2>2. mnew[k].fileid \in Nat /\ mnew[k].pos \in Nat /\ mnew[k].len \in Nat
    BY <2>1 DEF Entries
  <2>3. CASE mnew[k].fileid = f
    <3>1. mnew[k].pos + mnew[k].len <= n
      BY <1>1, <1>7, <1>9, <1>14, <2>3 DEF InFile
    <3>2. InFile(mnew[k])
      BY <1>6, <2>2, <2>3, <3>1 DEF InFile
    <3>3. PICK rec \in data[f].recs :
            rec.pos = mnew[k].pos /\ rec.len = mnew[k].len /\ rec.val = wanted[k]
      BY <2>1, <2>3, <3>2 DEF Stores
    <3>4. rec \in data'[f].recs
      BY <1>7, <1>9, <3>1, <3>3
    <3> QED
      BY <1>1, <1>5, <2>3, <3>3, <3>4 DEF Stores
  <2>4. CASE mnew[k].fileid # f
    <3>1. data'[mnew[k].fileid] = data[mnew[k].fileid]
      BY <1>2, <1>9, <2>1, <2>4
    <3>2. InFile(mnew[k])
      BY <1>1, <1>14, <3>1 DEF InFile
    <3> QED
      BY <1>1, <2>1, <3>1, <3>2 DEF Stores
  <2> QED
    BY <2>3, <2>4
<1>15. mtodo # {} => data'[mid] = data[mid]
  BY <1>2, <1>3, <1>9
<1>16. MergeInv'
  <2>1. /\ mid' \in files' /\ active' < mid' /\ \A g \in files' : g <= mid'
        /\ mfiles' \subseteq files' /\ \A g \in mfiles' : g <= active'
    BY <1>1 DEF FaultInv, MergeInv
  <2>2. mtodo' # {} => mpos' = data'[mid'].size
    BY <1>1, <1>15 DEF FaultInv, MergeInv
  <2>3. /\ \A k \in settled' \cap DOMAIN keydir' : keydir'[k].fileid <= active'
        /\ \A k \in DOMAIN keydir' : keydir'[k].fileid \in mfiles' => k \in mtodo' \cup DOMAIN mnew'
        /\ \A k \in mtodo' : keydir'[k].fileid \in mfiles'
        /\ \A k \in DOMAIN mnew' :
             /\ active' < mnew'[k].fileid /\ mnew'[k].fileid <= mid' /\ mnew'[k].fileid \in files'
             /\ mnew'[k].fileid = mid' => mnew'[k].pos + mnew'[k].len <= mpos'
    BY <1>1 DEF FaultInv, MergeInv
  <2>4. \A k \in DOMAIN mnew' : k \in settled' /\ InFile(mnew[k])' => Stores(mnew[k], wanted[k])'
    BY <1>1, <1>14
  <2> QED
    BY <1>1, <2>1, <2>2, <2>3, <2>4 DEF MergeInv
<1> QED
  BY <1>10, <1>11, <1>12, <1>13, <1>16 DEF FaultInv

\* Every step keeps the invariant.
LEMMA FaultStep ==
  ASSUME FaultInv, [Next]_wvars
  PROVE  FaultInv'
<1>1. CASE UNCHANGED wvars
  BY <1>1 DEF wvars, disk, writer, merge, FaultInv, FaultTypeOK, LogInv, FileInv, SettledInv,
              MergeInv, Stores, InFile
<1> QED
  BY <1>1, WriteStep, WriteFailsStep, MergeBeginStep, MergeCopyStep, DropLosesStep, MergeKeydirSetStep,
     MergeRemoveStep, MergeFinishStep DEF Next

\* FaultInv holds in every reachable state, whatever operations fail.
LEMMA FaultInvariant == Spec => []FaultInv
<1>1. Init => FaultInv
  <2> SUFFICES ASSUME Init PROVE FaultInv
    OBVIOUS
  <2>1. /\ DOMAIN keydir = {} /\ DOMAIN mnew = {} /\ DOMAIN stats = {} /\ mtodo = {}
        /\ DOMAIN data = {0} /\ data[0] = EmptyFile /\ files = {0}
        /\ keydir \in [DOMAIN keydir -> Entries] /\ stats \in [DOMAIN stats -> LogStats]
        /\ mnew \in [DOMAIN mnew -> Entries]
    BY DEF Init, EmptyMap
  <2>2. EmptyFile \in DataFiles /\ WellFormed(EmptyFile)
    BY DEF EmptyFile, DataFiles, WellFormed
  <2>3. data \in [DOMAIN data -> DataFiles]
    BY <2>1, <2>2 DEF Init
  <2> QED
    BY <2>1, <2>2, <2>3
       DEF Init, FaultInv, FaultTypeOK, LogInv, FileInv, SettledInv, MergeInv
<1>2. FaultInv /\ [Next]_wvars => FaultInv'
  BY FaultStep
<1> QED
  BY <1>1, <1>2, PTL DEF Spec

\* However appends, rotations and merges fail, a key whose last successful
\* set or del found active_fileid to be the file that is written to, and that
\* no merge has pointed at a copy its dropped BufWriter did not write, reads
\* as that call has left it.
THEOREM SettledKeysCorrect == Spec => []SettledKeysKept
<1>1. FaultInv => SettledKeysKept
  <2> SUFFICES ASSUME FaultInv, NEW k \in settled PROVE ReadKey(k) = wanted[k]
    BY DEF SettledKeysKept
  <2>1. CASE k \notin DOMAIN keydir
    BY <2>1 DEF FaultInv, SettledInv, ReadKey
  <2>2. CASE k \in DOMAIN keydir
    <3> DEFINE e == keydir[k]
               file == data[e.fileid]
    <3>1. Stores(e, wanted[k])
      BY <2>2 DEF FaultInv, SettledInv
    <3>2. PICK rec \in file.recs : rec.pos = e.pos /\ rec.len = e.len /\ rec.val = wanted[k]
      BY <3>1 DEF Stores
    <3>3. e.fileid \in files /\ WellFormed(file)
      BY <3>1 DEF FaultInv, FaultTypeOK, LogInv, Stores
    <3>4. e.len \in Nat /\ file.size \in Nat /\ e.pos \in Nat
      BY <2>2, <3>3 DEF FaultInv, FaultTypeOK, Entries, DataFiles
    <3>5. EntriesAt(file, e.pos, e.len) = {rec}
      BY <3>2, <3>3, <3>4 DEF EntriesAt, WellFormed
    <3>6. ~(e.pos + e.len > file.size)
      BY <3>2, <3>3, <3>4 DEF WellFormed
    <3>7. ReadAt(file, e.pos, e.len) = rec.val
      BY <3>5, <3>6 DEF ReadAt
    <3> QED
      BY <2>2, <3>2, <3>3, <3>7 DEF ReadKey
  <2> QED
    BY <2>1, <2>2
<1> QED
  BY <1>1, FaultInvariant, PTL

-----------------------------------------------------------------------------
(* live_keys covers the keys *)

Live(f) == StatsOf(stats, f).live

\* Sets of keys by file are finite.
LEMMA CoverTypes ==
  ASSUME LiveInv, NEW f
  PROVE  /\ IsFiniteSet(KeysIn(f)) /\ Cardinality(KeysIn(f)) \in Nat
         /\ IsFiniteSet(NewIn(f)) /\ Cardinality(NewIn(f)) \in Nat
<1>1. KeysIn(f) \subseteq DOMAIN keydir /\ NewIn(f) \subseteq DOMAIN mnew
  BY DEF KeysIn, NewIn
<1>2. IsFiniteSet(KeysIn(f)) /\ IsFiniteSet(NewIn(f))
  BY <1>1, FS_Subset DEF LiveInv
<1> QED
  BY <1>2, FS_CardinalityType

\* live_keys of a file is an integer.
LEMMA LiveType ==
  ASSUME NEW s, s \in [DOMAIN s -> LogStats], NEW f
  PROVE  StatsOf(s, f) \in LogStats /\ StatsOf(s, f).live \in Int
  BY DEF StatsOf, NoStats, LogStats

\* What counting and superseding an entry do to live_keys.
LEMMA LiveCounted ==
  ASSUME stats \in [DOMAIN stats -> LogStats], NEW v \in Values \cup {NoValue}, NEW f
  PROVE  StatsOf(Counted(v), f).live =
           Live(f) + (IF v # NoValue /\ f = active THEN 1 ELSE 0)
<1> DEFINE st == StatsOf(stats, active)
<1>1. st \in LogStats /\ st.live \in Int /\ Live(f) \in Int
  BY LiveType DEF Live
<1>2. AddLive(st).live = st.live + 1 /\ AddDead(st, EntryLen[v]).live = st.live
  BY <1>1 DEF AddLive, AddDead, LogStats
<1>3. Counted(v) = Upd(stats, active, IF v = NoValue THEN AddDead(st, EntryLen[v]) ELSE AddLive(st))
  BY DEF Counted, CountedFile
<1>4. CASE f = active
  <2>1. StatsOf(Counted(v), f) = IF v = NoValue THEN AddDead(st, EntryLen[v]) ELSE AddLive(st)
    BY <1>3, <1>4 DEF StatsOf, Upd
  <2> QED
    BY <1>1, <1>2, <1>4, <2>1 DEF Live
<1>5. CASE f # active
  <2>1. StatsOf(Counted(v), f) = StatsOf(stats, f)
    BY <1>3, <1>5 DEF StatsOf, Upd
  <2> QED
    BY <1>1, <1>5, <2>1 DEF Live
<1> QED
  BY <1>4, <1>5

\* Superseding the entry of a key takes one off live_keys of its file.
LEMMA LiveSuperseded ==
  ASSUME NEW s, s \in [DOMAIN s -> LogStats], NEW k, NEW f
  PROVE  StatsOf(Superseded(s, k), f).live =
           StatsOf(s, f).live - (IF k \in KeysIn(f) THEN 1 ELSE 0)
<1>1. StatsOf(s, f) \in LogStats /\ StatsOf(s, f).live \in Int
  BY LiveType
<1>2. CASE k \in KeysIn(f)
  <2>1. Superseded(s, k) = Upd(s, f, Overwrite(StatsOf(s, f), keydir[k].len))
    BY <1>2 DEF KeysIn, Superseded, SupersedeIn
  <2>2. StatsOf(Superseded(s, k), f) = Overwrite(StatsOf(s, f), keydir[k].len)
    BY <2>1 DEF StatsOf, Upd
  <2> QED
    BY <1>1, <1>2, <2>2 DEF Overwrite
<1>3. CASE k \notin KeysIn(f)
  <2>1. StatsOf(Superseded(s, k), f) = StatsOf(s, f)
    BY <1>3 DEF KeysIn, Superseded, SupersedeIn, StatsOf, Upd
  <2> QED
    BY <1>1, <1>3, <2>1
<1> QED
  BY <1>2, <1>3

\* A set or del that returns no error.
LEMMA WriteCovered ==
  ASSUME FaultInv, LiveInv, NEW k \in Keys, NEW v \in Values \cup {NoValue}, Write(k, v)
  PROVE  LiveInv'
<1> DEFINE e == [fileid |-> active, pos |-> Position, len |-> EntryLen[v]]
<1>1. /\ mpc \in {"idle", "dead"} /\ UNCHANGED <<mtodo, mnew>>
      /\ keydir' = IF v = NoValue THEN Without(keydir, k) ELSE Upd(keydir, k, e)
      /\ stats' = Superseded(Counted(v), k)
  BY DEF Write, MayWrite, merge
<1>2. /\ mtodo = {} /\ DOMAIN mnew = {} /\ stats \in [DOMAIN stats -> LogStats]
  BY <1>1 DEF FaultInv, FaultTypeOK, MergeInv
<1>3. Counted(v) \in [DOMAIN Counted(v) -> LogStats]
  BY <1>2, CountedType
<1>4. ASSUME NEW f \in Nat
      PROVE  StatsOf(stats', f).live >= Cardinality(KeysIn(f)') + Cardinality(NewIn(f)')
  <2> DEFINE in  == IF k \in KeysIn(f) THEN 1 ELSE 0
             new == IF v # NoValue /\ f = active THEN 1 ELSE 0
  <2>1. StatsOf(stats', f).live = StatsOf(Counted(v), f).live - in
    BY <1>1, <1>3, LiveSuperseded
  <2>2. StatsOf(Counted(v), f).live = Live(f) + new
    BY <1>2, LiveCounted
  <2>3. NewIn(f) = {} /\ NewIn(f)' = {} /\ Cardinality({}) = 0
    BY <1>1, <1>2, FS_EmptySet DEF NewIn
  <2>4. Live(f) >= Cardinality(KeysIn(f)) + Cardinality(NewIn(f)) /\ Live(f) \in Int
    BY <1>2, LiveType DEF LiveInv, Live
  <2>5. IsFiniteSet(KeysIn(f)) /\ Cardinality(KeysIn(f)) \in Nat
    BY CoverTypes
  <2>6. KeysIn(f)' = IF v # NoValue /\ f = active THEN KeysIn(f) \cup {k} ELSE KeysIn(f) \ {k}
    <3>1. CASE v = NoValue
      BY <1>1, <3>1 DEF KeysIn, Without
    <3>2. CASE v # NoValue
      BY <1>1, <3>2 DEF KeysIn, Upd
    <3> QED
      BY <3>1, <3>2
  <2>7. Cardinality(KeysIn(f) \cup {k}) =
          IF k \in KeysIn(f) THEN Cardinality(KeysIn(f)) ELSE Cardinality(KeysIn(f)) + 1
    BY <2>5, FS_AddElement, Zenon
  <2>8. Cardinality(KeysIn(f) \ {k}) =
          IF k \in KeysIn(f) THEN Cardinality(KeysIn(f)) - 1 ELSE Cardinality(KeysIn(f))
    BY <2>5, FS_RemoveElement, Zenon
  <2>9. Cardinality(KeysIn(f)') = Cardinality(KeysIn(f)) + new - in
    BY <2>5, <2>6, <2>7, <2>8
  <2>10. in \in {0, 1} /\ new \in {0, 1}
    OBVIOUS
  <2> HIDE DEF in, new
  <2> QED
    BY <2>1, <2>2, <2>3, <2>4, <2>5, <2>9, <2>10
<1>5. IsFiniteSet(DOMAIN keydir')
  <2>1. DOMAIN keydir' \in {DOMAIN keydir \cup {k}, DOMAIN keydir \ {k}}
    BY <1>1 DEF Upd, Without
  <2> QED
    BY <2>1, FS_AddElement, FS_RemoveElement DEF LiveInv
<1> QED
  BY <1>1, <1>4, <1>5 DEF LiveInv

\* A turn of the copying loop.
LEMMA CopyCovered ==
  ASSUME FaultInv, LiveInv, MergeCopy
  PROVE  LiveInv'
<1> DEFINE k  == NextKey
           ne == [fileid |-> mid, pos |-> mpos, len |-> keydir[k].len]
           st == StatsOf(stats, mid)
<1>1. /\ mpc = "copy" /\ mtodo # {} /\ UNCHANGED keydir
  BY DEF MergeCopy
<1>2. \/ /\ mnew' = Upd(mnew, k, ne) /\ mtodo' = mtodo \ {k} /\ stats' = Upd(stats, mid, AddLive(st))
      \/ /\ mnew' = EmptyMap /\ mtodo' = {}
         /\ stats' = stats \/ stats' = Upd(stats, mid, AddLive(st))
  BY DEF MergeCopy, MergeEnds
<1>3. k \in mtodo /\ k \notin DOMAIN mnew
  <2>1. mtodo \subseteq Keys
    BY DEF FaultInv, FaultTypeOK
  <2> QED
    BY <1>1, <2>1, NextKeyChosen DEF LiveInv
<1> HIDE DEF k
<1>4. stats \in [DOMAIN stats -> LogStats]
  BY DEF FaultInv, FaultTypeOK
<1>5. st \in LogStats /\ st.live \in Int /\ AddLive(st).live = st.live + 1
  <2>1. st \in LogStats /\ st.live \in Int
    BY <1>4, LiveType
  <2> QED
    BY <2>1 DEF AddLive, LogStats
<1>6. ASSUME NEW f \in Nat
      PROVE  StatsOf(stats', f).live >= Cardinality(KeysIn(f)') + Cardinality(NewIn(f)')
  <2>1. /\ IsFiniteSet(KeysIn(f)) /\ Cardinality(KeysIn(f)) \in Nat
        /\ IsFiniteSet(NewIn(f)) /\ Cardinality(NewIn(f)) \in Nat
    BY CoverTypes
  <2>2. Live(f) >= Cardinality(KeysIn(f)) + Cardinality(NewIn(f)) /\ Live(f) \in Int
    BY <1>4, LiveType DEF LiveInv, Live
  <2>3. KeysIn(f)' = KeysIn(f)
    BY <1>1 DEF KeysIn
  <2>4. ASSUME stats' = Upd(stats, mid, AddLive(st))
        PROVE  StatsOf(stats', f).live = IF f = mid THEN Live(f) + 1 ELSE Live(f)
    <3>1. CASE f = mid
      <4>1. StatsOf(stats', f) = AddLive(st)
        BY <2>4, <3>1 DEF StatsOf, Upd
      <4> QED
        BY <1>5, <3>1, <4>1 DEF Live
    <3>2. CASE f # mid
      BY <2>4, <3>2 DEF StatsOf, Upd, Live
    <3> QED
      BY <3>1, <3>2
  <2>5. CASE mnew' = EmptyMap
    <3>1. Cardinality(NewIn(f)') = 0
      <4>1. NewIn(f)' = {}
        BY <2>5, EmptyMapType DEF NewIn
      <4> QED
        BY <4>1, FS_EmptySet
    <3>2. StatsOf(stats', f).live \in {Live(f), Live(f) + 1}
      BY <1>2, <2>4 DEF Live
    <3> QED
      BY <2>1, <2>2, <2>3, <3>1, <3>2
  <2>6. CASE mnew' = Upd(mnew, k, ne) /\ stats' = Upd(stats, mid, AddLive(st))
    <3>1. NewIn(f)' = IF f = mid THEN NewIn(f) \cup {k} ELSE NewIn(f)
      BY <1>3, <2>6 DEF NewIn, Upd
    <3>2. k \notin NewIn(f)
      BY <1>3 DEF NewIn
    <3>3. Cardinality(NewIn(f) \cup {k}) = Cardinality(NewIn(f)) + 1
      BY <2>1, <3>2, FS_AddElement
    <3> QED
      BY <2>1, <2>2, <2>3, <2>4, <2>6, <3>1, <3>3
  <2> QED
    BY <1>2, <2>5, <2>6
<1>7. IsFiniteSet(DOMAIN mnew') /\ mtodo' \cap DOMAIN mnew' = {}
  <2>1. CASE mnew' = EmptyMap
    BY <2>1, EmptyMapType, FS_EmptySet
  <2>2. CASE mnew' = Upd(mnew, k, ne) /\ mtodo' = mtodo \ {k}
    <3>1. DOMAIN mnew' = DOMAIN mnew \cup {k}
      BY <2>2 DEF Upd
    <3> QED
      BY <2>2, <3>1, FS_AddElement DEF LiveInv
  <2> QED
    BY <1>2, <2>1, <2>2
<1> QED
  BY <1>1, <1>6, <1>7 DEF LiveInv

\* The keys move to their copies.
LEMMA MoveCovered ==
  ASSUME FaultInv, LiveInv, MergeKeydirSet
  PROVE  LiveInv'
<1>1. /\ keydir' = [k \in DOMAIN keydir |-> IF k \in DOMAIN mnew THEN mnew[k] ELSE keydir[k]]
      /\ UNCHANGED <<stats, mtodo>> /\ DOMAIN mnew' = {}
  BY EmptyMapType DEF MergeKeydirSet
<1>2. ASSUME NEW f \in Nat
      PROVE  StatsOf(stats', f).live >= Cardinality(KeysIn(f)') + Cardinality(NewIn(f)')
  <2>1. /\ IsFiniteSet(KeysIn(f)) /\ Cardinality(KeysIn(f)) \in Nat
        /\ IsFiniteSet(NewIn(f)) /\ Cardinality(NewIn(f)) \in Nat
    BY CoverTypes
  <2>2. KeysIn(f)' \subseteq KeysIn(f) \cup NewIn(f) /\ NewIn(f)' = {}
    BY <1>1 DEF KeysIn, NewIn
  <2>3. /\ IsFiniteSet(KeysIn(f) \cup NewIn(f))
        /\ Cardinality(KeysIn(f) \cup NewIn(f)) =
             Cardinality(KeysIn(f)) + Cardinality(NewIn(f)) - Cardinality(KeysIn(f) \cap NewIn(f))
    BY <2>1, FS_Union
  <2>4. IsFiniteSet(KeysIn(f) \cap NewIn(f))
    BY <2>1, FS_Subset
  <2>5. Cardinality(KeysIn(f) \cap NewIn(f)) \in Nat
    BY <2>4, FS_CardinalityType
  <2>6. /\ IsFiniteSet(KeysIn(f)')
        /\ Cardinality(KeysIn(f)') <= Cardinality(KeysIn(f) \cup NewIn(f))
    BY <2>2, <2>3, FS_Subset
  <2>7. Cardinality(KeysIn(f)') \in Nat /\ Cardinality(NewIn(f)') = 0
    BY <2>2, <2>6, FS_CardinalityType, FS_EmptySet
  <2>8. /\ StatsOf(stats, f).live >= Cardinality(KeysIn(f)) + Cardinality(NewIn(f))
        /\ StatsOf(stats, f).live \in Int
    BY LiveType DEF LiveInv, FaultInv, FaultTypeOK
  <2> QED
    BY <1>1, <2>1, <2>3, <2>5, <2>6, <2>7, <2>8
<1> QED
  BY <1>1, <1>2, FS_EmptySet DEF LiveInv

\* A merged file goes, with its statistics.
LEMMA RemoveCovered ==
  ASSUME FaultInv, LiveInv, MergeRemove
  PROVE  LiveInv'
<1> DEFINE o == OldestMerged
<1>1. /\ mpc = "remove" /\ mfiles # {} /\ stats' = Without(stats, o) /\ UNCHANGED keydir
      /\ mnew' \in {mnew, EmptyMap} /\ mtodo' \in {mtodo, {}}
  BY DEF MergeRemove, MergeEnds
<1>2. /\ DOMAIN mnew = {} /\ mtodo = {} /\ mfiles \subseteq Nat
      /\ \A k \in DOMAIN keydir : keydir[k].fileid \notin mfiles
  BY <1>1 DEF FaultInv, FaultTypeOK, MergeInv
<1>3. o \in mfiles
  BY <1>1, <1>2, OldestChosen
<1> HIDE DEF o
<1>4. DOMAIN mnew' = {} /\ mtodo' = {}
  BY <1>1, <1>2, EmptyMapType
<1>5. ASSUME NEW f \in Nat
      PROVE  StatsOf(stats', f).live >= Cardinality(KeysIn(f)') + Cardinality(NewIn(f)')
  <2>1. KeysIn(f)' = KeysIn(f) /\ NewIn(f)' = {} /\ NewIn(f) = {}
    BY <1>1, <1>2, <1>4 DEF KeysIn, NewIn
  <2>2. CASE f = o
    <3>1. KeysIn(f) = {}
      BY <1>2, <1>3, <2>2 DEF KeysIn
    <3>2. StatsOf(stats', f).live = 0
      BY <1>1, <2>2 DEF StatsOf, Without, NoStats
    <3> QED
      BY <2>1, <3>1, <3>2, FS_EmptySet
  <2>3. CASE f # o
    <3>1. StatsOf(stats', f) = StatsOf(stats, f)
      BY <1>1, <2>3 DEF StatsOf, Without
    <3> QED
      BY <2>1, <3>1 DEF LiveInv
  <2> QED
    BY <2>2, <2>3
<1> QED
  BY <1>1, <1>4, <1>5, FS_EmptySet DEF LiveInv

\* Every step keeps live_keys at or above the keys.
LEMMA CoverStep ==
  ASSUME FaultInv, LiveInv, [Next]_wvars
  PROVE  LiveInv'
<1>1. CASE UNCHANGED <<keydir, stats, mnew, mtodo>>
  BY <1>1 DEF LiveInv, KeysIn, NewIn
<1>2. CASE \/ UNCHANGED wvars \/ MergeBeginFails \/ DropLoses
           \/ \E k \in Keys, v \in Values \cup {NoValue} : WriteFails(k, v)
  BY <1>1, <1>2 DEF wvars, merge, MergeBeginFails, MergeStarts, DropLoses,
                  WriteFails, MayWrite
<1>3. CASE MergeBegin \/ MergeFinish
  <2>1. /\ UNCHANGED <<keydir, stats>> /\ mnew' = EmptyMap /\ mpc # "copy"
    BY <1>3 DEF MergeBegin, MergeStarts, MergeFinish, MergeEnds
  <2>2. DOMAIN mnew = {} /\ DOMAIN mnew' = {}
    BY <2>1, EmptyMapType DEF FaultInv, MergeInv
  <2>3. ASSUME NEW f
        PROVE  KeysIn(f)' = KeysIn(f) /\ NewIn(f)' = NewIn(f)
    BY <2>1, <2>2 DEF KeysIn, NewIn
  <2> QED
    BY <2>1, <2>2, <2>3, FS_EmptySet DEF LiveInv
<1>4. ASSUME NEW k \in Keys, NEW v \in Values \cup {NoValue}, RotateFails(k, v)
      PROVE  LiveInv'
  <2>1. stats' = Counted(v) /\ UNCHANGED <<keydir, mnew, mtodo>>
    BY <1>4 DEF RotateFails, MayWrite, merge
  <2>2. ASSUME NEW f \in Nat
        PROVE  StatsOf(stats', f).live >= Cardinality(KeysIn(f)') + Cardinality(NewIn(f)')
    <3>1. KeysIn(f)' = KeysIn(f) /\ NewIn(f)' = NewIn(f)
      BY <2>1 DEF KeysIn, NewIn
    <3>2. Live(f) >= Cardinality(KeysIn(f)) + Cardinality(NewIn(f)) /\ Live(f) \in Int
      BY LiveType DEF LiveInv, Live, FaultInv, FaultTypeOK
    <3>3. StatsOf(stats', f).live = Live(f) + (IF v # NoValue /\ f = active THEN 1 ELSE 0)
      BY <2>1, LiveCounted DEF FaultInv, FaultTypeOK
    <3>4. Cardinality(KeysIn(f)) \in Nat /\ Cardinality(NewIn(f)) \in Nat
      BY CoverTypes
    <3> QED
      BY <3>1, <3>2, <3>3, <3>4
  <2> QED
    BY <2>1, <2>2 DEF LiveInv
<1> QED
  BY <1>2, <1>3, <1>4, WriteCovered, CopyCovered, MoveCovered, RemoveCovered DEF Next

\* However calls and merges fail, live_keys of a file is never less than the
\* number of keys that point into it, so that overwrite() does not take the
\* u64 below zero.
THEOREM LiveCoveredCorrect == Spec => []LiveCovered
<1>1. Init => LiveInv
  <2> SUFFICES ASSUME Init PROVE LiveInv
    OBVIOUS
  <2>1. DOMAIN keydir = {} /\ DOMAIN mnew = {} /\ DOMAIN stats = {}
    BY EmptyMapType DEF Init, EmptyMap
  <2>2. ASSUME NEW f \in Nat
        PROVE  StatsOf(stats, f).live >= Cardinality(KeysIn(f)) + Cardinality(NewIn(f))
    <3>1. KeysIn(f) = {} /\ NewIn(f) = {} /\ StatsOf(stats, f).live = 0
      BY <2>1 DEF KeysIn, NewIn, StatsOf, NoStats
    <3> QED
      BY <3>1, FS_EmptySet
  <2> QED
    BY <2>1, <2>2, FS_EmptySet DEF LiveInv
<1>2. FaultInv /\ LiveInv /\ [Next]_wvars => LiveInv'
  BY CoverStep
<1>3. FaultInv /\ LiveInv => LiveCovered
  <2> SUFFICES ASSUME FaultInv, LiveInv, NEW k \in DOMAIN keydir
               PROVE  StatsOf(stats, keydir[k].fileid).live >= Cardinality(KeysIn(keydir[k].fileid))
    BY DEF LiveCovered, KeysIn
  <2> DEFINE f == keydir[k].fileid
  <2>1. f \in Nat /\ stats \in [DOMAIN stats -> LogStats]
    BY DEF FaultInv, FaultTypeOK, Entries
  <2> HIDE DEF f
  <2>2. /\ StatsOf(stats, f).live >= Cardinality(KeysIn(f)) + Cardinality(NewIn(f))
        /\ StatsOf(stats, f).live \in Int
    BY <2>1, LiveType DEF LiveInv
  <2>3. Cardinality(KeysIn(f)) \in Nat /\ Cardinality(NewIn(f)) \in Nat
    BY CoverTypes
  <2>4. StatsOf(stats, f).live >= Cardinality(KeysIn(f))
    BY <2>2, <2>3
  <2> QED
    BY <2>4 DEF f
<1> QED
  BY <1>1, <1>2, <1>3, FaultInvariant, PTL DEF Spec

=============================================================================
