------------------------- MODULE BitcaskReopenProofs -------------------------
(***************************************************************************)
(* Proofs about a directory that is opened again while the first instance  *)
(* is still going away, for every interleaving of the two: no value is     *)
(* lost, and up to the first merge the second KeyDir is that of the first. *)
(***************************************************************************)
EXTENDS BitcaskReopen, BitcaskProofs, FiniteSetTheorems, WellFoundedInduction

\* A bounded set of naturals that is not empty has a largest element.
LEMMA LargestExists ==
  ASSUME NEW P \in SUBSET Nat, P # {}, NEW n \in Nat, \A p \in P : p <= n
  PROVE  \E m \in P : \A p \in P : p <= m
<1> DEFINE Above(p) == {q \in P : p <= q}
           T == {Above(p) : p \in P}
<1>1. IsFiniteSet(P)
  BY FS_BoundedSetOfNaturals
<1>2. T \subseteq FiniteSubsetsOf(P) /\ T # {}
  <2>1. \A p \in P : Above(p) \in SUBSET P
    OBVIOUS
  <2>2. \A p \in P : IsFiniteSet(Above(p))
    BY <1>1, <2>1, FS_Subset
  <2>3. QED
    BY <2>1, <2>2 DEF FiniteSubsetsOf
<1>3. IsWellFoundedOn(StrictSubsetOrdering(P), FiniteSubsetsOf(P))
  BY FS_StrictSubsetOrderingWellFounded
<1>4. PICK x \in T : \A y \in T : <<y, x>> \notin StrictSubsetOrdering(P)
  <2> HIDE DEF T
  <2>1. QED
    BY <1>2, <1>3, WFMin, Zenon
<1>5. PICK m \in P : x = Above(m)
  BY <1>4
<1>6. ASSUME NEW p \in P PROVE p <= m
  <2>0. p \in Nat /\ m \in Nat
    OBVIOUS
  <2>1. SUFFICES ASSUME m < p PROVE FALSE
    BY <2>0
  <2>2. Above(p) \in T
    OBVIOUS
  <2> HIDE DEF T
  <2>3. ASSUME NEW q \in Above(p) PROVE q \in Above(m)
    BY <2>0, <2>1
  <2>4. m \in Above(m) /\ m \notin Above(p)
    BY <2>0, <2>1
  <2>5. Above(p) \in SUBSET P /\ Above(m) \in SUBSET P
    OBVIOUS
  <2> HIDE DEF Above
  <2>6. <<Above(p), Above(m)>> \in StrictSubsetOrdering(P)
    BY <2>3, <2>4, <2>5 DEF StrictSubsetOrdering
  <2>7. QED
    BY <1>4, <1>5, <2>2, <2>6
<1>7. QED
  BY <1>6

-----------------------------------------------------------------------------
(* The first instance while it goes away *)

\* It has been dropped for good, or the second instance is under way.
Late == phase # "none" \/ gone

\* No call is under way any more, and new ones are refused.
Quiesced == closed /\ pc \in [Threads -> {"idle", "ret"}]

LateFiles ==
  /\ data \in [DOMAIN data -> DataFiles] /\ LogInv
  /\ files \subseteq DOMAIN data
  /\ active \in Nat /\ mid \in Nat
  /\ keydir \in [DOMAIN keydir -> Entries]
  /\ mnew \in [DOMAIN mnew -> Entries]

\* A merge that waits for the mutex finds the KeyDir below the active file; one
\* that has begun is as MergeInv has it, and no entry in use is in a file that
\* it is yet to create.
LateWaits ==
  mpc = "wait" =>
    /\ DOMAIN mnew = {}
    /\ \A k \in DOMAIN keydir : keydir[k].fileid <= active
    /\ \A f \in DOMAIN stats : f \in Nat /\ f <= active

LateMerges ==
  mpc = "merge" =>
    /\ active < mid /\ mid \in files /\ mpos = data[mid].size
    /\ \A f \in mfiles : f \in Nat /\ f <= active
    /\ mtodo \subseteq DOMAIN keydir
    /\ \A k \in DOMAIN keydir :
         /\ keydir[k].fileid <= mid
         /\ keydir[k].fileid \in mfiles => k \in mtodo \cup DOMAIN mnew
    /\ \A k \in DOMAIN mnew :
         /\ mnew[k].fileid \in files /\ active < mnew[k].fileid /\ mnew[k].fileid <= mid
         /\ Locates(data, mnew[k], k)

\* No key points into an active file that Writer::drop would take for empty.
LateDrop == written = 0 => \A k \in DOMAIN keydir : keydir[k].fileid # active

LateInv == Quiesced /\ LateFiles /\ LateWaits /\ LateMerges /\ LateDrop /\ KeydirValid

\* An entry stays where it is while its file keeps the entries it has.
LEMMA LocatesKept ==
  ASSUME NEW d, NEW d2, NEW e, NEW k, Locates(d, e, k), e.fileid \in DOMAIN d2,
         d[e.fileid].recs \subseteq d2[e.fileid].recs
  PROVE  Locates(d2, e, k)
BY DEF Locates

\* log::create keeps the files well formed.
LEMMA CreateLate ==
  ASSUME NEW d, d \in [DOMAIN d -> DataFiles], \A f \in DOMAIN d : WellFormed(d[f]), NEW b
  PROVE  LET d2 == Upd(d, b, EmptyFile)
         IN  /\ DOMAIN d2 = DOMAIN d \cup {b}
             /\ d2 \in [DOMAIN d2 -> DataFiles]
             /\ \A f \in DOMAIN d2 : WellFormed(d2[f])
             /\ d2[b].size = 0
             /\ \A f \in DOMAIN d : f # b => d2[f] = d[f]
<1>1. EmptyFile \in DataFiles /\ WellFormed(EmptyFile) /\ EmptyFile.size = 0
  BY EmptyFileType DEF EmptyFile, WellFormed
<1>2. QED
  BY <1>1 DEF Upd

\* The steps that leave the directory and the KeyDir alone.
LEMMA LateQuiet ==
  ASSUME LateInv, Quiesced', UNCHANGED <<data, files, keydir, active, written>>,
         mid' \in Nat, mnew' \in [DOMAIN mnew' -> Entries],
         \/ mpc' \in {"sleep", "stopped"}
         \/ UNCHANGED <<mpc, stats, mid, mpos, mfiles, mtodo, mnew>>
  PROVE  LateInv'
<1>1. LateFiles' /\ LateDrop' /\ KeydirValid'
  BY DEF LateInv, LateFiles, LogInv, LateDrop, KeydirValid
<1>2. LateWaits' /\ LateMerges'
  BY DEF LateInv, LateWaits, LateMerges
<1>3. QED
  BY <1>1, <1>2 DEF LateInv

\* Writer::merge begins: the file it creates is above all entries in use.
LEMMA LateBegin ==
  ASSUME LateInv, MergeBegin
  PROVE  LateInv'
<1> DEFINE b == active + 1
<1>1. /\ mpc = "wait" /\ mpc' = "merge" /\ mfiles' = FileidsToMerge /\ mid' = b /\ mpos' = 0
      /\ mtodo' = {k \in DOMAIN keydir : keydir[k].fileid \in FileidsToMerge}
      /\ data' = Upd(data, b, EmptyFile) /\ files' = files \cup {b}
      /\ UNCHANGED <<keydir, closed, active, written, pc, mnew>>
  BY DEF MergeBegin, NextFileid, ctx, calls
<1>2. /\ data \in [DOMAIN data -> DataFiles] /\ (\A f \in DOMAIN data : WellFormed(data[f]))
      /\ files \subseteq DOMAIN data /\ active \in Nat /\ b \in Nat
      /\ keydir \in [DOMAIN keydir -> Entries] /\ mnew \in [DOMAIN mnew -> Entries]
  BY DEF LateInv, LateFiles, LogInv
<1>3. /\ DOMAIN mnew = {}
      /\ \A k \in DOMAIN keydir : keydir[k].fileid <= active
      /\ \A f \in DOMAIN stats : f \in Nat /\ f <= active
  BY <1>1 DEF LateInv, LateWaits
<1>4. /\ DOMAIN data' = DOMAIN data \cup {b}
      /\ data' \in [DOMAIN data' -> DataFiles]
      /\ \A f \in DOMAIN data' : WellFormed(data'[f])
      /\ data'[b].size = 0
      /\ \A f \in DOMAIN data : f # b => data'[f] = data[f]
  BY <1>1, <1>2, CreateLate
<1> HIDE DEF b
<1>5. LateFiles'
  BY <1>1, <1>2, <1>4 DEF LateFiles, LogInv
<1>6. \A k \in DOMAIN keydir : keydir[k].fileid \in Nat /\ keydir[k].fileid # b
  BY <1>2, <1>3 DEF b, Entries
<1>7. KeydirValid'
  <2> SUFFICES ASSUME NEW k \in DOMAIN keydir
               PROVE  keydir[k].fileid \in files' /\ Locates(data', keydir[k], k)
    BY <1>1 DEF KeydirValid
  <2>1. keydir[k].fileid \in files /\ Locates(data, keydir[k], k)
    BY DEF LateInv, KeydirValid
  <2>2. QED
    BY <1>1, <1>2, <1>4, <1>6, <2>1, LocatesKept
<1>8. LateMerges'
  <2>1. \A f \in FileidsToMerge : f \in Nat /\ f <= active
    BY <1>3 DEF FileidsToMerge
  <2>2. active < b /\ b \in files' /\ data'[b].size = 0
    BY <1>1, <1>2, <1>4 DEF b
  <2>3. \A k \in DOMAIN keydir : keydir[k].fileid <= b
    BY <1>2, <1>3, <1>6 DEF b
  <2>4. QED
    BY <1>1, <1>3, <2>1, <2>2, <2>3 DEF LateMerges
<1>9. Quiesced' /\ LateWaits' /\ LateDrop'
  BY <1>1 DEF LateInv, Quiesced, LateWaits, LateDrop
<1>10. QED
  BY <1>5, <1>7, <1>8, <1>9 DEF LateInv

\* What a turn of the copying loop appends to the merge file.
LEMMA LateAppend ==
  ASSUME LateInv, mpc = "merge", NEW k \in mtodo, NEW rec \in CopySource(k),
         NEW n, n = keydir[k].len
  PROVE  LET d2 == Upd(data, mid, AppendEntry(data[mid], rec.key, rec.val, n))
         IN  /\ DOMAIN d2 = DOMAIN data /\ mid \in DOMAIN data
             /\ d2 \in [DOMAIN d2 -> DataFiles]
             /\ \A f \in DOMAIN d2 : WellFormed(d2[f])
             /\ Grows(data, d2)
             /\ d2[mid].size = mpos + n /\ mpos \in Nat /\ n \in Nat \ {0}
             /\ Locates(d2, MergedEntry(keydir[k]), k)
             /\ MergedEntry(keydir[k]) \in Entries
<1> DEFINE e  == keydir[k]
           d2 == Upd(data, mid, AppendEntry(data[mid], rec.key, rec.val, n))
<1>1. /\ data \in [DOMAIN data -> DataFiles] /\ (\A f \in DOMAIN data : WellFormed(data[f]))
      /\ files \subseteq DOMAIN data /\ mid \in Nat
      /\ mid \in files /\ mpos = data[mid].size /\ k \in DOMAIN keydir
      /\ e \in Entries
  BY DEF LateInv, LateFiles, LogInv, LateMerges
<1>2. /\ rec \in data[e.fileid].recs /\ rec.pos = e.pos /\ rec.len = e.len
      /\ e.fileid \in DOMAIN data /\ Locates(data, e, k)
  BY <1>1 DEF CopySource, LateInv, KeydirValid
<1>3. PICK r \in data[e.fileid].recs : r.pos = e.pos /\ r.key = k /\ r.val \in Values
  BY <1>2 DEF Locates
<1>4. rec = r
  BY <1>1, <1>2, <1>3 DEF WellFormed
<1>5. rec.key = k /\ rec.val \in Values /\ n \in Nat \ {0} /\ rec \in Records /\ n = rec.len
  BY <1>1, <1>2, <1>3, <1>4 DEF Entries, DataFiles
<1>6. k \in Keys /\ rec.val \in Values \cup {NoValue}
  BY <1>5 DEF Records
<1>7. /\ DOMAIN d2 = DOMAIN data
      /\ d2 \in [DOMAIN d2 -> DataFiles]
      /\ \A f \in DOMAIN d2 : WellFormed(d2[f])
      /\ Grows(data, d2)
      /\ d2[mid].size = data[mid].size + n
      /\ [pos |-> data[mid].size, len |-> n, key |-> rec.key, val |-> rec.val] \in d2[mid].recs
  BY <1>1, <1>5, <1>6, AppendFile
<1> HIDE DEF d2
<1>8. mpos \in Nat /\ mid \in DOMAIN data
  BY <1>1 DEF DataFiles
<1>9. MergedEntry(e) = [fileid |-> mid, pos |-> mpos, len |-> n]
  BY DEF MergedEntry
<1>10. Locates(d2, MergedEntry(e), k)
  BY <1>1, <1>5, <1>7, <1>8, <1>9 DEF Locates
<1>11. MergedEntry(e) \in Entries
  BY <1>1, <1>5, <1>8, <1>9 DEF Entries
<1>12. QED
  BY <1>1, <1>5, <1>7, <1>8, <1>10, <1>11 DEF d2

\* A turn of the copying loop of Writer::merge.
LEMMA LateCopy ==
  ASSUME LateInv, MergeCopy
  PROVE  LateInv'
<1>1. PICK k \in mtodo : \E rec \in CopySource(k) : CopyEntry(k, rec)
  BY DEF MergeCopy
<1>2. PICK rec \in CopySource(k) : CopyEntry(k, rec)
  BY <1>1
<1> DEFINE n  == keydir[k].len
           b  == mid + 1
           d2 == Upd(data, mid, AppendEntry(data[mid], rec.key, rec.val, n))
           d3 == Upd(d2, b, EmptyFile)
<1>3. /\ mpc = "merge" /\ mpc' = "merge"
      /\ UNCHANGED <<keydir, closed, active, written, pc, mfiles>>
  BY DEF MergeCopy, ctx, calls
<1>4. /\ mtodo' = mtodo \ {k} /\ mnew' = Upd(mnew, k, MergedEntry(keydir[k]))
      /\ data' = IF MergeExceeds(n) THEN d3 ELSE d2
      /\ files' = IF MergeExceeds(n) THEN files \cup {b} ELSE files
      /\ mid' = IF MergeExceeds(n) THEN b ELSE mid
      /\ mpos' = IF MergeExceeds(n) THEN 0 ELSE mpos + n
  BY <1>2 DEF CopyEntry
<1>5. /\ DOMAIN d2 = DOMAIN data /\ mid \in DOMAIN data
      /\ d2 \in [DOMAIN d2 -> DataFiles]
      /\ \A f \in DOMAIN d2 : WellFormed(d2[f])
      /\ Grows(data, d2)
      /\ d2[mid].size = mpos + n /\ mpos \in Nat /\ n \in Nat \ {0}
      /\ Locates(d2, MergedEntry(keydir[k]), k)
      /\ MergedEntry(keydir[k]) \in Entries
  BY <1>3, LateAppend
<1> HIDE DEF n, d2
<1>6. /\ DOMAIN d3 = DOMAIN d2 \cup {b}
      /\ d3 \in [DOMAIN d3 -> DataFiles]
      /\ \A f \in DOMAIN d3 : WellFormed(d3[f])
      /\ d3[b].size = 0
      /\ \A f \in DOMAIN d2 : f # b => d3[f] = d2[f]
  BY <1>5, CreateLate
<1> HIDE DEF d3
<1>7. /\ files \subseteq DOMAIN data /\ mid \in Nat /\ active \in Nat /\ b \in Nat /\ b # mid
      /\ keydir \in [DOMAIN keydir -> Entries] /\ mnew \in [DOMAIN mnew -> Entries]
      /\ active < mid /\ mid \in files
      /\ \A f \in mfiles : f \in Nat /\ f <= active
      /\ mtodo \subseteq DOMAIN keydir
      /\ \A j \in DOMAIN keydir :
           /\ keydir[j].fileid <= mid
           /\ keydir[j].fileid \in mfiles => j \in mtodo \cup DOMAIN mnew
      /\ \A j \in DOMAIN mnew :
           /\ mnew[j].fileid \in files /\ active < mnew[j].fileid /\ mnew[j].fileid <= mid
           /\ Locates(data, mnew[j], j)
  BY <1>3 DEF LateInv, LateFiles, LateMerges
<1>8. /\ DOMAIN mnew' = DOMAIN mnew \cup {k} /\ mnew'[k] = MergedEntry(keydir[k])
      /\ \A j \in DOMAIN mnew : j # k => mnew'[j] = mnew[j]
      /\ mnew' \in [DOMAIN mnew' -> Entries]
  BY <1>4, <1>5, <1>7, UpdType DEF Upd
<1>9. MergedEntry(keydir[k]).fileid = mid
  BY DEF MergedEntry
<1>10. /\ mid' \in Nat /\ mid <= mid' /\ mid' \in files' /\ files \subseteq files'
       /\ data'[mid'].size = mpos' /\ data' \in [DOMAIN data' -> DataFiles]
       /\ (\A f \in DOMAIN data' : WellFormed(data'[f])) /\ files' \subseteq DOMAIN data'
       /\ \A f \in DOMAIN data : f <= mid => f \in DOMAIN data' /\ data'[f] = d2[f]
  <2>1. CASE MergeExceeds(n)
    <3>1. \A f \in DOMAIN data : f <= mid => f # b
      BY <1>7
    <3>2. QED
      BY <1>4, <1>5, <1>6, <1>7, <2>1, <3>1
  <2>2. CASE ~MergeExceeds(n)
    BY <1>4, <1>5, <1>7, <2>2
  <2>3. QED
    BY <2>1, <2>2
<1>11. ASSUME NEW e, NEW j, e.fileid \in files, e.fileid <= mid, Locates(data, e, j)
       PROVE  e.fileid \in files' /\ Locates(data', e, j)
  <2>1. e.fileid \in DOMAIN data /\ data[e.fileid].recs \subseteq d2[e.fileid].recs
    BY <1>5, <1>7, <1>11 DEF Grows
  <2>2. QED
    BY <1>10, <1>11, <2>1, LocatesKept
<1>12. Locates(data', MergedEntry(keydir[k]), k)
  <2>1. mid \in DOMAIN data' /\ d2[mid].recs \subseteq data'[mid].recs
    BY <1>5, <1>7, <1>10
  <2>2. QED
    BY <1>5, <1>9, <2>1, LocatesKept
<1>13. KeydirValid'
  BY <1>3, <1>7, <1>11 DEF LateInv, KeydirValid
<1>14. LateFiles'
  BY <1>3, <1>7, <1>8, <1>10 DEF LateFiles, LogInv
<1>15. LateMerges'
  <2>1. \A j \in DOMAIN keydir : keydir[j].fileid <= mid' /\ keydir[j].fileid \in Nat
    BY <1>7, <1>10 DEF Entries
  <2>2. \A j \in DOMAIN keydir : keydir[j].fileid \in mfiles => j \in mtodo' \cup DOMAIN mnew'
    BY <1>4, <1>7, <1>8
  <2>3. ASSUME NEW j \in DOMAIN mnew'
        PROVE  /\ mnew'[j].fileid \in files' /\ active < mnew'[j].fileid
               /\ mnew'[j].fileid <= mid' /\ Locates(data', mnew'[j], j)
    <3>1. CASE j = k
      BY <1>7, <1>8, <1>9, <1>10, <1>12, <3>1
    <3>2. CASE j # k
      <4>1. j \in DOMAIN mnew /\ mnew'[j] = mnew[j] /\ mnew[j].fileid \in Nat
        BY <1>7, <1>8, <3>2 DEF Entries
      <4>2. QED
        BY <1>7, <1>10, <1>11, <4>1
    <3>3. QED
      BY <3>1, <3>2
  <2>4. active < mid'
    BY <1>7, <1>10
  <2>5. QED
    BY <1>3, <1>4, <1>7, <1>10, <2>1, <2>2, <2>3, <2>4 DEF LateMerges
<1>16. Quiesced' /\ LateWaits' /\ LateDrop'
  BY <1>3 DEF LateInv, Quiesced, LateWaits, LateDrop
<1>17. QED
  BY <1>13, <1>14, <1>15, <1>16 DEF LateInv

\* A key is pointed at its copy.
LEMMA LateMove ==
  ASSUME LateInv, MergeKeydirSet
  PROVE  LateInv'
<1>1. PICK k \in DOMAIN mnew : keydir' = Upd(keydir, k, mnew[k]) /\ mnew' = Without(mnew, k)
  BY DEF MergeKeydirSet
<1>2. /\ mpc = "merge" /\ mpc' = "merge" /\ mtodo = {}
      /\ UNCHANGED <<data, files, closed, active, written, pc, mfiles, mtodo, mid, mpos>>
  BY DEF MergeKeydirSet, disk, writer, calls
<1>3. /\ DOMAIN keydir' = DOMAIN keydir \cup {k} /\ keydir'[k] = mnew[k]
      /\ \A j \in DOMAIN keydir : j # k => keydir'[j] = keydir[j]
      /\ DOMAIN mnew' = DOMAIN mnew \ {k}
      /\ \A j \in DOMAIN mnew' : mnew'[j] = mnew[j]
  BY <1>1 DEF Upd, Without
<1>4. LateFiles'
  <2>1. keydir' \in [DOMAIN keydir' -> Entries] /\ mnew' \in [DOMAIN mnew' -> Entries]
    BY <1>1, UpdType, WithoutType DEF LateInv, LateFiles
  <2>2. QED
    BY <1>2, <2>1 DEF LateInv, LateFiles, LogInv
<1>5. /\ mnew[k].fileid \in files /\ active < mnew[k].fileid /\ mnew[k].fileid <= mid
      /\ Locates(data, mnew[k], k)
      /\ active \in Nat /\ mnew[k].fileid \in Nat
      /\ \A f \in mfiles : f \in Nat /\ f <= active
  BY <1>2 DEF LateInv, LateMerges, LateFiles, Entries
<1>6. mnew[k].fileid \notin mfiles /\ mnew[k].fileid # active
  BY <1>5
<1>7. KeydirValid'
  BY <1>2, <1>3, <1>5 DEF LateInv, KeydirValid
<1>8. LateDrop'
  BY <1>2, <1>3, <1>6 DEF LateInv, LateDrop
<1>9. LateMerges'
  <2>1. /\ active < mid /\ mid \in files /\ mpos = data[mid].size
        /\ \A f \in mfiles : f \in Nat /\ f <= active
    BY <1>2 DEF LateInv, LateMerges
  <2>2. \A j \in DOMAIN keydir' :
         /\ keydir'[j].fileid <= mid
         /\ keydir'[j].fileid \in mfiles => j \in DOMAIN mnew'
    BY <1>2, <1>3, <1>5, <1>6 DEF LateInv, LateMerges
  <2>3. \A j \in DOMAIN mnew' :
         /\ mnew'[j].fileid \in files /\ active < mnew'[j].fileid /\ mnew'[j].fileid <= mid
         /\ Locates(data, mnew'[j], j)
    BY <1>2, <1>3 DEF LateInv, LateMerges
  <2>4. QED
    BY <1>2, <2>1, <2>2, <2>3 DEF LateMerges
<1>10. Quiesced' /\ LateWaits'
  BY <1>2 DEF LateInv, Quiesced, LateWaits
<1>11. QED
  BY <1>4, <1>7, <1>8, <1>9, <1>10 DEF LateInv

\* The merged files are removed, which no key points into any more.
LEMMA LateRemove ==
  ASSUME LateInv, MergeRemoveHint \/ MergeRemoveData
  PROVE  LateInv'
<1>1. /\ mpc = "merge" /\ mpc' = "merge" /\ mtodo = {} /\ DOMAIN mnew = {}
      /\ UNCHANGED <<data, keydir, closed, active, written, pc, mtodo, mid, mpos, mnew>>
  BY DEF MergeRemoveHint, MergeRemoveData, Removing, ctx, calls, merge
<1>2. /\ active < mid /\ mid \in files /\ mpos = data[mid].size
      /\ \A f \in mfiles : f \in Nat /\ f <= active
      /\ \A j \in DOMAIN keydir : keydir[j].fileid <= mid /\ keydir[j].fileid \notin mfiles
      /\ active \in Nat /\ mid \in Nat
  BY <1>1 DEF LateInv, LateMerges, LateFiles
<1>3. /\ files' \subseteq files /\ mfiles' \subseteq mfiles
      /\ \A f \in files : f \notin mfiles => f \in files'
  BY DEF MergeRemoveHint, MergeRemoveData, merge
<1>4. mid \in files'
  BY <1>2, <1>3
<1>5. KeydirValid'
  BY <1>1, <1>2, <1>3 DEF LateInv, KeydirValid
<1>6. LateMerges'
  BY <1>1, <1>2, <1>3, <1>4 DEF LateMerges
<1>7. LateFiles'
  BY <1>1, <1>3 DEF LateInv, LateFiles, LogInv
<1>8. Quiesced' /\ LateWaits' /\ LateDrop'
  BY <1>1 DEF LateInv, Quiesced, LateWaits, LateDrop
<1>9. QED
  BY <1>5, <1>6, <1>7, <1>8 DEF LateInv

\* The end of Writer::merge: the new active file is above all entries.
LEMMA LateFinish ==
  ASSUME LateInv, MergeFinish
  PROVE  LateInv'
<1> DEFINE b == mid + 1
<1>1. /\ mpc = "merge" /\ mpc' = "sleep" /\ DOMAIN mnew = {}
      /\ data' = Upd(data, b, EmptyFile) /\ files' = files \cup {b}
      /\ active' = b /\ written' = 0 /\ mid' = 0
      /\ UNCHANGED <<keydir, closed, pc, mnew>>
  BY DEF MergeFinish, Removing, ctx, calls
<1>2. /\ data \in [DOMAIN data -> DataFiles] /\ (\A f \in DOMAIN data : WellFormed(data[f]))
      /\ files \subseteq DOMAIN data /\ b \in Nat
      /\ keydir \in [DOMAIN keydir -> Entries] /\ mnew \in [DOMAIN mnew -> Entries]
      /\ \A j \in DOMAIN keydir : keydir[j].fileid # b
  <2>1. \A j \in DOMAIN keydir : keydir[j].fileid <= mid
    BY <1>1 DEF LateInv, LateMerges
  <2>2. /\ data \in [DOMAIN data -> DataFiles] /\ (\A f \in DOMAIN data : WellFormed(data[f]))
        /\ files \subseteq DOMAIN data /\ mid \in Nat
        /\ keydir \in [DOMAIN keydir -> Entries] /\ mnew \in [DOMAIN mnew -> Entries]
    BY DEF LateInv, LateFiles, LogInv
  <2>3. QED
    BY <2>1, <2>2 DEF Entries
<1> HIDE DEF b
<1>3. /\ DOMAIN data' = DOMAIN data \cup {b}
      /\ data' \in [DOMAIN data' -> DataFiles]
      /\ \A f \in DOMAIN data' : WellFormed(data'[f])
      /\ \A f \in DOMAIN data : f # b => data'[f] = data[f]
  <2> DEFINE d2 == Upd(data, b, EmptyFile)
  <2>1. /\ DOMAIN d2 = DOMAIN data \cup {b}
        /\ d2 \in [DOMAIN d2 -> DataFiles]
        /\ \A f \in DOMAIN d2 : WellFormed(d2[f])
        /\ \A f \in DOMAIN data : f # b => d2[f] = data[f]
    BY <1>2, CreateLate
  <2>2. data' = d2
    BY <1>1
  <2> HIDE DEF d2
  <2>3. QED
    BY <2>1, <2>2
<1>4. LateFiles'
  BY <1>1, <1>2, <1>3 DEF LateFiles, LogInv
<1>5. KeydirValid'
  <2> SUFFICES ASSUME NEW k \in DOMAIN keydir
               PROVE  keydir[k].fileid \in files' /\ Locates(data', keydir[k], k)
    BY <1>1 DEF KeydirValid
  <2>1. keydir[k].fileid \in files /\ Locates(data, keydir[k], k)
    BY DEF LateInv, KeydirValid
  <2>2. QED
    BY <1>1, <1>2, <1>3, <2>1, LocatesKept
<1>6. Quiesced' /\ LateWaits' /\ LateMerges' /\ LateDrop'
  BY <1>1, <1>2 DEF LateInv, Quiesced, LateWaits, LateMerges, LateDrop
<1>7. QED
  BY <1>4, <1>5, <1>6 DEF LateInv

\* A merge that meets a file of the second instance ends with an error, before
\* any key is moved or after all are.
LEMMA LateCollides ==
  ASSUME LateInv, FirstCollides
  PROVE  LateInv'
<1>1. /\ mpc' = "sleep" /\ mid' = 0 /\ mnew' = EmptyMap
      /\ UNCHANGED <<files, keydir, closed, written, pc>>
  BY DEF FirstCollides, MergeFails, ctx, calls
<1>2. mnew' \in [DOMAIN mnew' -> Entries] /\ mid' \in Nat
  BY <1>1 DEF EmptyMap
<1>3. Quiesced' /\ LateWaits' /\ LateMerges'
  BY <1>1 DEF LateInv, Quiesced, LateWaits, LateMerges
<1>4. CASE UNCHANGED <<data, active>>
  BY <1>1, <1>2, <1>3, <1>4, LateQuiet
<1>5. CASE active' = mid + 1 /\ UNCHANGED data /\ mpc = "merge"
  <2>1. \A j \in DOMAIN keydir : keydir[j].fileid <= mid /\ keydir[j].fileid \in Nat
    BY <1>5 DEF LateInv, LateMerges, LateFiles, Entries
  <2>2. mid \in Nat
    BY DEF LateInv, LateFiles
  <2>3. LateDrop'
    BY <1>1, <1>5, <2>1, <2>2 DEF LateDrop
  <2>4. LateFiles' /\ KeydirValid'
    BY <1>1, <1>2, <1>5, <2>2 DEF LateInv, LateFiles, LogInv, KeydirValid
  <2>5. QED
    BY <1>3, <2>3, <2>4 DEF LateInv
<1>6. ASSUME mpc = "merge", UNCHANGED active, NEW k \in mtodo, NEW rec \in CopySource(k),
             data' = Upd(data, mid, AppendEntry(data[mid], rec.key, rec.val, rec.len))
      PROVE  LateInv'
  <2>1. rec.len = keydir[k].len
    BY DEF CopySource
  <2> DEFINE d2 == Upd(data, mid, AppendEntry(data[mid], rec.key, rec.val, keydir[k].len))
  <2>a. /\ DOMAIN d2 = DOMAIN data /\ d2 \in [DOMAIN d2 -> DataFiles]
        /\ (\A f \in DOMAIN d2 : WellFormed(d2[f])) /\ Grows(data, d2)
    BY <1>6, LateAppend
  <2>b. data' = d2
    BY <1>6, <2>1
  <2> HIDE DEF d2
  <2>2. /\ DOMAIN data' = DOMAIN data
        /\ data' \in [DOMAIN data' -> DataFiles]
        /\ \A f \in DOMAIN data' : WellFormed(data'[f])
        /\ Grows(data, data')
    BY <2>a, <2>b
  <2>3. LateFiles'
    BY <1>1, <1>2, <1>6, <2>2 DEF LateInv, LateFiles, LogInv
  <2>4. KeydirValid'
    BY <1>1, <2>2, KeydirGrows DEF LateInv
  <2>5. LateDrop'
    BY <1>1, <1>6 DEF LateInv, LateDrop
  <2>6. QED
    BY <1>3, <2>3, <2>4, <2>5 DEF LateInv
<1>7. QED
  BY <1>4, <1>5, <1>6 DEF FirstCollides, Removing

\* The late drop of the first Writer removes no file that a key points into.
LEMMA LateDropped ==
  ASSUME LateInv, FirstDropped
  PROVE  LateInv'
<1>1. /\ UNCHANGED <<data, keydir, closed, active, written, stats, pc>>
      /\ UNCHANGED <<mpc, mid, mnew>>
      /\ mpc = "stopped" /\ files' = files \ DropRemoves
  BY DEF FirstDropped, ctx, writer, calls, merge
<1>2. KeydirValid'
  BY <1>1 DEF LateInv, LateDrop, KeydirValid, DropRemoves
<1>3. LateFiles'
  BY <1>1 DEF LateInv, LateFiles, LogInv
<1>4. Quiesced' /\ LateWaits' /\ LateMerges' /\ LateDrop'
  BY <1>1 DEF LateInv, Quiesced, LateWaits, LateMerges, LateDrop
<1>5. QED
  BY <1>2, <1>3, <1>4 DEF LateInv

\* The second instance creates its active file where there is none.
LEMMA LateOpened ==
  ASSUME LateInv, OpenFinish
  PROVE  LateInv'
<1>1. /\ UNCHANGED <<keydir, closed, active, written, stats, pc>>
      /\ UNCHANGED <<mpc, mid, mpos, mfiles, mtodo, mnew>>
  BY DEF OpenFinish, ctx, writer, calls, merge
<1>2. Quiesced'
  BY <1>1 DEF LateInv, Quiesced
<1>3. CASE UNCHANGED <<data, files>>
  <2>1. mid' \in Nat /\ mnew' \in [DOMAIN mnew' -> Entries]
    BY <1>1 DEF LateInv, LateFiles
  <2>2. QED
    BY <1>1, <1>2, <1>3, <2>1, LateQuiet
<1>4. CASE /\ SecondActive \notin files /\ files' = files \cup {SecondActive}
           /\ data' = Upd(data, SecondActive, EmptyFile)
  <2> DEFINE b == SecondActive
  <2>1. /\ data \in [DOMAIN data -> DataFiles] /\ (\A f \in DOMAIN data : WellFormed(data[f]))
        /\ files \subseteq DOMAIN data
    BY DEF LateInv, LateFiles, LogInv
  <2>2. /\ DOMAIN data' = DOMAIN data \cup {b}
        /\ data' \in [DOMAIN data' -> DataFiles]
        /\ \A f \in DOMAIN data' : WellFormed(data'[f])
        /\ \A f \in DOMAIN data : f # b => data'[f] = data[f]
    BY <1>4, <2>1, CreateLate
  <2> HIDE DEF b
  <2>3. \A f \in files : f \in files' /\ f \in DOMAIN data /\ f \in DOMAIN data' /\ data'[f] = data[f]
    BY <1>4, <2>1, <2>2 DEF b
  <2>4. \A e, k : e.fileid \in files /\ Locates(data, e, k) => Locates(data', e, k)
    BY <2>3, LocatesKept
  <2>5. KeydirValid'
    BY <1>1, <2>3, <2>4 DEF LateInv, KeydirValid
  <2>6. LateMerges'
    BY <1>1, <2>3, <2>4 DEF LateInv, LateMerges
  <2>7. LateFiles'
    BY <1>1, <1>4, <2>1, <2>2 DEF LateInv, LateFiles, LogInv, b
  <2>8. LateWaits' /\ LateDrop'
    BY <1>1 DEF LateInv, LateWaits, LateDrop
  <2>9. QED
    BY <1>2, <2>5, <2>6, <2>7, <2>8 DEF LateInv
<1>5. QED
  BY <1>3, <1>4 DEF OpenFinish

\* Once calls are refused, of the steps of the first instance only those of the
\* background tasks matter.
LEMMA LateRuns ==
  ASSUME LateInv, Next
  PROVE  LateInv'
<1>0. closed /\ pc \in [Threads -> {"idle", "ret"}]
  BY DEF LateInv, Quiesced
<1>1. mid \in Nat /\ mnew \in [DOMAIN mnew -> Entries]
  BY DEF LateInv, LateFiles
<1>2. ASSUME NEW t \in Threads, (\E r \in Requests : Call(t, r)) \/ Return(t)
      PROVE  LateInv'
  <2>1. /\ UNCHANGED <<data, files, keydir, closed, active, written, stats>>
        /\ UNCHANGED <<mpc, mid, mpos, mfiles, mtodo, mnew>>
    BY <1>2 DEF Call, Return, disk, ctx, writer, merge
  <2>2. pc' \in [Threads -> {"idle", "ret"}]
    BY <1>0, <1>2 DEF Call, Return
  <2>3. QED
    BY <1>0, <1>1, <2>1, <2>2, LateQuiet DEF Quiesced
<1>3. CASE MergeSkip \/ MergeStop \/ SyncActive \/ SyncStop
  <2>1. /\ UNCHANGED <<data, files, keydir, closed, active, written, stats, pc>>
        /\ UNCHANGED <<mid, mpos, mfiles, mtodo, mnew>>
        /\ mpc' = mpc \/ mpc' \in {"sleep", "stopped"}
    BY <1>3 DEF MergeSkip, MergeStop, SyncActive, SyncStop, disk, ctx, writer, merge, calls
  <2>2. QED
    BY <1>0, <1>1, <2>1, LateQuiet DEF Quiesced
<1>4. QED
  BY <1>0, <1>2, <1>3, LateBegin, LateCopy, LateMove, LateRemove, LateFinish
     DEF Next, MergeStep, Write, KeydirSet, KeydirRemove, GetLookup, GetRead, Close, MergeTick,
         SyncTick

\* A file without bytes holds no entry.
LEMMA EmptyWithoutBytes ==
  ASSUME NEW file \in DataFiles, WellFormed(file), file.size = 0
  PROVE  file.recs = {}
<1> SUFFICES ASSUME NEW rec \in file.recs PROVE FALSE
  OBVIOUS
<1>1. rec.pos \in Nat /\ rec.len \in Nat \ {0} /\ rec.pos + rec.len <= 0
  BY DEF DataFiles, Records, WellFormed
<1>2. QED
  BY <1>1

\* When the first instance is closed and its calls have returned, what is
\* known of it while it runs is enough.
LEMMA LateEntered ==
  ASSUME IndInv, WrittenInv, closed, \A t \in Threads : pc[t] = "idle"
  PROVE  LateInv
<1>1. Quiesced /\ LateFiles
  BY DEF IndInv, TypeOK, Quiesced, LateFiles
<1>2. /\ files \subseteq DOMAIN data /\ DOMAIN data \subseteq Nat /\ active \in Nat /\ mid \in Nat
      /\ \A f \in DOMAIN data : f <= (IF mpc = "merge" THEN mid ELSE active)
      /\ DOMAIN stats \subseteq DOMAIN data /\ active \in DOMAIN data
      /\ \A k \in DOMAIN keydir : keydir[k].fileid \in files
  BY DEF IndInv, TypeOK, FileInv, KeydirValid
<1>3. LateWaits
  BY <1>2 DEF IndInv, MergeInv, LateWaits
<1>4. LateMerges
  BY <1>2 DEF IndInv, TypeOK, MergeInv, LateMerges
<1>5. LateDrop
  <2> SUFFICES ASSUME written = 0, NEW k \in DOMAIN keydir, keydir[k].fileid = active
               PROVE  FALSE
    BY DEF LateDrop
  <2>1. data[active] \in DataFiles /\ WellFormed(data[active]) /\ data[active].size = 0
    BY <1>2 DEF IndInv, TypeOK, LogInv, WrittenInv
  <2>2. data[active].recs = {}
    BY <2>1, EmptyWithoutBytes
  <2>3. QED
    BY <2>2 DEF IndInv, KeydirValid, Locates
<1>6. QED
  BY <1>1, <1>3, <1>4, <1>5 DEF LateInv, IndInv

ReopenInv == IF Late THEN LateInv ELSE IndInv /\ WrittenInv

allvars == <<vars, second, gone>>

\* Every step of either instance keeps the invariant of the first.
LEMMA ReopenStep ==
  ASSUME ReopenInv, [ReopenNext]_allvars
  PROVE  ReopenInv'
<1>1. CASE FirstRuns
  <2>1. Next /\ Late' = Late
    BY <1>1 DEF FirstRuns, second, Late
  <2>2. CASE Late
    BY <2>1, <2>2, LateRuns DEF ReopenInv
  <2>3. CASE ~Late
    BY <2>1, <2>3, NextInv, WrittenStep DEF ReopenInv
  <2>4. QED
    BY <2>2, <2>3
<1>2. CASE FirstCollides
  <2>1. phase = "open" /\ Late' = Late
    BY <1>2 DEF FirstCollides, MergeFails, Taken, second, Late
  <2>2. Late
    BY <2>1 DEF Late
  <2>3. QED
    BY <1>2, <2>1, <2>2, LateCollides DEF ReopenInv
<1>3. CASE FirstDropped
  <2>1. Late' /\ closed /\ \A t \in Threads : pc[t] = "idle"
    BY <1>3 DEF FirstDropped, Late
  <2>2. LateInv
    BY <2>1, LateEntered DEF ReopenInv
  <2>3. QED
    BY <1>3, <2>1, <2>2, LateDropped DEF ReopenInv
<1>4. CASE OpenBegin
  <2>1. Late' /\ closed /\ \A t \in Threads : pc[t] = "idle"
    BY <1>4 DEF OpenBegin, Late
  <2>2. LateInv
    BY <2>1, LateEntered DEF ReopenInv
  <2>3. UNCHANGED vars
    BY <1>4 DEF OpenBegin
  <2>4. LateInv'
    BY <2>2, <2>3, LateQuiet DEF LateInv, LateFiles, Quiesced, vars, disk, ctx, writer, calls, merge
  <2>5. QED
    BY <2>1, <2>4 DEF ReopenInv
<1>5. CASE ScanFile \/ ScanFails
  <2>1. Late' /\ Late /\ UNCHANGED vars
    BY <1>5 DEF ScanFile, ScanFails, Late
  <2>2. LateInv
    BY <2>1 DEF ReopenInv
  <2>3. LateInv'
    BY <2>1, <2>2, LateQuiet DEF LateInv, LateFiles, Quiesced, vars, disk, ctx, writer, calls, merge
  <2>4. QED
    BY <2>1, <2>3 DEF ReopenInv
<1>6. CASE OpenFinish
  <2>1. Late' /\ Late
    BY <1>6 DEF OpenFinish, Late
  <2>2. QED
    BY <1>6, <2>1, LateOpened DEF ReopenInv
<1>7. CASE UNCHANGED allvars
  <2>1. UNCHANGED vars /\ Late' = Late
    BY <1>7 DEF allvars, second, Late
  <2>2. CASE ~Late
    BY <2>1, <2>2, NextInv, WrittenStep DEF ReopenInv
  <2>3. CASE Late
    <3>1. LateInv'
      BY <2>1, <2>3, LateQuiet DEF ReopenInv, LateInv, LateFiles, Quiesced, vars, disk, ctx, writer, calls, merge
    <3>2. QED
      BY <2>1, <2>3, <3>1 DEF ReopenInv
  <2>4. QED
    BY <2>2, <2>3
<1>8. QED
  BY <1>1, <1>2, <1>3, <1>4, <1>5, <1>6, <1>7 DEF ReopenNext

\* However the first instance, with a merge that it may still be running and
\* the late drop of its Writer, and the opening of the second interleave, every
\* value of the first KeyDir stays in a file of the directory.
THEOREM EntriesKeptCorrect == ReopenSpec => []EntriesKept
<1>1. ReopenInit => ReopenInv
  BY InitInv, LatestInit DEF ReopenInit, ReopenInv, Late
<1>2. ReopenInv /\ [ReopenNext]_allvars => ReopenInv'
  BY ReopenStep
<1>3. ReopenInv => EntriesKept
  BY DEF ReopenInv, LateInv, IndInv, EntriesKept
<1>4. QED
  BY <1>1, <1>2, <1>3, PTL DEF ReopenSpec, allvars

-----------------------------------------------------------------------------
(* The second KeyDir *)

\* Of the files read, key k has its last entry where the second KeyDir has it.
IndexedLast(k) ==
  /\ index[k].fileid <= latest
  /\ \E rec : /\ Logged(k, index[k].fileid, rec) /\ rec.val # NoValue
              /\ index[k] = Entry(index[k].fileid, rec)
  /\ \A f, rec : Logged(k, f, rec) /\ f <= latest
                   => UpTo(f, rec.pos, index[k].fileid, index[k].pos)

\* Of the files read, key k has no entry, or a tombstone as its last.
ErasedSoFar(k) ==
  \/ \A f, rec : Logged(k, f, rec) => ~(f <= latest)
  \/ \E g, tomb : /\ Logged(k, g, tomb) /\ tomb.val = NoValue /\ g <= latest
                  /\ \A f, rec : Logged(k, f, rec) /\ f <= latest => UpTo(f, rec.pos, g, tomb.pos)

\* Files are read in the order of their ids; those still to be read are there,
\* but for an active file that the first Writer has removed.
ListedInv ==
  /\ latest \in Nat \cup {-1} /\ todo \subseteq Nat
  /\ \A f \in todo : latest < f
  /\ \A f \in files : f \in todo \/ f <= latest
  /\ \A f \in todo : f \in files \/ (gone /\ written = 0)

IndexInvSecond ==
  /\ index \in [DOMAIN index -> Entries] /\ DOMAIN index \subseteq Keys
  /\ \A k \in DOMAIN index : IndexedLast(k)
  /\ \A k \in Keys \ DOMAIN index : ErasedSoFar(k)

\* As long as no merge has begun.
AlikeCore ==
  /\ NoMergeInv /\ LatestInv /\ files \subseteq Nat
  /\ ~gone => active \in files /\ WrittenInv
  /\ phase = "none" => latest = -1 /\ index = EmptyMap
  /\ phase = "rebuild" => ListedInv /\ IndexInvSecond
  /\ phase = "open" => /\ index = keydir /\ SecondActive \in files
                       /\ ~gone => active < SecondActive
  /\ phase = "failed" => gone /\ written = 0

AlikeInv == nmerges \in Nat /\ (nmerges = 0 => AlikeCore)

\* Two places that are not after each other are the same.
LEMMA UpToBoth ==
  ASSUME NEW f \in Nat, NEW p \in Nat, NEW g \in Nat, NEW q \in Nat,
         UpTo(f, p, g, q), UpTo(g, q, f, p)
  PROVE  f = g /\ p = q
BY DEF UpTo

\* Steps that change no entry in the log, nor the second KeyDir.
LEMMA SecondKept ==
  ASSUME \A k, f, rec : Logged(k, f, rec)' <=> Logged(k, f, rec), UNCHANGED <<index, latest>>,
         IndexInvSecond
  PROVE  IndexInvSecond'
<1>1. \A k \in DOMAIN index : IndexedLast(k) => IndexedLast(k)'
  BY DEF IndexedLast, UpTo, Entry
<1>2. \A k : ErasedSoFar(k) => ErasedSoFar(k)'
  BY DEF ErasedSoFar, UpTo
<1>3. QED
  BY <1>1, <1>2 DEF IndexInvSecond

\* Steps of the first instance that leave the directory and its KeyDir alone.
LEMMA AlikeQuiet ==
  ASSUME AlikeCore, Quiesced, Quiesced', NoMergeInv',
         UNCHANGED <<data, files, keydir, active, written, second, gone>>
  PROVE  AlikeCore'
<1>1. LatestInv'
  BY QuietLatest DEF AlikeCore, Quiesced
<1>2. \A k, f, rec : Logged(k, f, rec)' <=> Logged(k, f, rec)
  BY DEF Logged, InHand, Quiesced
<1>3. phase = "rebuild" => ListedInv' /\ IndexInvSecond'
  BY <1>2, SecondKept DEF AlikeCore, ListedInv, second
<1>4. QED
  BY <1>1, <1>3 DEF AlikeCore, WrittenInv, second, SecondActive

\* The last entry of a key in a file: there is one.
LEMMA LastOfExists ==
  ASSUME NEW file \in DataFiles, WellFormed(file), NEW S, S \subseteq file.recs, S # {}
  PROVE  LastOf(S) \in S /\ \A r \in S : r.pos <= LastOf(S).pos
<1> DEFINE P == {r.pos : r \in S}
<1>1. file.size \in Nat /\ \A r \in S : r.pos \in Nat /\ r.len \in Nat /\ r.pos + r.len <= file.size
  BY DEF DataFiles, Records, WellFormed
<1>2. P \in SUBSET Nat /\ P # {} /\ \A p \in P : p <= file.size
  BY <1>1
<1> HIDE DEF P
<1>3. PICK m \in P : \A p \in P : p <= m
  BY <1>1, <1>2, LargestExists
<1>4. \E r \in S : \A q \in S : q.pos <= r.pos
  BY <1>3 DEF P
<1>5. QED
  BY <1>4 DEF LastOf

\* One file is read: its entries of a key come after those of the files before.
LEMMA AlikeScan ==
  ASSUME AlikeCore, nmerges = 0, LateInv, ScanFile
  PROVE  AlikeCore'
<1>1. PICK f \in todo : /\ \A g \in todo : f <= g
                        /\ f \in files
                        /\ index' = IF f \in DOMAIN hint THEN WithHints(f) ELSE WithData(f)
                        /\ todo' = todo \ {f} /\ latest' = f
  BY DEF ScanFile
<1>2. /\ phase = "rebuild" /\ phase' = phase /\ gone' = gone /\ UNCHANGED vars
      /\ UNCHANGED <<data, files, hint, keydir, active, written, pc, req, ent, mpc, nmerges>>
  BY DEF ScanFile, vars, disk, ctx, writer, calls, merge, bounds
<1>3. ListedInv /\ IndexInvSecond /\ NoMergeInv /\ LatestInv /\ files \subseteq Nat
  BY <1>2 DEF AlikeCore
<1>4. /\ latest \in Nat \cup {-1} /\ f \in Nat /\ latest < f
      /\ \A g \in files : g <= f => g = f \/ g <= latest
  BY <1>1, <1>3 DEF ListedInv
<1>5. ListedInv'
  <2>1. \A g \in todo : g \in Nat
    BY <1>3 DEF ListedInv
  <2>2. latest' \in Nat \cup {-1} /\ todo' \subseteq Nat /\ \A g \in todo' : latest' < g
    BY <1>1, <1>4, <2>1
  <2>3. \A g \in files : g \in todo' \/ g <= latest'
    BY <1>1, <1>3, <1>4 DEF ListedInv
  <2>4. \A g \in todo' : g \in files' \/ (gone' /\ written' = 0)
    BY <1>1, <1>2, <1>3 DEF ListedInv
  <2>5. QED
    BY <1>2, <2>2, <2>3, <2>4 DEF ListedInv
<1>6. \A k, g, rec : Logged(k, g, rec)' <=> Logged(k, g, rec)
  BY <1>2 DEF Logged, InHand
<1>7. \A k, g, rec : Logged(k, g, rec) <=> g \in files /\ rec \in data[g].recs /\ rec.key = k
  BY DEF Logged, InHand, LateInv, Quiesced
<1> DEFINE of(k) == {rec \in data[f].recs : rec.key = k}
           set   == {k \in Keys : of(k) # {} /\ LastOf(of(k)).val # NoValue}
           kept  == {k \in DOMAIN index : of(k) = {}}
<1>8. index' = [k \in set \cup kept |-> IF k \in set THEN Entry(f, LastOf(of(k))) ELSE index[k]]
  BY <1>1, <1>3 DEF WithData, NoMergeInv
<1>9. data[f] \in DataFiles /\ WellFormed(data[f]) /\ data[f].recs \subseteq Records
  BY <1>1 DEF LateInv, LateFiles, LogInv, DataFiles
<1>10. ASSUME NEW k, of(k) # {}
       PROVE  \E last : /\ last = LastOf(of(k)) /\ last \in Records /\ Logged(k, f, last)'
                        /\ \A g, rec : Logged(k, g, rec)' /\ g <= f => UpTo(g, rec.pos, f, last.pos)
  <2>1. of(k) \subseteq data[f].recs
    OBVIOUS
  <2>2. LastOf(of(k)) \in of(k) /\ \A r \in of(k) : r.pos <= LastOf(of(k)).pos
    BY <1>9, <1>10, <2>1, LastOfExists
  <2>3. LastOf(of(k)) \in data[f].recs /\ LastOf(of(k)).key = k
    BY <2>2
  <2>4. ASSUME NEW g, NEW rec, Logged(k, g, rec)', g <= f
        PROVE  UpTo(g, rec.pos, f, LastOf(of(k)).pos)
    <3>1. g \in files /\ rec \in data[g].recs /\ rec.key = k
      BY <1>6, <1>7, <2>4
    <3>2. CASE g = f
      <4>1. rec \in of(k)
        BY <3>1, <3>2
      <4>2. QED
        BY <2>2, <3>2, <4>1 DEF UpTo
    <3>3. CASE g # f
      <4>1. g \in Nat /\ g < f
        <5>1. g \in Nat /\ f \in Nat /\ g <= f /\ g # f
          BY <1>3, <1>4, <2>4, <3>1, <3>3
        <5>2. QED
          BY <5>1
      <4>2. QED
        BY <4>1 DEF UpTo
    <3>4. QED
      BY <3>2, <3>3
  <2>5. LastOf(of(k)) \in Records
    BY <1>9, <2>3
  <2>6. PICK last : last = LastOf(of(k))
    OBVIOUS
  <2> HIDE DEF of
  <2>7. Logged(k, f, last)'
    BY <1>1, <1>6, <1>7, <2>3, <2>6
  <2>8. QED
    BY <2>4, <2>5, <2>6, <2>7
<1>11. ASSUME NEW k, of(k) = {}
       PROVE  \A g, rec : Logged(k, g, rec)' /\ g <= f => Logged(k, g, rec) /\ g <= latest
  <2> SUFFICES ASSUME NEW g, NEW rec, Logged(k, g, rec)', g <= f
               PROVE  Logged(k, g, rec) /\ g <= latest
    OBVIOUS
  <2>1. Logged(k, g, rec) /\ g \in files /\ rec \in data[g].recs /\ rec.key = k
    BY <1>6, <1>7
  <2>2. g # f
    BY <1>11, <2>1
  <2>3. QED
    BY <1>4, <2>1, <2>2
<1>12. ASSUME NEW k \in set
       PROVE  k \in DOMAIN index' /\ index'[k] \in Entries /\ IndexedLast(k)'
  <2>1. of(k) # {} /\ LastOf(of(k)).val # NoValue
    OBVIOUS
  <2>2. PICK last : /\ last = LastOf(of(k)) /\ last \in Records /\ Logged(k, f, last)'
                    /\ \A g, rec : Logged(k, g, rec)' /\ g <= f => UpTo(g, rec.pos, f, last.pos)
    BY <1>10, <2>1
  <2>3. index'[k] = Entry(f, last) /\ k \in DOMAIN index' /\ last.val # NoValue
    BY <1>8, <2>1, <2>2
  <2> HIDE DEF of, set, kept
  <2>4. index'[k].fileid = f /\ index'[k].pos = last.pos /\ index'[k].len = last.len
    BY <2>3 DEF Entry
  <2>5. index'[k] \in Entries
    BY <1>4, <2>2, <2>3 DEF Entry, Entries, Records
  <2>6. IndexedLast(k)'
    BY <1>1, <1>4, <2>2, <2>3, <2>4 DEF IndexedLast, UpTo, Entry
  <2>7. QED
    BY <2>3, <2>5, <2>6
<1>13. ASSUME NEW k \in kept \ set
       PROVE  k \in DOMAIN index' /\ index'[k] \in Entries /\ IndexedLast(k)'
  <2>1. of(k) = {} /\ index'[k] = index[k] /\ k \in DOMAIN index /\ k \in DOMAIN index'
    BY <1>8
  <2>2. IndexedLast(k) /\ index[k] \in Entries
    BY <1>3, <2>1 DEF IndexInvSecond
  <2>3. \A g, rec : Logged(k, g, rec)' /\ g <= f => Logged(k, g, rec) /\ g <= latest
    BY <1>11, <2>1
  <2> HIDE DEF of, set, kept
  <2>4. index[k].fileid <= f
    BY <1>4, <2>2 DEF IndexedLast, Entries
  <2>5. PICK h, rec : /\ h = index[k].fileid /\ Logged(k, h, rec) /\ rec.val # NoValue
                      /\ index[k] = Entry(h, rec)
    BY <2>2 DEF IndexedLast
  <2>a. Logged(k, h, rec)' /\ index'[k].fileid = h
    BY <1>6, <2>1, <2>5
  <2>6. \A g, r : Logged(k, g, r)' /\ g <= f => UpTo(g, r.pos, index[k].fileid, index[k].pos)
    BY <2>2, <2>3 DEF IndexedLast
  <2>7. IndexedLast(k)'
    BY <1>1, <2>1, <2>4, <2>5, <2>a, <2>6 DEF IndexedLast, UpTo, Entry
  <2>8. QED
    BY <2>1, <2>2, <2>7
<1>14. ASSUME NEW k \in Keys, k \notin set \cup kept
       PROVE  ErasedSoFar(k)'
  <2>1. CASE of(k) # {}
    <3>1. PICK last : /\ last = LastOf(of(k)) /\ Logged(k, f, last)'
                      /\ \A g, rec : Logged(k, g, rec)' /\ g <= f => UpTo(g, rec.pos, f, last.pos)
      BY <1>10, <2>1
    <3>2. last.val = NoValue
      BY <1>14, <2>1, <3>1
    <3> HIDE DEF of, set, kept
    <3>3. QED
      BY <1>1, <1>4, <3>1, <3>2 DEF ErasedSoFar, UpTo
  <2>2. CASE of(k) = {}
    <3>1. k \notin DOMAIN index
      BY <1>14, <2>2
    <3>2. ErasedSoFar(k)
      BY <1>3, <3>1 DEF IndexInvSecond
    <3>3. \A g, rec : Logged(k, g, rec)' /\ g <= f => Logged(k, g, rec) /\ g <= latest
      BY <1>11, <2>2
    <3> HIDE DEF of, set, kept
    <3>4. CASE \A g, rec : Logged(k, g, rec) => ~(g <= latest)
      BY <1>1, <3>3, <3>4 DEF ErasedSoFar
    <3>5. ASSUME NEW g, NEW tomb, Logged(k, g, tomb), tomb.val = NoValue, g <= latest,
                 \A h, rec : Logged(k, h, rec) /\ h <= latest => UpTo(h, rec.pos, g, tomb.pos)
          PROVE  ErasedSoFar(k)'
      <4>1. g \in files /\ g \in Nat
        BY <1>3, <1>7, <3>5
      <4>2. g <= f
        BY <1>4, <3>5, <4>1
      <4>3. Logged(k, g, tomb)'
        BY <1>6, <3>5
      <4>4. \A h, rec : Logged(k, h, rec)' /\ h <= f => UpTo(h, rec.pos, g, tomb.pos)
        BY <3>3, <3>5
      <4>5. QED
        BY <1>1, <3>5, <4>2, <4>3, <4>4 DEF ErasedSoFar, UpTo
    <3>6. QED
      BY <3>2, <3>4, <3>5 DEF ErasedSoFar
  <2>3. QED
    BY <2>1, <2>2
<1>15. DOMAIN index' = set \cup kept /\ DOMAIN index' \subseteq Keys
  BY <1>3, <1>8 DEF IndexInvSecond
<1>16. IndexInvSecond'
  <2> HIDE DEF of, set, kept
  <2>1. index' = [k \in DOMAIN index' |-> index'[k]]
    BY <1>8, <1>15
  <2>2. QED
    BY <1>12, <1>13, <1>14, <1>15, <2>1 DEF IndexInvSecond
<1>17. QED
  BY <1>2, <1>3, <1>5, <1>16, QuietLatest DEF AlikeCore, WrittenInv, NoMergeInv

\* The listing of the directory, of which nothing has been read.
LEMMA AlikeBegin ==
  ASSUME AlikeCore, Quiesced, OpenBegin
  PROVE  AlikeCore'
<1>1. /\ phase = "none" /\ phase' = "rebuild" /\ todo' = files
      /\ UNCHANGED <<latest, index, gone>>
      /\ UNCHANGED <<data, files, hint, keydir, active, written, pc, req, ent, mpc, nmerges>>
  BY DEF OpenBegin, vars, disk, ctx, writer, calls, merge, bounds
<1>2. latest = -1 /\ DOMAIN index = {} /\ index = EmptyMap /\ files \subseteq Nat
  BY <1>1 DEF AlikeCore, EmptyMap
<1>3. LatestInv'
  BY <1>1, QuietLatest DEF AlikeCore
<1>4. ListedInv'
  BY <1>1, <1>2 DEF ListedInv
<1>5. IndexInvSecond'
  <2>1. \A k : ErasedSoFar(k)'
    <3>1. \A f \in files : ~(f <= -1)
      BY <1>2
    <3>2. QED
      BY <1>1, <1>2, <3>1 DEF ErasedSoFar, Logged
  <2>2. index' \in [DOMAIN index' -> Entries] /\ DOMAIN index' = {}
    BY <1>1, <1>2 DEF EmptyMap
  <2>3. QED
    BY <2>1, <2>2 DEF IndexInvSecond
<1>6. QED
  BY <1>1, <1>3, <1>4, <1>5 DEF AlikeCore, NoMergeInv, WrittenInv

\* The late drop of the first Writer removes no entry, and not the active file
\* of the second instance.
LEMMA AlikeDropped ==
  ASSUME AlikeCore, LateInv, FirstDropped
  PROVE  AlikeCore'
<1>1. /\ ~gone /\ gone' /\ files' = files \ DropRemoves
      /\ UNCHANGED <<phase, todo, latest, index>>
      /\ UNCHANGED <<data, hint, keydir, active, written, pc, req, ent, mpc, nmerges>>
  BY DEF FirstDropped, ctx, writer, calls, merge, bounds, second
<1>2. active \in files /\ WrittenInv /\ files \subseteq Nat /\ LatestInv /\ NoMergeInv
  BY <1>1 DEF AlikeCore
<1>3. /\ \A f \in files : f \in files' \/ (f = active /\ written = 0)
      /\ files' \subseteq files
  BY <1>1 DEF DropRemoves
<1>4. written = 0 => data[active].recs = {}
  <2>1. data[active] \in DataFiles /\ WellFormed(data[active])
    BY <1>2 DEF LateInv, LateFiles, LogInv
  <2>2. QED
    BY <1>2, <2>1, EmptyWithoutBytes DEF WrittenInv
<1>5. \A k, f, rec : Logged(k, f, rec)' <=> Logged(k, f, rec)
  BY <1>1, <1>3, <1>4 DEF Logged, InHand
<1>6. LatestInv'
  <2>1. \A k : /\ \A g, q : LastLogged(k, g, q)' <=> LastLogged(k, g, q)
               /\ Erased(k)' <=> Erased(k)
    BY <1>5, LoggedKept
  <2>2. AppendedInv'
    BY <1>1 DEF LateInv, Quiesced, AppendedInv
  <2>3. QED
    BY <1>1, <1>2, <2>1, <2>2 DEF LatestInv
<1>7. phase = "rebuild" => ListedInv' /\ IndexInvSecond'
  <2> SUFFICES ASSUME phase = "rebuild" PROVE ListedInv' /\ IndexInvSecond'
    OBVIOUS
  <2>1. ListedInv /\ IndexInvSecond
    BY DEF AlikeCore
  <2>2. ListedInv'
    BY <1>1, <1>3, <2>1 DEF ListedInv
  <2>3. QED
    BY <1>1, <1>5, <2>1, <2>2, SecondKept
<1>8. phase = "open" => index = keydir /\ SecondActive \in files'
  <2> SUFFICES ASSUME phase = "open" PROVE index = keydir /\ SecondActive \in files'
    OBVIOUS
  <2>1. index = keydir /\ SecondActive \in files /\ active < SecondActive
    BY <1>1 DEF AlikeCore
  <2>2. active # SecondActive
    BY <1>2, <2>1
  <2>3. QED
    BY <1>3, <2>1, <2>2
<1>9. phase # "failed"
  BY <1>1 DEF AlikeCore
<1>10. QED
  BY <1>1, <1>2, <1>3, <1>6, <1>7, <1>8, <1>9 DEF AlikeCore, NoMergeInv, SecondActive

\* Two entries of a key, each not after the other, are one.
LEMMA SameEntry ==
  ASSUME LateFiles, files \subseteq Nat, NEW k, NEW f, NEW rec, NEW g, NEW other,
         Logged(k, f, rec), Logged(k, g, other),
         UpTo(f, rec.pos, g, other.pos), UpTo(g, other.pos, f, rec.pos)
  PROVE  f = g /\ rec = other
<1>1. f \in files /\ g \in files /\ rec \in data[f].recs /\ other \in data[g].recs
  BY DEF Logged
<1>2. f \in Nat /\ g \in Nat /\ rec.pos \in Nat /\ other.pos \in Nat /\ WellFormed(data[f])
  BY <1>1 DEF LateFiles, LogInv, DataFiles, Records
<1>3. f = g /\ rec.pos = other.pos
  BY <1>2, UpToBoth
<1>4. QED
  BY <1>1, <1>2, <1>3 DEF WellFormed

\* Once every file is read, the KeyDir read is the one of the first instance:
\* each key points at the last of its entries in both.
LEMMA ReadAlike ==
  ASSUME LateInv, LatestInv, ListedInv, IndexInvSecond, files \subseteq Nat, todo = {}
  PROVE  index = keydir
<1>1. /\ \A f \in files : f <= latest
      /\ index \in [DOMAIN index -> Entries] /\ keydir \in [DOMAIN keydir -> Entries]
      /\ DOMAIN index \subseteq Keys /\ LateFiles
  BY DEF ListedInv, IndexInvSecond, LateInv, LateFiles
<1>2. ASSUME NEW k \in DOMAIN index
      PROVE  \E rec : /\ Logged(k, index[k].fileid, rec) /\ rec.val # NoValue
                      /\ index[k] = Entry(index[k].fileid, rec) /\ rec.pos = index[k].pos
                      /\ LastLogged(k, index[k].fileid, index[k].pos)
  <2>1. IndexedLast(k)
    BY DEF IndexInvSecond
  <2>2. LastLogged(k, index[k].fileid, index[k].pos)
    BY <1>1, <2>1 DEF IndexedLast, LastLogged, Logged
  <2>3. QED
    BY <2>1, <2>2 DEF IndexedLast, Entry
<1>3. ASSUME NEW k \in DOMAIN keydir
      PROVE  \E rec : /\ Logged(k, keydir[k].fileid, rec) /\ rec.val # NoValue /\ k \in Keys
                      /\ rec.pos = keydir[k].pos /\ rec.len = keydir[k].len
                      /\ LastLogged(k, keydir[k].fileid, keydir[k].pos)
  <2>1. PICK rec \in data[keydir[k].fileid].recs :
          /\ rec.pos = keydir[k].pos /\ rec.len = keydir[k].len /\ rec.key = k /\ rec.val \in Values
          /\ keydir[k].fileid \in files
    BY DEF LateInv, KeydirValid, Locates
  <2>2. rec \in Records
    BY <1>1, <2>1 DEF LateFiles, DataFiles
  <2>3. Logged(k, keydir[k].fileid, rec)
    BY <2>1 DEF Logged, InHand, LateInv, Quiesced
  <2>4. QED
    BY <2>1, <2>2, <2>3, ValuesAssumption DEF LatestInv, Records
<1>4. ASSUME NEW k, Erased(k), NEW f, NEW rec, Logged(k, f, rec), rec.val # NoValue,
             LastLogged(k, f, rec.pos)
      PROVE  FALSE
  <2>1. PICK g, tomb : Logged(k, g, tomb) /\ tomb.val = NoValue /\ LastLogged(k, g, tomb.pos)
    BY <1>4 DEF Erased
  <2>2. rec = tomb
    BY <1>1, <1>4, <2>1, SameEntry DEF LastLogged
  <2>3. QED
    BY <1>4, <2>1, <2>2
<1>5. DOMAIN index \subseteq DOMAIN keydir
  BY <1>1, <1>2, <1>4 DEF LatestInv
<1>6. \A k \in Keys \ DOMAIN index : Erased(k)
  <2> SUFFICES ASSUME NEW k \in Keys \ DOMAIN index PROVE Erased(k)
    OBVIOUS
  <2>1. ErasedSoFar(k)
    BY DEF IndexInvSecond
  <2>2. \A f, rec : Logged(k, f, rec) => f <= latest
    BY <1>1 DEF Logged
  <2>3. QED
    BY <2>1, <2>2 DEF ErasedSoFar, Erased, LastLogged
<1>7. DOMAIN keydir \subseteq DOMAIN index
  BY <1>3, <1>4, <1>6
<1>8. ASSUME NEW k \in DOMAIN keydir PROVE index[k] = keydir[k]
  <2>1. PICK r1 : /\ Logged(k, index[k].fileid, r1) /\ index[k] = Entry(index[k].fileid, r1)
                  /\ r1.pos = index[k].pos /\ LastLogged(k, index[k].fileid, index[k].pos)
    BY <1>2, <1>7
  <2>2. PICK r2 : /\ Logged(k, keydir[k].fileid, r2)
                  /\ r2.pos = keydir[k].pos /\ r2.len = keydir[k].len
                  /\ LastLogged(k, keydir[k].fileid, keydir[k].pos)
    BY <1>3
  <2>3. index[k].fileid = keydir[k].fileid /\ r1 = r2
    BY <1>1, <2>1, <2>2, SameEntry DEF LastLogged
  <2>4. keydir[k] \in Entries
    BY <1>1
  <2>5. QED
    BY <2>1, <2>2, <2>3, <2>4 DEF Entry, Entries
<1>9. QED
  BY <1>1, <1>5, <1>7, <1>8

\* The second instance is open: no file above those read was in its way.
LEMMA AlikeOpened ==
  ASSUME AlikeCore, LateInv, OpenFinish
  PROVE  AlikeCore'
<1> DEFINE b == SecondActive
<1>1. /\ phase = "rebuild" /\ todo = {} /\ UNCHANGED <<latest, index, gone>>
      /\ UNCHANGED <<hint, keydir, active, written, pc, req, ent, mpc, nmerges>>
  BY DEF OpenFinish, ctx, writer, calls, merge, bounds
<1>2. /\ ListedInv /\ IndexInvSecond /\ LatestInv /\ NoMergeInv /\ files \subseteq Nat
      /\ ~gone => active \in files /\ WrittenInv
  BY <1>1 DEF AlikeCore
<1>3. index = keydir
  BY <1>1, <1>2, ReadAlike
<1>4. b \in Nat /\ b \notin files /\ \A f \in files : f < b
  BY <1>1, <1>2 DEF ListedInv, SecondActive
<1>5. /\ phase' = "open" /\ files' = files \cup {b} /\ data' = Upd(data, b, EmptyFile)
  BY <1>4 DEF OpenFinish
<1>6. data'[b].recs = {} /\ \A f \in files : f # b /\ data'[f] = data[f]
  BY <1>4, <1>5 DEF Upd, EmptyFile, LateInv, LateFiles
<1> HIDE DEF b
<1>7. \A k, f, rec : Logged(k, f, rec)' <=> Logged(k, f, rec)
  BY <1>1, <1>5, <1>6 DEF Logged, InHand
<1>8. LatestInv'
  <2>1. \A k : /\ \A g, q : LastLogged(k, g, q)' <=> LastLogged(k, g, q)
               /\ Erased(k)' <=> Erased(k)
    BY <1>7, LoggedKept
  <2>2. AppendedInv'
    BY <1>1 DEF LateInv, Quiesced, AppendedInv
  <2>3. QED
    BY <1>1, <1>2, <2>1, <2>2 DEF LatestInv
<1>9. SecondActive' = b
  BY <1>1 DEF SecondActive, b
<1>10. QED
  BY <1>1, <1>2, <1>3, <1>4, <1>5, <1>6, <1>8, <1>9 DEF AlikeCore, NoMergeInv, WrittenInv

\* A step counts at most one merge.
LEMMA MergesCounted ==
  ASSUME [ReopenNext]_allvars
  PROVE  nmerges' = nmerges \/ nmerges' = nmerges + 1
<1>1. Next => nmerges' = nmerges \/ nmerges' = nmerges + 1
  BY DEF Next, Call, Write, KeydirSet, KeydirRemove, GetLookup, GetRead, Return, Close,
         MergeTick, MergeSkip, MergeBegin, MergeStep, MergeCopy, MergeKeydirSet, MergeRemoveHint,
         MergeRemoveData, MergeFinish, MergeStop, SyncTick, SyncActive, SyncStop, bounds
<1>2. QED
  BY <1>1 DEF ReopenNext, FirstRuns, FirstCollides, MergeFails, FirstDropped, OpenBegin, ScanFile,
              ScanFails, OpenFinish, allvars, vars, bounds

\* Steps of the first instance, before and while it goes away.
LEMMA AlikeRuns ==
  ASSUME ReopenInv, ReopenInv', AlikeCore, nmerges \in Nat, nmerges' = 0, FirstRuns
  PROVE  AlikeCore'
<1>1. Next /\ ~gone /\ Late' = Late /\ UNCHANGED <<phase, todo, latest, index, gone>>
  BY DEF FirstRuns, second, Late
<1>2. NoMergeInv' /\ ~MergeBegin /\ ~MergeStep
  BY <1>1, NoMergeStep DEF AlikeCore
<1>3. CASE ~Late
  <2>1. IndInv /\ IndInv' /\ WrittenInv' /\ phase = "none"
    BY <1>1, <1>3 DEF ReopenInv, Late
  <2>2. LatestInv'
    BY <1>1, <2>1, LatestStep DEF AlikeCore
  <2>3. files' \subseteq Nat /\ active' \in files'
    BY <1>2, <2>1 DEF IndInv, TypeOK, FileInv, NoMergeInv
  <2>4. QED
    BY <1>1, <1>2, <2>1, <2>2, <2>3 DEF AlikeCore
<1>4. CASE Late
  <2>1. Quiesced /\ Quiesced' /\ closed /\ \A t \in Threads : pc[t] \in {"idle", "ret"}
    BY <1>1, <1>4 DEF ReopenInv, LateInv, Quiesced
  <2>2. \/ \E t \in Threads : (\E r \in Requests : Call(t, r)) \/ Return(t)
        \/ MergeSkip \/ MergeStop \/ SyncActive \/ SyncStop
    BY <1>1, <1>2, <2>1
       DEF Next, Write, KeydirSet, KeydirRemove, GetLookup, GetRead, Close, MergeTick, SyncTick
  <2>3. UNCHANGED <<data, files, keydir, active, written>>
    BY <2>2 DEF Call, Return, MergeSkip, MergeStop, SyncActive, SyncStop, disk, ctx, writer
  <2>4. QED
    BY <1>1, <1>2, <2>1, <2>3, AlikeQuiet DEF second
<1>5. QED
  BY <1>3, <1>4

\* Every step of either instance keeps the two KeyDirs alike.
LEMMA AlikeStep ==
  ASSUME ReopenInv, ReopenInv', AlikeInv, [ReopenNext]_allvars
  PROVE  AlikeInv'
<1>1. nmerges \in Nat /\ nmerges' \in Nat /\ (nmerges' = 0 => nmerges = 0)
  BY MergesCounted DEF AlikeInv
<1> SUFFICES ASSUME nmerges' = 0 PROVE AlikeCore'
  BY <1>1 DEF AlikeInv
<1>2. AlikeCore /\ nmerges = 0 /\ NoMergeInv /\ mpc # "merge"
  BY <1>1 DEF AlikeInv, AlikeCore, NoMergeInv
<1>3. CASE FirstRuns
  BY <1>1, <1>2, <1>3, AlikeRuns
<1>4. CASE FirstCollides
  <2>1. /\ phase = "open" /\ mpc' = "sleep"
        /\ UNCHANGED <<data, hint, files, keydir, active, written, second, gone>>
    BY <1>2, <1>4 DEF FirstCollides, MergeFails, Taken, Removing, ctx
  <2>2. Quiesced /\ Quiesced' /\ NoMergeInv'
    BY <1>2, <2>1 DEF ReopenInv, Late, LateInv, NoMergeInv, second
  <2>3. QED
    BY <1>2, <2>1, <2>2, AlikeQuiet
<1>5. CASE FirstDropped
  <2>1. LateInv
    BY <1>5, LateEntered DEF ReopenInv, FirstDropped
  <2>2. QED
    BY <1>2, <1>5, <2>1, AlikeDropped
<1>6. CASE OpenBegin
  <2>1. LateInv
    BY <1>6, LateEntered DEF ReopenInv, OpenBegin
  <2>2. QED
    BY <1>2, <1>6, <2>1, AlikeBegin DEF LateInv
<1>7. CASE ScanFile
  <2>1. LateInv
    BY <1>7 DEF ReopenInv, Late, ScanFile
  <2>2. QED
    BY <1>2, <1>7, <2>1, AlikeScan
<1>8. CASE ScanFails
  <2>1. gone /\ written = 0
    BY <1>2, <1>8 DEF ScanFails, AlikeCore, ListedInv
  <2>2. /\ phase' = "failed" /\ UNCHANGED gone
        /\ UNCHANGED <<data, files, hint, keydir, active, written, pc, req, ent, mpc, nmerges>>
    BY <1>8 DEF ScanFails, vars, disk, ctx, writer, calls, merge, bounds
  <2>3. LatestInv'
    BY <1>2, <2>2, QuietLatest DEF AlikeCore
  <2>4. QED
    BY <1>2, <2>1, <2>2, <2>3 DEF AlikeCore, NoMergeInv
<1>9. CASE OpenFinish
  <2>1. LateInv
    BY <1>9 DEF ReopenInv, Late, OpenFinish
  <2>2. QED
    BY <1>2, <1>9, <2>1, AlikeOpened
<1>10. CASE UNCHANGED allvars
  <2>1. /\ UNCHANGED <<phase, todo, latest, index, gone>>
        /\ UNCHANGED <<data, files, hint, keydir, active, written, pc, req, ent, mpc, nmerges>>
    BY <1>10 DEF allvars, second, vars, disk, ctx, writer, calls, merge, bounds
  <2>2. LatestInv'
    BY <1>2, <2>1, QuietLatest DEF AlikeCore
  <2>3. \A k, f, rec : Logged(k, f, rec)' <=> Logged(k, f, rec)
    BY <2>1 DEF Logged, InHand
  <2>4. phase = "rebuild" => ListedInv' /\ IndexInvSecond'
    BY <1>2, <2>1, <2>3, SecondKept DEF AlikeCore, ListedInv
  <2>5. QED
    BY <1>2, <2>1, <2>2, <2>4 DEF AlikeCore, NoMergeInv, WrittenInv, SecondActive
<1>11. QED
  BY <1>3, <1>4, <1>5, <1>6, <1>7, <1>8, <1>9, <1>10 DEF ReopenNext

\* In an empty directory that is open for the first time.
LEMMA AlikeStart ==
  ASSUME ReopenInit
  PROVE  ReopenInv /\ AlikeInv
<1>1. Init /\ phase = "none" /\ latest = -1 /\ index = EmptyMap /\ ~gone
  BY DEF ReopenInit
<1>2. IndInv /\ NoMergeInv /\ LatestInv /\ WrittenInv
  BY <1>1, InitInv, LatestInit
<1>3. nmerges = 0 /\ files \subseteq Nat /\ active \in files
  BY <1>1 DEF Init
<1>4. QED
  BY <1>1, <1>2, <1>3 DEF ReopenInv, Late, AlikeInv, AlikeCore

\* While no merge has begun, however the end of the first instance and the
\* opening of the second interleave, a second instance that is open has the
\* KeyDir of the first and still has its active file.
THEOREM ReopenedAlikeCorrect == ReopenSpec => []ReopenedAlike
<1>1. ReopenInv /\ AlikeInv /\ [ReopenNext]_allvars => ReopenInv' /\ AlikeInv'
  BY ReopenStep, AlikeStep
<1>2. AlikeInv => ReopenedAlike
  BY DEF AlikeInv, AlikeCore, ReopenedAlike
<1>3. QED
  BY AlikeStart, <1>1, <1>2, PTL DEF ReopenSpec, allvars

\* While no merge has begun, opening fails only because the late drop of the
\* first Writer has removed its empty active file.
THEOREM OpensUnlessEmptiedCorrect == ReopenSpec => []OpensUnlessEmptied
<1>1. ReopenInv /\ AlikeInv /\ [ReopenNext]_allvars => ReopenInv' /\ AlikeInv'
  BY ReopenStep, AlikeStep
<1>2. AlikeInv => OpensUnlessEmptied
  BY DEF AlikeInv, AlikeCore, OpensUnlessEmptied
<1>3. QED
  BY AlikeStart, <1>1, <1>2, PTL DEF ReopenSpec, allvars
=============================================================================
