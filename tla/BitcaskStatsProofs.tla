------------------------- MODULE BitcaskStatsProofs -------------------------
(***************************************************************************)
(* Proofs about the statistics of Bitcask's data files: that they count    *)
(* what is there, and that a merge leaves nothing that would start the     *)
(* next one.                                                               *)
(***************************************************************************)
EXTENDS BitcaskProofs, FiniteSetTheorems

-----------------------------------------------------------------------------
(* A merge settles the store *)

\* During a merge every file with statistics is to be removed, or stays below
\* the thresholds, or is a merge file, of which nothing is dead.
SettleInv ==
  mpc = "merge" =>
    \A f \in DOMAIN stats :
      \/ f \in mfiles
      \/ /\ f <= active
         /\ ~(stats[f].deadBytes > ThresholdDeadBytes)
         /\ ~FragmentationAbove(stats[f], ThresholdFragmentation)
      \/ /\ f > active
         /\ stats[f].dead = 0 /\ stats[f].deadBytes = 0

\* A file below a percentage of dead entries is below each higher one.
LEMMA FragmentationMonotone ==
  ASSUME NEW st \in LogStats, NEW p \in Nat, NEW q \in Nat, p <= q,
         ~FragmentationAbove(st, p)
  PROVE  ~FragmentationAbove(st, q)
<1> DEFINE n == st.dead + st.live
<1>1. st.dead \in Nat /\ n \in Int
  BY DEF LogStats
<1>2. CASE st.dead = 0
  BY <1>2 DEF FragmentationAbove
<1>3. CASE st.dead # 0
  <2>1. st.dead * 100 <= p * n /\ 0 < st.dead * 100
    BY <1>1, <1>3 DEF FragmentationAbove
  <2> HIDE DEF n
  <2>2. p * n > 0
    BY <1>1, <2>1
  <2>3. n > 0
    BY <1>1, <2>2
  <2>4. (q - p) * n >= 0
    BY <1>1, <2>3
  <2>5. q * n = p * n + (q - p) * n
    BY <1>1
  <2>6. st.dead * 100 <= q * n
    BY <1>1, <2>1, <2>4, <2>5
  <2> QED
    BY <1>1, <2>6 DEF FragmentationAbove, n
<1> QED
  BY <1>2, <1>3

\* No step of a merge disturbs that.
LEMMA SettleStep ==
  ASSUME IndInv, SettleInv, [Next]_vars
  PROVE  SettleInv'
<1>0. /\ stats \in [DOMAIN stats -> LogStats] /\ active \in Nat /\ mid \in Nat
      /\ DOMAIN stats \subseteq DOMAIN data /\ DOMAIN data \subseteq Nat
      /\ \A f \in DOMAIN data : f <= (IF mpc = "merge" THEN mid ELSE active)
  BY DEF IndInv, TypeOK, FileInv
<1>1. CASE MergeBegin
  BY <1>0, <1>1 DEF MergeBegin, SettleInv, FileidsToMerge
<1>2. CASE MergeCopy
  <2>1. mpc = "merge" /\ active < mid /\ (\A f \in mfiles : f <= active)
    BY <1>2 DEF MergeCopy, IndInv, MergeInv
  <2>2. /\ stats' = Upd(stats, mid, AddLive(StatsOf(stats, mid)))
        /\ mfiles' = mfiles /\ active' = active /\ mpc' = mpc
    BY <1>2 DEF MergeCopy, CopyEntry
  <2>3. StatsOf(stats, mid).dead = 0 /\ StatsOf(stats, mid).deadBytes = 0
    <3>1. ~(mid <= active) /\ mid \notin mfiles
      BY <1>0, <2>1
    <3>2. CASE mid \in DOMAIN stats
      BY <2>1, <3>1, <3>2 DEF StatsOf, SettleInv
    <3>3. CASE mid \notin DOMAIN stats
      BY <3>3 DEF StatsOf, NoStats
    <3> QED
      BY <3>2, <3>3
  <2>4. StatsOf(stats, mid) \in LogStats
    BY <1>0, StatsOfType
  <2>5. AddLive(StatsOf(stats, mid)).dead = 0 /\ AddLive(StatsOf(stats, mid)).deadBytes = 0
    BY <2>3, <2>4 DEF AddLive, LogStats
  <2>6. stats'[mid] = AddLive(StatsOf(stats, mid)) /\ DOMAIN stats' = DOMAIN stats \cup {mid}
    BY <2>2 DEF Upd
  <2>7. \A f \in DOMAIN stats : f # mid => stats'[f] = stats[f]
    BY <2>2 DEF Upd
  <2>8. ASSUME NEW f \in DOMAIN stats'
        PROVE  \/ f \in mfiles
               \/ /\ f <= active
                  /\ ~(stats'[f].deadBytes > ThresholdDeadBytes)
                  /\ ~FragmentationAbove(stats'[f], ThresholdFragmentation)
               \/ /\ f > active
                  /\ stats'[f].dead = 0 /\ stats'[f].deadBytes = 0
    <3>1. CASE f = mid
      BY <1>0, <2>1, <2>5, <2>6, <3>1
    <3>2. CASE f # mid
      BY <2>1, <2>6, <2>7, <3>2 DEF SettleInv
    <3> QED
      BY <3>1, <3>2
  <2> QED
    BY <2>2, <2>8 DEF SettleInv
<1>3. CASE MergeRemoveHint \/ MergeRemoveData
  BY <1>3 DEF MergeRemoveHint, MergeRemoveData, merge, SettleInv, Without
<1>4. CASE UNCHANGED <<stats, mpc, mfiles, active>>
  BY <1>4 DEF SettleInv
<1>5. CASE mpc' # "merge"
  BY <1>5 DEF SettleInv
<1>6. ASSUME NEW t \in Threads, Write(t) \/ KeydirSet(t) \/ KeydirRemove(t)
      PROVE  mpc' # "merge"
  BY <1>6, ThreadsAssumption DEF Write, KeydirSet, KeydirRemove, merge, IndInv, LockInv
<1>7. ASSUME Next, ~MergeBegin, ~MergeCopy, ~(MergeRemoveHint \/ MergeRemoveData),
             \A t \in Threads : ~(Write(t) \/ KeydirSet(t) \/ KeydirRemove(t))
      PROVE  UNCHANGED <<stats, mpc, mfiles, active>> \/ mpc' # "merge"
  BY <1>7 DEF Next, writer, merge, Call, GetLookup, GetRead, Return, Close, MergeTick,
              MergeSkip, MergeStep, MergeKeydirSet, MergeFinish, MergeStop, SyncTick,
              SyncActive, SyncStop
<1>8. CASE UNCHANGED vars
  BY <1>4, <1>8 DEF vars, writer, merge
<1> QED
  BY <1>1, <1>2, <1>3, <1>4, <1>5, <1>6, <1>7, <1>8

\* Where the thresholds are no higher than the triggers, Writer::can_merge
\* is false at every hour when a merge ends, so that a merge does not start
\* the next one.
THEOREM MergesSettleCorrect == Spec => MergesSettle
<1>1. Init => SettleInv
  BY DEF Init, SettleInv
<1>2. IndInv /\ SettleInv /\ [Next]_vars => SettleInv'
  BY SettleStep
<1>3. IndInv /\ IndInv' /\ SettleInv =>
        [/\ ThresholdDeadBytes <= TriggerDeadBytes
         /\ ThresholdFragmentation <= TriggerFragmentation
         /\ MergeFinish
         => \A hour \in 0..23 : ~CanMerge(hour)']_vars
  <2> SUFFICES ASSUME IndInv, IndInv', SettleInv, MergeFinish, NEW f \in DOMAIN stats,
                      ThresholdDeadBytes <= TriggerDeadBytes,
                      ThresholdFragmentation <= TriggerFragmentation
               PROVE  /\ ~(stats[f].deadBytes > TriggerDeadBytes)
                      /\ ~FragmentationAbove(stats[f], TriggerFragmentation)
    BY DEF MergeFinish, CanMerge
  <2>1. stats[f] \in LogStats
    BY DEF IndInv, TypeOK
  <2>2. mpc = "merge" /\ f \notin mfiles
    BY DEF MergeFinish, Removing
  <2>3. stats[f].deadBytes \in Nat
    BY <2>1 DEF LogStats
  <2>4. CASE stats[f].dead = 0 /\ stats[f].deadBytes = 0
    BY <2>4, MergeAssumption DEF FragmentationAbove
  <2>5. CASE /\ ~(stats[f].deadBytes > ThresholdDeadBytes)
             /\ ~FragmentationAbove(stats[f], ThresholdFragmentation)
    <3>1. ~(stats[f].deadBytes > TriggerDeadBytes)
      BY <2>3, <2>5, MergeAssumption
    <3>2. ~FragmentationAbove(stats[f], TriggerFragmentation)
      BY <2>1, <2>5, MergeAssumption, FragmentationMonotone
    <3> QED
      BY <3>1, <3>2
  <2> QED
    BY <2>2, <2>4, <2>5 DEF SettleInv
<1> QED
  BY <1>1, <1>2, <1>3, InvariantHolds, PTL DEF Spec, MergesSettle

-----------------------------------------------------------------------------
(* The counts are exact *)

\* The entry that a set has appended to f and not yet indexed, if any, and the
\* copies in f that keys are still to be pointed at.
HandIn(f) ==
  IF \E t \in Threads : pc[t] = "index" /\ req[t].op = "set" /\ ent[t].fileid = f THEN 1 ELSE 0
NewIn(f) == {k \in DOMAIN mnew : mnew[k].fileid = f}

FiniteInv == IsFiniteSet(DOMAIN keydir) /\ IsFiniteSet(DOMAIN mnew)

\* Every file that holds an entry in use has statistics, except merged files on
\* their way out.
CoveredInv ==
  /\ \A k \in DOMAIN keydir : keydir[k].fileid \in DOMAIN stats \cup mfiles
  /\ \A k \in DOMAIN mnew : mnew[k].fileid \in DOMAIN stats
  /\ \A t \in Threads : pc[t] = "index" /\ req[t].op = "set" => ent[t].fileid \in DOMAIN stats

\* `live` also counts what is about to be pointed at; merged files keep the
\* counts they had when the merge began.
LiveInv ==
  /\ \A f \in DOMAIN stats : stats[f].live >= 0
  /\ \A f \in DOMAIN stats \ mfiles :
       stats[f].live = Cardinality(KeysIn(f)) + HandIn(f) + Cardinality(NewIn(f))

\* A merge copies each key of the files to be removed once.
MovingInv ==
  /\ mtodo \cap DOMAIN mnew = {}
  /\ \A k \in mtodo \cup DOMAIN mnew : k \in DOMAIN keydir /\ keydir[k].fileid \in mfiles

\* The counts of live entries.  Like CoreInv this survives a reopening from
\* hints.
LiveCount == FiniteInv /\ CoveredInv /\ LiveInv /\ MovingInv

\* Statistics are kept of the files that hold entries, except of merged files
\* on their way out, and count every entry once.
TotalInv ==
  /\ \A f \in DOMAIN data : IsFiniteSet(data[f].recs)
  /\ \A f \in files \ mfiles : data[f].recs # {} => f \in DOMAIN stats
  /\ \A f \in DOMAIN stats :
       /\ f \in files /\ data[f].recs # {}
       /\ stats[f].live + stats[f].dead = Cardinality(data[f].recs)

\* Sets of keys by file are finite.
LEMMA CountTypes ==
  ASSUME FiniteInv, NEW f
  PROVE  /\ IsFiniteSet(KeysIn(f)) /\ Cardinality(KeysIn(f)) \in Nat
         /\ IsFiniteSet(NewIn(f)) /\ Cardinality(NewIn(f)) \in Nat
         /\ HandIn(f) \in {0, 1}
<1>1. KeysIn(f) \subseteq DOMAIN keydir /\ NewIn(f) \subseteq DOMAIN mnew
  BY DEF KeysIn, NewIn
<1>2. IsFiniteSet(KeysIn(f)) /\ IsFiniteSet(NewIn(f))
  BY <1>1, FS_Subset DEF FiniteInv
<1>3. HandIn(f) \in {0, 1}
  BY DEF HandIn
<1> QED
  BY <1>2, <1>3, FS_CardinalityType

\* LogWriter::append adds one entry to those of the file.
LEMMA AppendCounts ==
  ASSUME NEW file \in DataFiles, WellFormed(file), IsFiniteSet(file.recs),
         NEW k, NEW v, NEW n \in Nat
  PROVE  LET after == AppendEntry(file, k, v, n)
         IN  /\ IsFiniteSet(after.recs) /\ after.recs # {}
             /\ Cardinality(after.recs) = Cardinality(file.recs) + 1
<1> DEFINE new == [pos |-> file.size, len |-> n, key |-> k, val |-> v]
<1>1. AppendEntry(file, k, v, n).recs = file.recs \cup {new}
  BY DEF AppendEntry
<1>2. new \notin file.recs
  <2> SUFFICES ASSUME new \in file.recs PROVE FALSE
    OBVIOUS
  <2>1. new.pos = file.size /\ new.len = n /\ file.size \in Nat
    BY DEF DataFiles
  <2>2. new.len \in Nat \ {0} /\ new.pos + new.len <= file.size
    BY DEF WellFormed, DataFiles, Records
  <2> QED
    BY <2>1, <2>2
<1> QED
  BY <1>1, <1>2, FS_AddElement

\* The steps that touch neither files nor KeyDir nor statistics, nor what is
\* about to be indexed.
LEMMA QuietCounts ==
  ASSUME LiveCount, UNCHANGED <<data, files, keydir, stats, mnew, mtodo, mfiles>>,
         \A t \in Threads : (pc'[t] = "index" \/ pc[t] = "index") =>
           pc'[t] = pc[t] /\ req'[t] = req[t] /\ ent'[t] = ent[t]
  PROVE  LiveCount' /\ (TotalInv => TotalInv')
<1>1. \A f : KeysIn(f)' = KeysIn(f) /\ NewIn(f)' = NewIn(f)
  BY DEF KeysIn, NewIn
<1>2. \A f : HandIn(f)' = HandIn(f)
  BY DEF HandIn
<1>3. LiveCount'
  BY <1>1, <1>2 DEF LiveCount, FiniteInv, CoveredInv, LiveInv, MovingInv
<1>4. TotalInv => TotalInv'
  BY DEF TotalInv
<1> QED
  BY <1>3, <1>4

\* Writer::write counts the entry it appends.
LEMMA WriteCounts ==
  ASSUME CoreInv, LiveCount, NEW t \in Threads, Write(t)
  PROVE  LiveCount' /\ (TotalInv => TotalInv')
<1> DEFINE v     == req[t].val
           n     == EntryLen[v]
           after == AppendEntry(data[active], req[t].key, v, n)
           st    == StatsOf(stats, active)
           st2   == IF v = NoValue THEN AddDead(st, n) ELSE AddLive(st)
           b     == active + 1
<1>1. /\ v \in Values \cup {NoValue} /\ n \in Nat \ {0}
      /\ req[t].op = "set" <=> v # NoValue
  <2>1. /\ req[t] \in Requests \cup {NoReq}
        /\ req[t].op \in {"set", "del"}
    BY DEF Write, CoreInv, TypeOK
  <2>2. \/ req[t].op = "set" /\ v \in Values
        \/ req[t].op = "del" /\ v = NoValue
    BY <2>1 DEF Requests, NoReq
  <2>3. v \in Values \cup {NoValue} /\ (req[t].op = "set" <=> v # NoValue)
    BY <2>2, ValuesAssumption
  <2> QED
    BY <2>3, EntryLenAssumption
<1>2. /\ mpc # "merge" /\ (\A u \in Threads : pc[u] # "index")
      /\ mfiles = {} /\ mtodo = {} /\ DOMAIN mnew = {}
  BY ThreadsAssumption DEF Write, CoreInv, LockInv, CoreMerge
<1>3. /\ active \in Nat /\ active \in DOMAIN data /\ active \in files /\ b \notin DOMAIN data
      /\ data[active] \in DataFiles /\ WellFormed(data[active])
      /\ stats \in [DOMAIN stats -> LogStats] /\ DOMAIN stats \subseteq DOMAIN data
      /\ DOMAIN data \subseteq Nat /\ files \subseteq DOMAIN data
  BY <1>2 DEF CoreInv, TypeOK, FileInv, LogInv
<1>4. /\ UNCHANGED <<keydir, mnew, mtodo, mfiles, req>>
      /\ stats' = Upd(stats, active, st2)
      /\ data' = IF Exceeds(n) THEN Upd(Upd(data, active, after), b, EmptyFile)
                 ELSE Upd(data, active, after)
      /\ files' = IF Exceeds(n) THEN files \cup {b} ELSE files
      /\ pc'[t] = "index" /\ ent'[t].fileid = active
      /\ \A u \in Threads \ {t} : pc'[u] = pc[u]
  BY DEF Write, NextFileid, ctx, merge, EntryIndex, CoreInv, TypeOK
<1> HIDE DEF n, v, after
<1>7. /\ data'[active] = after /\ active \in DOMAIN data'
      /\ \A f \in DOMAIN data \ {active} : f \in DOMAIN data' /\ data'[f] = data[f]
      /\ \A f \in DOMAIN data' : f \notin DOMAIN data => f = b /\ data'[f].recs = {}
  BY <1>3, <1>4 DEF Upd, EmptyFile
<1>8. st \in LogStats
  BY <1>3, StatsOfType
<1>9. /\ st.live \in Int /\ st.dead \in Nat /\ st.live >= 0
      /\ st.live = Cardinality(KeysIn(active))
  <2>1. CASE active \in DOMAIN stats
    <3>1. /\ HandIn(active) = 0 /\ NewIn(active) = {}
      BY <1>2 DEF HandIn, NewIn
    <3>2. Cardinality(NewIn(active)) = 0 /\ Cardinality(KeysIn(active)) \in Nat
      BY <3>1, FS_EmptySet, CountTypes DEF LiveCount
    <3>3. st = stats[active]
      BY <2>1 DEF StatsOf
    <3>5. /\ st.live = Cardinality(KeysIn(active)) + HandIn(active) + Cardinality(NewIn(active))
          /\ st.live >= 0
      BY <1>2, <2>1, <3>3 DEF LiveCount, LiveInv
    <3>6. st.live \in Int /\ st.dead \in Nat
      BY <1>8 DEF LogStats
    <3> QED
      BY <3>1, <3>2, <3>5, <3>6
  <2>2. CASE active \notin DOMAIN stats
    <3>1. KeysIn(active) = {}
      BY <1>2, <2>2 DEF KeysIn, LiveCount, CoveredInv
    <3> QED
      BY <2>2, <3>1, FS_EmptySet DEF StatsOf, NoStats
  <2> QED
    BY <2>1, <2>2
<1>10. /\ st2.live + st2.dead = st.live + st.dead + 1 /\ st2.live >= 0
       /\ st2.live = Cardinality(KeysIn(active)) + (IF v = NoValue THEN 0 ELSE 1)
  <2>1. /\ v = NoValue => st2.live = st.live /\ st2.dead = st.dead + 1
        /\ v # NoValue => st2.live = st.live + 1 /\ st2.dead = st.dead
    BY <1>8 DEF AddDead, AddLive, LogStats
  <2> QED
    BY <1>9, <2>1
<1>11. /\ DOMAIN stats' = DOMAIN stats \cup {active} /\ stats'[active] = st2
       /\ \A f \in DOMAIN stats \ {active} : stats'[f] = stats[f]
  BY <1>4 DEF Upd
<1>a. active \in DOMAIN stats => st = stats[active]
  BY DEF StatsOf
<1>b. active \notin DOMAIN stats => st.live + st.dead = 0
  BY DEF StatsOf, NoStats
<1> HIDE DEF st2, st
<1>12. ASSUME NEW f
       PROVE  /\ KeysIn(f)' = KeysIn(f) /\ NewIn(f) = {} /\ NewIn(f)' = {} /\ HandIn(f) = 0
              /\ f # active => HandIn(f)' = 0
              /\ f = active => HandIn(f)' = IF v = NoValue THEN 0 ELSE 1
  <2>1. KeysIn(f)' = KeysIn(f) /\ NewIn(f) = {} /\ NewIn(f)' = {} /\ HandIn(f) = 0
    BY <1>2, <1>4 DEF KeysIn, NewIn, HandIn
  <2>2. HandIn(f)' = IF v # NoValue /\ f = active THEN 1 ELSE 0
    BY <1>1, <1>2, <1>4 DEF HandIn
  <2> QED
    BY <2>1, <2>2
<1>13. FiniteInv' /\ CoveredInv'
  BY <1>2, <1>4, <1>11 DEF LiveCount, FiniteInv, CoveredInv
<1>14. ASSUME TotalInv PROVE TotalInv'
  <2>1. /\ IsFiniteSet(after.recs) /\ after.recs # {}
        /\ Cardinality(after.recs) = Cardinality(data[active].recs) + 1
        /\ IsFiniteSet(data[active].recs)
    BY <1>1, <1>3, <1>14, AppendCounts DEF TotalInv, after
  <2>2. Cardinality(data[active].recs) \in Nat
    BY <2>1, FS_CardinalityType
  <2>3. st.live + st.dead = Cardinality(data[active].recs)
    <3>1. CASE active \in DOMAIN stats
      BY <1>14, <1>a, <3>1 DEF TotalInv
    <3>2. CASE active \notin DOMAIN stats
      <4>1. data[active].recs = {}
        BY <1>2, <1>3, <1>14, <3>2 DEF TotalInv
      <4> QED
        BY <1>b, <3>2, <4>1, FS_EmptySet
    <3> QED
      BY <3>1, <3>2
  <2>4. \A f \in DOMAIN data' : IsFiniteSet(data'[f].recs)
    <3> SUFFICES ASSUME NEW f \in DOMAIN data' PROVE IsFiniteSet(data'[f].recs)
      OBVIOUS
    <3>1. CASE f = active
      BY <1>7, <2>1, <3>1
    <3>2. CASE f \in DOMAIN data /\ f # active
      BY <1>7, <1>14, <3>2 DEF TotalInv
    <3>3. CASE f \notin DOMAIN data
      BY <1>7, <3>3, FS_EmptySet
    <3> QED
      BY <3>1, <3>2, <3>3
  <2>5. \A f \in DOMAIN stats' : f \in files' /\ data'[f].recs # {}
    BY <1>3, <1>4, <1>7, <1>11, <1>14, <2>1 DEF TotalInv
  <2>6. \A f \in DOMAIN stats' : stats'[f].live + stats'[f].dead = Cardinality(data'[f].recs)
    BY <1>3, <1>7, <1>9, <1>10, <1>11, <1>14, <2>1, <2>2, <2>3 DEF TotalInv
  <2>7. ASSUME NEW f \in files', data'[f].recs # {}
        PROVE  f \in DOMAIN stats'
    <3>1. CASE f = active
      BY <1>11, <3>1
    <3>2. CASE f \in files /\ f # active
      BY <1>2, <1>3, <1>7, <1>11, <1>14, <2>7, <3>2 DEF TotalInv
    <3>3. CASE f \notin files
      <4>1. f = b /\ b \in DOMAIN data'
        BY <1>4, <3>3 DEF Upd
      <4> QED
        BY <1>3, <1>7, <2>7, <4>1
    <3> QED
      BY <3>1, <3>2, <3>3
  <2> QED
    BY <2>4, <2>5, <2>6, <2>7 DEF TotalInv
<1>15. LiveInv'
  <2>0. \A f \in DOMAIN stats' : stats'[f].live >= 0
    BY <1>10, <1>11 DEF LiveCount, LiveInv
  <2> SUFFICES ASSUME NEW f \in DOMAIN stats'
               PROVE  stats'[f].live = Cardinality(KeysIn(f)') + HandIn(f)' + Cardinality(NewIn(f)')
    BY <2>0 DEF LiveInv
  <2>1. Cardinality(KeysIn(f)) \in Nat /\ Cardinality({}) = 0
    BY CountTypes, FS_EmptySet DEF LiveCount
  <2>2. CASE f = active
    <3>1. /\ KeysIn(f)' = KeysIn(f) /\ NewIn(f)' = {}
          /\ HandIn(f)' = IF v = NoValue THEN 0 ELSE 1
      BY <1>12, <2>2
    <3>2. stats'[f].live = Cardinality(KeysIn(f)) + (IF v = NoValue THEN 0 ELSE 1)
      BY <1>10, <1>11, <2>2
    <3> QED
      BY <2>1, <3>1, <3>2
  <2>3. CASE f # active
    <3>1. stats[f].live = Cardinality(KeysIn(f)) + HandIn(f) + Cardinality(NewIn(f))
      BY <1>2, <1>11, <2>3 DEF LiveCount, LiveInv
    <3> QED
      BY <1>11, <1>12, <2>1, <2>3, <3>1
  <2> QED
    BY <2>2, <2>3
<1>16. MovingInv'
  BY <1>2, <1>4 DEF MovingInv
<1> QED
  BY <1>13, <1>14, <1>15, <1>16 DEF LiveCount

\* Writer::put and Writer::delete point the key at the new entry or at none,
\* and count the entry it pointed at as dead.
LEMMA IndexCounts ==
  ASSUME CoreInv, LiveCount, NEW t \in Threads, KeydirSet(t) \/ KeydirRemove(t)
  PROVE  LiveCount' /\ (TotalInv => TotalInv')
<1> DEFINE k    == req[t].key
           isIn(f) == IF k \in KeysIn(f) THEN 1 ELSE 0
<1>1. /\ mpc # "merge" /\ (\A u \in Threads \ {t} : pc[u] # "index") /\ pc[t] = "index"
      /\ mfiles = {} /\ mtodo = {} /\ DOMAIN mnew = {} /\ req[t].op \in {"set", "del"}
  BY ThreadsAssumption DEF KeydirSet, KeydirRemove, CoreInv, LockInv, CoreMerge
<1>2. /\ UNCHANGED <<data, files, mnew, mtodo, mfiles, req, ent>>
      /\ stats' = Superseded(k)
      /\ \A u \in Threads : pc'[u] # "index"
  BY <1>1 DEF KeydirSet, KeydirRemove, disk, merge, CoreInv, TypeOK
<1>3. keydir' = IF req[t].op = "set" THEN Upd(keydir, k, ent[t]) ELSE Without(keydir, k)
  BY DEF KeydirSet, KeydirRemove
<1>4. stats \in [DOMAIN stats -> LogStats] /\ DOMAIN stats \subseteq DOMAIN data
  BY DEF CoreInv, TypeOK, FileInv
<1> HIDE DEF k
<1>5. k \in DOMAIN keydir => keydir[k].fileid \in DOMAIN stats /\ keydir[k].len \in Nat
  BY <1>1 DEF CoreInv, LiveCount, CoveredInv, TypeOK, Entries
<1>6. ASSUME NEW f \in DOMAIN stats
      PROVE  /\ stats'[f].live = stats[f].live - isIn(f)
             /\ stats'[f].dead = stats[f].dead + isIn(f)
             /\ stats[f].live \in Int /\ stats[f].dead \in Nat
  <2>1. stats[f] \in LogStats
    BY <1>4
  <2>2. stats[f].live \in Int /\ stats[f].dead \in Nat
    BY <2>1 DEF LogStats
  <2>3. CASE k \in KeysIn(f)
    <3>1. stats' = Upd(stats, f, Overwrite(stats[f], keydir[k].len))
      BY <1>2, <2>3 DEF Superseded, SupersedeIn, KeysIn, StatsOf
    <3>2. stats'[f] = Overwrite(stats[f], keydir[k].len)
      BY <3>1 DEF Upd
    <3> QED
      BY <2>2, <2>3, <3>2 DEF Overwrite
  <2>4. CASE k \notin KeysIn(f)
    <3>1. stats'[f] = stats[f]
      BY <1>2, <2>4 DEF Superseded, SupersedeIn, KeysIn, Upd
    <3> QED
      BY <2>2, <2>4, <3>1
  <2> QED
    BY <2>3, <2>4
<1>7. DOMAIN stats' = DOMAIN stats
  BY <1>2, <1>5 DEF Superseded, SupersedeIn, Upd
<1>8. ASSUME NEW f
      PROVE  /\ KeysIn(f)' = IF HandIn(f) = 1 THEN KeysIn(f) \cup {k} ELSE KeysIn(f) \ {k}
             /\ NewIn(f) = {} /\ NewIn(f)' = {} /\ HandIn(f)' = 0
  <2>1. NewIn(f) = {} /\ NewIn(f)' = {} /\ HandIn(f)' = 0
    BY <1>1, <1>2 DEF NewIn, HandIn
  <2>2. HandIn(f) = IF req[t].op = "set" /\ ent[t].fileid = f THEN 1 ELSE 0
    BY <1>1 DEF HandIn
  <2>3. CASE req[t].op = "set"
    BY <1>3, <2>1, <2>2, <2>3 DEF KeysIn, Upd
  <2>4. CASE req[t].op # "set"
    BY <1>3, <2>1, <2>2, <2>4 DEF KeysIn, Without
  <2> QED
    BY <2>3, <2>4
<1>9. ASSUME NEW f
      PROVE  /\ Cardinality(KeysIn(f)') = Cardinality(KeysIn(f)) - isIn(f) + HandIn(f)
             /\ Cardinality(KeysIn(f)) \in Nat /\ HandIn(f) \in {0, 1}
             /\ Cardinality(KeysIn(f)) >= isIn(f)
  <2>1. /\ IsFiniteSet(KeysIn(f)) /\ Cardinality(KeysIn(f)) \in Nat /\ HandIn(f) \in {0, 1}
    BY CountTypes DEF LiveCount
  <2>a. Cardinality(KeysIn(f) \cup {k}) =
          IF k \in KeysIn(f) THEN Cardinality(KeysIn(f)) ELSE Cardinality(KeysIn(f)) + 1
    BY <2>1, FS_AddElement, Zenon
  <2>b. Cardinality(KeysIn(f) \ {k}) =
          IF k \in KeysIn(f) THEN Cardinality(KeysIn(f)) - 1 ELSE Cardinality(KeysIn(f))
    BY <2>1, FS_RemoveElement, Zenon
  <2>2. Cardinality(KeysIn(f) \cup {k}) = Cardinality(KeysIn(f)) - isIn(f) + 1
    BY <2>1, <2>a
  <2>3. Cardinality(KeysIn(f) \ {k}) = Cardinality(KeysIn(f)) - isIn(f)
    BY <2>1, <2>b
  <2>4. IsFiniteSet(KeysIn(f) \ {k})
    BY <2>1, FS_RemoveElement
  <2>5. Cardinality(KeysIn(f) \ {k}) \in Nat
    BY <2>4, FS_CardinalityType
  <2>6. KeysIn(f)' = IF HandIn(f) = 1 THEN KeysIn(f) \cup {k} ELSE KeysIn(f) \ {k}
    BY <1>8
  <2>7. isIn(f) \in {0, 1}
    OBVIOUS
  <2> HIDE DEF isIn
  <2> QED
    BY <2>1, <2>2, <2>3, <2>5, <2>6, <2>7
<1>10. ASSUME NEW f \in DOMAIN stats
       PROVE  stats[f].live = Cardinality(KeysIn(f)) + HandIn(f)
  <2>1. stats[f].live = Cardinality(KeysIn(f)) + HandIn(f) + Cardinality(NewIn(f))
    BY <1>1 DEF LiveCount, LiveInv
  <2>2. NewIn(f) = {} /\ Cardinality({}) = 0
    BY <1>8, FS_EmptySet
  <2>3. stats[f].live \in Int /\ Cardinality(KeysIn(f)) \in Nat /\ HandIn(f) \in {0, 1}
    BY <1>6, <1>9
  <2> QED
    BY <2>1, <2>2, <2>3
<1>11. FiniteInv' /\ CoveredInv'
  <2>1. DOMAIN keydir' \in {DOMAIN keydir \cup {k}, DOMAIN keydir \ {k}}
    BY <1>3 DEF Upd, Without
  <2>2. IsFiniteSet(DOMAIN keydir')
    BY <2>1, FS_AddElement, FS_RemoveElement DEF LiveCount, FiniteInv
  <2>3. \A j \in DOMAIN keydir' : \/ j \in DOMAIN keydir /\ keydir'[j] = keydir[j]
                                  \/ req[t].op = "set" /\ keydir'[j] = ent[t]
    BY <1>3 DEF Upd, Without
  <2>4. CoveredInv'
    BY <1>1, <1>2, <1>7, <2>3 DEF LiveCount, CoveredInv
  <2> QED
    BY <1>2, <2>2, <2>4 DEF LiveCount, FiniteInv
<1>12. /\ TotalInv => TotalInv'
       /\ \A f \in DOMAIN stats' : stats'[f].live >= 0
  <2>1. ASSUME NEW f \in DOMAIN stats
        PROVE  stats'[f].live >= 0 /\ stats'[f].live + stats'[f].dead = stats[f].live + stats[f].dead
    <3>2. isIn(f) \in {0, 1}
      OBVIOUS
    <3> HIDE DEF isIn
    <3>3. stats[f].live = Cardinality(KeysIn(f)) + HandIn(f)
      BY <1>10
    <3>4. /\ Cardinality(KeysIn(f)) \in Nat /\ HandIn(f) \in {0, 1}
          /\ Cardinality(KeysIn(f)) >= isIn(f)
      BY <1>9
    <3>5. /\ stats'[f].live = stats[f].live - isIn(f)
          /\ stats'[f].dead = stats[f].dead + isIn(f)
          /\ stats[f].live \in Int /\ stats[f].dead \in Nat
      BY <1>6
    <3> QED
      BY <3>2, <3>3, <3>4, <3>5
  <2> QED
    BY <1>2, <1>7, <2>1 DEF TotalInv
<1>13. LiveInv'
  <2> SUFFICES ASSUME NEW f \in DOMAIN stats
               PROVE  stats'[f].live = Cardinality(KeysIn(f)') + HandIn(f)' + Cardinality(NewIn(f)')
    BY <1>7, <1>12 DEF LiveInv
  <2>1. isIn(f) \in {0, 1}
    OBVIOUS
  <2> HIDE DEF isIn
  <2>2. NewIn(f)' = {} /\ HandIn(f)' = 0 /\ Cardinality({}) = 0
    BY <1>8, FS_EmptySet
  <2>3. /\ Cardinality(KeysIn(f)') = Cardinality(KeysIn(f)) - isIn(f) + HandIn(f)
        /\ Cardinality(KeysIn(f)) \in Nat /\ HandIn(f) \in {0, 1}
    BY <1>9
  <2>4. stats[f].live = Cardinality(KeysIn(f)) + HandIn(f)
    BY <1>10
  <2>5. stats'[f].live = stats[f].live - isIn(f)
    BY <1>6
  <2>6. stats'[f].live = Cardinality(KeysIn(f)')
    BY <2>1, <2>3, <2>4, <2>5
  <2>7. Cardinality(KeysIn(f)') \in Int
    BY <2>1, <2>3
  <2> QED
    BY <2>2, <2>6, <2>7
<1>14. MovingInv'
  BY <1>1, <1>2 DEF MovingInv
<1> QED
  BY <1>11, <1>12, <1>13, <1>14 DEF LiveCount

\* Creating a file, as a merge does when it begins and when it ends, counts
\* nothing.
LEMMA CreateCounts ==
  ASSUME CoreInv, LiveCount, MergeBegin \/ MergeFinish
  PROVE  LiveCount' /\ (TotalInv => TotalInv')
<1> DEFINE b == IF mpc = "merge" THEN mid + 1 ELSE active + 1
<1>1. /\ DOMAIN mnew = {} /\ mfiles = {} /\ mtodo = {}
      /\ \A t \in Threads : pc[t] # "index"
  BY ThreadsAssumption DEF MergeBegin, MergeFinish, Removing, CoreInv, LockInv, CoreMerge
<1>2. /\ data' = Upd(data, b, EmptyFile) /\ files' = files \cup {b}
      /\ UNCHANGED <<keydir, stats, mnew, pc>>
  BY DEF MergeBegin, MergeFinish, Removing, NextFileid, ctx, calls
<1>3. /\ b \notin DOMAIN data /\ files \subseteq DOMAIN data /\ DOMAIN stats \subseteq DOMAIN data
  BY DEF CoreInv, TypeOK, FileInv
<1>4. MovingInv'
  BY <1>1, <1>2 DEF MergeBegin, MergeFinish, MovingInv
<1> HIDE DEF b
<1>5. /\ \A f \in DOMAIN data : f \in DOMAIN data' /\ data'[f] = data[f]
      /\ DOMAIN data' = DOMAIN data \cup {b} /\ data'[b].recs = {}
  BY <1>2, <1>3 DEF Upd, EmptyFile
<1>6. ASSUME NEW f
      PROVE  KeysIn(f)' = KeysIn(f) /\ NewIn(f)' = NewIn(f) /\ HandIn(f)' = HandIn(f)
  BY <1>1, <1>2 DEF KeysIn, NewIn, HandIn
<1>7. FiniteInv' /\ CoveredInv'
  BY <1>1, <1>2 DEF LiveCount, FiniteInv, CoveredInv
<1>8. TotalInv => TotalInv'
  BY <1>1, <1>2, <1>3, <1>5, FS_EmptySet DEF TotalInv
<1>9. LiveInv'
  BY <1>1, <1>2, <1>6 DEF LiveCount, LiveInv
<1> QED
  BY <1>4, <1>7, <1>8, <1>9 DEF LiveCount

\* Removing a merged file takes its statistics along; no key points into it.
LEMMA RemoveCounts ==
  ASSUME CoreInv, LiveCount, MergeRemoveHint \/ MergeRemoveData
  PROVE  LiveCount' /\ (TotalInv => TotalInv')
<1>1. PICK f \in mfiles : stats' = Without(stats, f)
  BY DEF MergeRemoveHint, MergeRemoveData
<1>2. /\ UNCHANGED <<data, keydir, mnew, mtodo, pc, req, ent>> /\ mtodo = {} /\ DOMAIN mnew = {}
      /\ \/ UNCHANGED <<files, mfiles>>
         \/ \E g \in mfiles : /\ stats' = Without(stats, g)
                              /\ files' = files \ {g} /\ mfiles' = mfiles \ {g}
  BY DEF MergeRemoveHint, MergeRemoveData, Removing, ctx, calls, merge
<1>3. ASSUME NEW g
      PROVE  KeysIn(g)' = KeysIn(g) /\ NewIn(g)' = NewIn(g) /\ HandIn(g)' = HandIn(g)
  BY <1>2 DEF KeysIn, NewIn, HandIn
<1>4. FiniteInv' /\ MovingInv'
  BY <1>2 DEF LiveCount, FiniteInv, MovingInv
<1>7. CoveredInv'
  <2>1. \A k \in DOMAIN keydir : keydir[k].fileid \notin mfiles
    BY NoneIntoRemoved DEF MergeRemoveHint, MergeRemoveData
  <2>2. \A t \in Threads : pc[t] # "index"
    BY ThreadsAssumption DEF MergeRemoveHint, MergeRemoveData, Removing, CoreInv, LockInv
  <2> QED
    BY <1>1, <1>2, <2>1, <2>2 DEF LiveCount, CoveredInv, Without
<1>5. CASE UNCHANGED <<files, mfiles>>
  <2>1. TotalInv => TotalInv'
    BY <1>1, <1>2, <1>5 DEF TotalInv, Without
  <2>2. LiveInv'
    BY <1>1, <1>2, <1>3, <1>5 DEF LiveCount, LiveInv, Without
  <2> QED
    BY <1>4, <1>7, <2>1, <2>2 DEF LiveCount
<1>6. CASE \E g \in mfiles : /\ stats' = Without(stats, g)
                             /\ files' = files \ {g} /\ mfiles' = mfiles \ {g}
  <2>1. PICK g \in mfiles : /\ stats' = Without(stats, g)
                            /\ files' = files \ {g} /\ mfiles' = mfiles \ {g}
    BY <1>6
  <2>2. TotalInv => TotalInv'
    BY <1>2, <2>1 DEF TotalInv, Without
  <2>3. LiveInv'
    BY <1>2, <1>3, <2>1 DEF LiveCount, LiveInv, Without
  <2> QED
    BY <1>4, <1>7, <2>2, <2>3 DEF LiveCount
<1> QED
  BY <1>2, <1>5, <1>6

\* Pointing a key at its copy moves one key from a merged file, whose counts
\* stay, to the merge file, where the copy has been counted.
LEMMA MoveCounts ==
  ASSUME CoreInv, LiveCount, MergeKeydirSet
  PROVE  LiveCount' /\ (TotalInv => TotalInv')
<1>1. PICK k \in DOMAIN mnew : keydir' = Upd(keydir, k, mnew[k]) /\ mnew' = Without(mnew, k)
  BY DEF MergeKeydirSet
<1>2. /\ UNCHANGED <<data, files, stats, mtodo, mfiles, pc, req, ent>> /\ mtodo = {}
      /\ mpc = "merge"
  BY DEF MergeKeydirSet, disk, writer, calls
<1>3. /\ k \in DOMAIN keydir /\ keydir[k].fileid \in mfiles
      /\ mnew[k].fileid \notin mfiles
  BY <1>2 DEF LiveCount, MovingInv, CoreInv, CoreMerge, TypeOK, Entries
<1>4. DOMAIN keydir' = DOMAIN keydir /\ DOMAIN mnew' = DOMAIN mnew \ {k}
  BY <1>1, <1>3 DEF Upd, Without
<1>5. FiniteInv' /\ CoveredInv'
  <2>1. FiniteInv'
    BY <1>2, <1>4, FS_RemoveElement DEF LiveCount, FiniteInv
  <2>2. CoveredInv'
    BY <1>1, <1>2, <1>4 DEF LiveCount, CoveredInv, Upd, Without
  <2> QED
    BY <2>1, <2>2
<1>6. TotalInv => TotalInv'
  BY <1>2 DEF TotalInv
<1>7. MovingInv'
  BY <1>1, <1>2, <1>4 DEF LiveCount, MovingInv, Upd
<1>8. LiveInv'
  <2> SUFFICES ASSUME NEW f \in DOMAIN stats \ mfiles
               PROVE  stats[f].live = Cardinality(KeysIn(f)') + HandIn(f)' + Cardinality(NewIn(f)')
    BY <1>2 DEF LiveCount, LiveInv
  <2>1. stats[f].live = Cardinality(KeysIn(f)) + HandIn(f) + Cardinality(NewIn(f))
    BY DEF LiveCount, LiveInv
  <2>2. HandIn(f)' = HandIn(f)
    BY <1>2 DEF HandIn
  <2>3. /\ IsFiniteSet(KeysIn(f)) /\ Cardinality(KeysIn(f)) \in Nat
        /\ IsFiniteSet(NewIn(f)) /\ Cardinality(NewIn(f)) \in Nat
        /\ HandIn(f) \in {0, 1}
    BY CountTypes DEF LiveCount
  <2>4. CASE f = mnew[k].fileid
    <3>1. KeysIn(f)' = KeysIn(f) \cup {k} /\ k \notin KeysIn(f)
      BY <1>1, <1>3, <1>4, <2>4 DEF KeysIn, Upd
    <3>2. NewIn(f)' = NewIn(f) \ {k} /\ k \in NewIn(f)
      BY <1>1, <1>4, <2>4 DEF NewIn, Without
    <3>3. Cardinality(KeysIn(f)') = Cardinality(KeysIn(f)) + 1
      BY <2>3, <3>1, FS_AddElement
    <3>4. Cardinality(NewIn(f)') = Cardinality(NewIn(f)) - 1
      BY <2>3, <3>2, FS_RemoveElement
    <3> QED
      BY <2>1, <2>2, <2>3, <3>3, <3>4
  <2>5. CASE f # mnew[k].fileid
    <3>1. KeysIn(f)' = KeysIn(f)
      BY <1>1, <1>3, <1>4, <2>5 DEF KeysIn, Upd
    <3>2. NewIn(f)' = NewIn(f)
      BY <1>1, <1>4, <2>5 DEF NewIn, Without
    <3> QED
      BY <2>1, <2>2, <3>1, <3>2
  <2> QED
    BY <2>4, <2>5
<1> QED
  BY <1>5, <1>6, <1>7, <1>8 DEF LiveCount

\* Copying an entry counts it as live in the merge file.
LEMMA CopyCounts ==
  ASSUME CoreInv, LiveCount, MergeCopy
  PROVE  LiveCount' /\ (TotalInv => TotalInv')
<1>1. PICK k \in mtodo : \E rec \in CopySource(k) : CopyEntry(k, rec)
  BY DEF MergeCopy
<1>2. PICK rec \in CopySource(k) : CopyEntry(k, rec)
  BY <1>1
<1> DEFINE n     == keydir[k].len
           after == AppendEntry(data[mid], rec.key, rec.val, n)
           st    == StatsOf(stats, mid)
           b     == mid + 1
<1>3. /\ mpc = "merge" /\ mid \in files /\ mid \notin mfiles
      /\ mid \in Nat /\ mid \in DOMAIN data /\ b \notin DOMAIN data
      /\ data[mid] \in DataFiles /\ WellFormed(data[mid])
      /\ stats \in [DOMAIN stats -> LogStats] /\ DOMAIN stats \subseteq DOMAIN data
      /\ files \subseteq DOMAIN data
      /\ k \in DOMAIN keydir /\ k \notin DOMAIN mnew /\ n \in Nat
  <2>1. /\ mpc = "merge" /\ mid \in files /\ active < mid /\ (\A f \in mfiles : f <= active)
        /\ mtodo \subseteq DOMAIN keydir
    BY DEF MergeCopy, CoreInv, CoreMerge
  <2>2. /\ mid \in Nat /\ active \in Nat /\ files \subseteq DOMAIN data
        /\ data \in [DOMAIN data -> DataFiles] /\ stats \in [DOMAIN stats -> LogStats]
        /\ DOMAIN data \subseteq Nat /\ mfiles \subseteq Nat
    BY DEF CoreInv, TypeOK
  <2>3. /\ \A f \in DOMAIN data : f <= mid
        /\ DOMAIN stats \subseteq DOMAIN data
    BY <2>1 DEF CoreInv, FileInv
  <2>4. k \notin DOMAIN mnew
    BY DEF LiveCount, MovingInv
  <2>5. n \in Nat
    BY <2>1 DEF CoreInv, TypeOK, Entries
  <2>6. WellFormed(data[mid])
    BY <2>1, <2>2 DEF CoreInv, LogInv
  <2> QED
    BY <2>1, <2>2, <2>3, <2>4, <2>5, <2>6
<1>4. /\ UNCHANGED <<keydir, mfiles, pc, req, ent>>
      /\ mtodo' = mtodo \ {k}
      /\ mnew' = Upd(mnew, k, MergedEntry(keydir[k]))
      /\ stats' = Upd(stats, mid, AddLive(st))
      /\ data' = IF MergeExceeds(n) THEN Upd(Upd(data, mid, after), b, EmptyFile)
                 ELSE Upd(data, mid, after)
      /\ files' = IF MergeExceeds(n) THEN files \cup {b} ELSE files
  BY <1>2 DEF MergeCopy, CopyEntry, ctx, calls
<1> HIDE DEF n, after
<1>7. /\ data'[mid] = after /\ mid \in DOMAIN data'
      /\ \A f \in DOMAIN data \ {mid} : f \in DOMAIN data' /\ data'[f] = data[f]
      /\ \A f \in DOMAIN data' : f \notin DOMAIN data => f = b /\ data'[f].recs = {}
  BY <1>3, <1>4 DEF Upd, EmptyFile
<1>8. st \in LogStats
  BY <1>3, StatsOfType
<1>9. /\ st.live \in Int /\ st.dead \in Nat /\ st.live >= 0
      /\ st.live = Cardinality(KeysIn(mid)) + HandIn(mid) + Cardinality(NewIn(mid))
  <2>1. CASE mid \in DOMAIN stats
    <3>1. st = stats[mid]
      BY <2>1 DEF StatsOf
    <3> QED
      BY <1>3, <1>8, <2>1, <3>1 DEF LiveCount, LiveInv, LogStats
  <2>2. CASE mid \notin DOMAIN stats
    <3>1. KeysIn(mid) = {} /\ NewIn(mid) = {} /\ HandIn(mid) = 0
      BY <1>3, <2>2 DEF KeysIn, NewIn, HandIn, LiveCount, CoveredInv
    <3> QED
      BY <2>2, <3>1, FS_EmptySet DEF StatsOf, NoStats
  <2> QED
    BY <2>1, <2>2
<1>a. mid \in DOMAIN stats => st = stats[mid]
  BY DEF StatsOf
<1>b. mid \notin DOMAIN stats => st.live + st.dead = 0
  BY DEF StatsOf, NoStats
<1>10. /\ AddLive(st).live = st.live + 1 /\ AddLive(st).dead = st.dead
  BY <1>8 DEF AddLive, LogStats
<1>11. /\ DOMAIN stats' = DOMAIN stats \cup {mid} /\ stats'[mid] = AddLive(st)
       /\ \A f \in DOMAIN stats \ {mid} : stats'[f] = stats[f]
  BY <1>4 DEF Upd
<1>12. DOMAIN mnew' = DOMAIN mnew \cup {k}
  BY <1>4 DEF Upd
<1> HIDE DEF st
<1>13. ASSUME NEW f
       PROVE  /\ KeysIn(f)' = KeysIn(f) /\ HandIn(f)' = HandIn(f)
              /\ f # mid => NewIn(f)' = NewIn(f)
              /\ f = mid => NewIn(f)' = NewIn(f) \cup {k} /\ k \notin NewIn(f)
  <2>1. KeysIn(f)' = KeysIn(f) /\ HandIn(f)' = HandIn(f)
    BY <1>4 DEF KeysIn, HandIn
  <2>2. mnew'[k].fileid = mid /\ (\A j \in DOMAIN mnew : mnew'[j] = mnew[j])
    BY <1>3, <1>4 DEF Upd, MergedEntry
  <2>3. NewIn(f)' = IF f = mid THEN NewIn(f) \cup {k} ELSE NewIn(f)
    BY <1>12, <2>2, <1>3 DEF NewIn
  <2> QED
    BY <1>3, <2>1, <2>3 DEF NewIn
<1>14. FiniteInv' /\ CoveredInv'
  <2>1. IsFiniteSet(DOMAIN mnew')
    BY <1>12, FS_AddElement DEF LiveCount, FiniteInv
  <2>2. mnew'[k].fileid = mid /\ (\A j \in DOMAIN mnew : mnew'[j] = mnew[j])
    BY <1>3, <1>4 DEF Upd, MergedEntry
  <2>3. CoveredInv'
    BY <1>4, <1>11, <1>12, <2>2 DEF LiveCount, CoveredInv
  <2> QED
    BY <1>4, <2>1, <2>3 DEF LiveCount, FiniteInv
<1>15. ASSUME TotalInv PROVE TotalInv'
  <2>1. /\ IsFiniteSet(after.recs) /\ after.recs # {}
        /\ Cardinality(after.recs) = Cardinality(data[mid].recs) + 1
        /\ IsFiniteSet(data[mid].recs)
    BY <1>3, <1>15, AppendCounts DEF TotalInv, after
  <2>2. Cardinality(data[mid].recs) \in Nat
    BY <2>1, FS_CardinalityType
  <2>3. st.live + st.dead = Cardinality(data[mid].recs)
    <3>1. CASE mid \in DOMAIN stats
      BY <1>15, <1>a, <3>1 DEF TotalInv
    <3>2. CASE mid \notin DOMAIN stats
      <4>1. data[mid].recs = {}
        BY <1>3, <1>15, <3>2 DEF TotalInv
      <4> QED
        BY <1>b, <3>2, <4>1, FS_EmptySet
    <3> QED
      BY <3>1, <3>2
  <2>4. \A f \in DOMAIN data' : IsFiniteSet(data'[f].recs)
    <3> SUFFICES ASSUME NEW f \in DOMAIN data' PROVE IsFiniteSet(data'[f].recs)
      OBVIOUS
    <3>1. CASE f = mid
      BY <1>7, <2>1, <3>1
    <3>2. CASE f \in DOMAIN data /\ f # mid
      BY <1>7, <1>15, <3>2 DEF TotalInv
    <3>3. CASE f \notin DOMAIN data
      BY <1>7, <3>3, FS_EmptySet
    <3> QED
      BY <3>1, <3>2, <3>3
  <2>5. \A f \in DOMAIN stats' : f \in files' /\ data'[f].recs # {}
    BY <1>3, <1>4, <1>7, <1>11, <1>15, <2>1 DEF TotalInv
  <2>6. ASSUME NEW f \in DOMAIN stats'
        PROVE  stats'[f].live + stats'[f].dead = Cardinality(data'[f].recs)
    <3>1. CASE f = mid
      BY <1>7, <1>9, <1>10, <1>11, <2>1, <2>2, <2>3, <3>1
    <3>2. CASE f # mid
      BY <1>3, <1>7, <1>11, <1>15, <3>2 DEF TotalInv
    <3> QED
      BY <3>1, <3>2
  <2>7. ASSUME NEW f \in files' \ mfiles, data'[f].recs # {}
        PROVE  f \in DOMAIN stats'
    <3>1. CASE f = mid
      BY <1>11, <3>1
    <3>2. CASE f \in files /\ f # mid
      BY <1>3, <1>7, <1>11, <1>15, <2>7, <3>2 DEF TotalInv
    <3>3. CASE f \notin files
      <4>1. f = b /\ b \in DOMAIN data'
        BY <1>4, <3>3 DEF Upd
      <4> QED
        BY <1>3, <1>7, <2>7, <4>1
    <3> QED
      BY <3>1, <3>2, <3>3
  <2> QED
    BY <1>4, <2>4, <2>5, <2>6, <2>7 DEF TotalInv
<1>16. LiveInv'
  <2>0. \A f \in DOMAIN stats' : stats'[f].live >= 0
    BY <1>9, <1>10, <1>11 DEF LiveCount, LiveInv
  <2> SUFFICES ASSUME NEW f \in DOMAIN stats', f \notin mfiles
               PROVE  stats'[f].live = Cardinality(KeysIn(f)') + HandIn(f)' + Cardinality(NewIn(f)')
    BY <1>4, <2>0 DEF LiveInv
  <2>1. /\ Cardinality(KeysIn(f)) \in Nat /\ HandIn(f) \in {0, 1}
        /\ IsFiniteSet(NewIn(f)) /\ Cardinality(NewIn(f)) \in Nat
    BY CountTypes DEF LiveCount
  <2>2. CASE f = mid
    <3>1. Cardinality(NewIn(f)') = Cardinality(NewIn(f)) + 1
      BY <1>13, <2>1, <2>2, FS_AddElement
    <3>2. stats'[f].live = Cardinality(KeysIn(f)) + HandIn(f) + Cardinality(NewIn(f)) + 1
      BY <1>9, <1>10, <1>11, <2>2
    <3>3. KeysIn(f)' = KeysIn(f) /\ HandIn(f)' = HandIn(f)
      BY <1>13
    <3> QED
      BY <2>1, <3>1, <3>2, <3>3
  <2>3. CASE f # mid
    <3>1. stats[f].live = Cardinality(KeysIn(f)) + HandIn(f) + Cardinality(NewIn(f))
      BY <1>11, <2>3 DEF LiveCount, LiveInv
    <3> QED
      BY <1>11, <1>13, <2>3, <3>1
  <2> QED
    BY <2>2, <2>3
<1>17. MovingInv'
  BY <1>4, <1>12 DEF LiveCount, MovingInv
<1> QED
  BY <1>14, <1>15, <1>16, <1>17 DEF LiveCount

\* Every step keeps the counts.
LEMMA NextCounts ==
  ASSUME CoreInv, LiveCount, [Next]_vars
  PROVE  LiveCount' /\ (TotalInv => TotalInv')
<1>1. ASSUME NEW t \in Threads, NEW r \in Requests, Call(t, r)
      PROVE  LiveCount' /\ (TotalInv => TotalInv')
  <2>1. UNCHANGED <<data, files, keydir, stats, mnew, mtodo, mfiles>>
    BY <1>1 DEF Call, disk, ctx, writer, merge
  <2>2. \A u \in Threads : (pc'[u] = "index" \/ pc[u] = "index") =>
          pc'[u] = pc[u] /\ req'[u] = req[u] /\ ent'[u] = ent[u]
    BY <1>1 DEF Call, CoreInv, TypeOK
  <2> QED
    BY <2>1, <2>2, QuietCounts
<1>2. ASSUME NEW t \in Threads, GetLookup(t) \/ GetRead(t) \/ Return(t)
      PROVE  LiveCount' /\ (TotalInv => TotalInv')
  <2>1. UNCHANGED <<data, files, keydir, stats, mnew, mtodo, mfiles>>
    BY <1>2 DEF GetLookup, GetRead, Return, disk, ctx, writer, merge
  <2>2. \A u \in Threads : (pc'[u] = "index" \/ pc[u] = "index") =>
          pc'[u] = pc[u] /\ req'[u] = req[u] /\ ent'[u] = ent[u]
    BY <1>2 DEF GetLookup, GetRead, Return, CoreInv, TypeOK
  <2> QED
    BY <2>1, <2>2, QuietCounts
<1>3. CASE \/ Close \/ MergeTick \/ MergeSkip \/ MergeStop \/ SyncTick \/ SyncActive \/ SyncStop
           \/ UNCHANGED vars
  <2>1. UNCHANGED <<data, files, keydir, stats, mnew, mtodo, mfiles, pc, req, ent>>
    BY <1>3 DEF Close, MergeTick, MergeSkip, MergeStop, SyncTick, SyncActive, SyncStop, vars,
                disk, ctx, writer, merge, calls
  <2> QED
    BY <2>1, QuietCounts
<1> QED
  BY <1>1, <1>2, <1>3, WriteCounts, IndexCounts, CreateCounts, RemoveCounts, MoveCounts, CopyCounts
     DEF Next, MergeStep

\* The counts are right at every moment, once the entries appended or copied
\* and not yet indexed are added to those the KeyDir points at.
LEMMA CountInvariant == Spec => [](LiveCount /\ TotalInv)
<1>1. Init => LiveCount /\ TotalInv
  <2> SUFFICES ASSUME Init PROVE LiveCount /\ TotalInv
    OBVIOUS
  <2>1. /\ DOMAIN keydir = {} /\ DOMAIN mnew = {} /\ DOMAIN stats = {} /\ mtodo = {}
        /\ DOMAIN data = {0} /\ data[0].recs = {} /\ files = {0}
        /\ \A t \in Threads : pc[t] = "idle"
    BY DEF Init, EmptyMap, EmptyFile
  <2> QED
    BY <2>1, FS_EmptySet DEF LiveCount, FiniteInv, CoveredInv, TotalInv, LiveInv, MovingInv
<1>2. IndInv /\ LiveCount /\ TotalInv /\ [Next]_vars => LiveCount' /\ TotalInv'
  BY NextCounts, InvParts
<1> QED
  BY <1>1, <1>2, InvariantHolds, PTL DEF Spec

\* With nothing appended or copied and not indexed, they are those that
\* merging goes by.
LEMMA CountsMeet ==
  ASSUME CoreInv, LiveCount, TotalInv
  PROVE  CountsExact
<1> SUFFICES ASSUME lock = "none" PROVE CountsExact
  BY DEF CountsExact
<1>1. /\ mfiles = {} /\ DOMAIN mnew = {} /\ \A t \in Threads : pc[t] # "index"
  BY ThreadsAssumption DEF CoreInv, LockInv, CoreMerge
<1>2. DOMAIN stats = {f \in files : data[f].recs # {}}
  BY <1>1 DEF TotalInv
<1>3. ASSUME NEW f \in DOMAIN stats
      PROVE  stats[f].live = Cardinality(KeysIn(f))
  <2>1. stats[f].live = Cardinality(KeysIn(f)) + HandIn(f) + Cardinality(NewIn(f))
    BY <1>1 DEF LiveCount, LiveInv
  <2>2. HandIn(f) = 0 /\ NewIn(f) = {}
    BY <1>1 DEF HandIn, NewIn
  <2>3. Cardinality(KeysIn(f)) \in Nat /\ Cardinality({}) = 0
    BY CountTypes, FS_EmptySet DEF LiveCount
  <2> QED
    BY <2>1, <2>2, <2>3
<1> QED
  BY <1>2, <1>3 DEF TotalInv, CountsExact

\* Whenever the writer's mutex is free the statistics cover exactly the files
\* that hold entries, `live` is the number of keys that point into the file
\* and `dead` that of its other entries, for any interleaving of sets, dels
\* and merges.
THEOREM CountsCorrect == Spec => []CountsExact
<1>1. IndInv /\ LiveCount /\ TotalInv => CountsExact
  BY CountsMeet, InvParts
<1> QED
  BY <1>1, CountInvariant, InvariantHolds, PTL

\* The unsigned count of live keys never goes below zero, not even between
\* an append and the update of the KeyDir: LogStatistics::overwrite subtracts
\* one without looking.
THEOREM LiveNotNegative == Spec => [](\A f \in DOMAIN stats : stats[f].live >= 0)
<1>1. LiveCount => \A f \in DOMAIN stats : stats[f].live >= 0
  BY DEF LiveCount, LiveInv
<1> QED
  BY <1>1, CountInvariant, PTL

-----------------------------------------------------------------------------
(* The bytes of dead entries are exact *)

\* Entries do not overlap.
Disjoint(file) ==
  \A r1, r2 \in file.recs : r1.pos < r2.pos => r1.pos + r1.len <= r2.pos

\* LogWriter::append keeps entries apart.
LEMMA AppendDisjoint ==
  ASSUME NEW file \in DataFiles, WellFormed(file), Disjoint(file),
         NEW k, NEW v, NEW n \in Nat \ {0}
  PROVE  Disjoint(AppendEntry(file, k, v, n))
<1> DEFINE new == [pos |-> file.size, len |-> n, key |-> k, val |-> v]
<1>1. AppendEntry(file, k, v, n).recs = file.recs \cup {new}
  BY DEF AppendEntry
<1>2. file.size \in Nat /\ \A rec \in file.recs : rec.pos \in Nat /\ rec.len \in Nat \ {0}
  BY DEF DataFiles, Records
<1>3. \A rec \in file.recs : rec.pos + rec.len <= file.size
  BY DEF WellFormed
<1>4. new.pos = file.size
  OBVIOUS
<1> HIDE DEF new
<1>5. QED
  BY <1>1, <1>2, <1>3, <1>4 DEF Disjoint

\* A key points at position p of f, or is about to.
InUse(f, p) ==
  \/ \E k \in KeysIn(f) : keydir[k].pos = p
  \/ \E k \in NewIn(f) : mnew[k].pos = p
  \/ \E t \in Threads : /\ pc[t] = "index" /\ req[t].op = "set"
                        /\ ent[t].fileid = f /\ ent[t].pos = p
Unused(f) == {rec \in data[f].recs : ~InUse(f, rec.pos)}

ApartInv == \A f \in DOMAIN data : Disjoint(data[f])

\* No key points at the entry just appended.
HandInv ==
  \A t \in Threads : pc[t] = "index" /\ req[t].op = "set" =>
    \A k \in KeysIn(ent[t].fileid) : keydir[k].pos # ent[t].pos

\* Like the counts, the bytes of merged files stay what they were.
DeadInv ==
  \A f \in DOMAIN stats \ mfiles : stats[f].deadBytes = Cardinality(BytesOf(Unused(f)))

BytesInv == ApartInv /\ HandInv /\ DeadInv

\* Entries that do not overlap take up their lengths.
LEMMA AddBytes ==
  ASSUME NEW file \in DataFiles, WellFormed(file), Disjoint(file),
         NEW D \in SUBSET file.recs, NEW r \in file.recs, r \notin D
  PROVE  Cardinality(BytesOf(D \cup {r})) = Cardinality(BytesOf(D)) + r.len
<1> DEFINE R == r.pos .. r.pos + r.len - 1
<1>1. /\ file.size \in Nat /\ r.pos \in Nat /\ r.len \in Nat \ {0}
      /\ \A q \in file.recs : q.pos \in Nat /\ q.len \in Nat \ {0} /\ q.pos + q.len <= file.size
  BY DEF DataFiles, Records, WellFormed
<1>2. BytesOf(D \cup {r}) = BytesOf(D) \cup R
  BY Zenon DEF BytesOf
<1>3. BytesOf(D) \cap R = {}
  <2>a. \A b \in BytesOf(D) : \E q \in D : b \in q.pos .. q.pos + q.len - 1
    BY Zenon DEF BytesOf
  <2> SUFFICES ASSUME NEW q \in D, NEW b \in q.pos .. q.pos + q.len - 1, b \in R
               PROVE  FALSE
    <3> HIDE DEF R
    <3> QED BY <2>a
  <2>1. q.pos # r.pos
    BY DEF WellFormed
  <2>2. q.pos \in Nat /\ q.len \in Nat /\ q \in file.recs
    BY <1>1
  <2>3. q.pos < r.pos \/ r.pos < q.pos
    BY <1>1, <2>1, <2>2
  <2>4. q.pos + q.len <= r.pos \/ r.pos + r.len <= q.pos
    BY <2>2, <2>3 DEF Disjoint
  <2> QED
    BY <1>1, <2>2, <2>4
<1>4. IsFiniteSet(R) /\ Cardinality(R) = r.len
  <2>1. r.pos + r.len - 1 \in Int /\ r.pos \in Int /\ ~(r.pos > r.pos + r.len - 1)
    BY <1>1
  <2>2. IsFiniteSet(R) /\ Cardinality(R) = (r.pos + r.len - 1) - r.pos + 1
    BY <2>1, FS_Interval
  <2> QED
    BY <1>1, <2>2
<1>5. IsFiniteSet(BytesOf(D)) /\ Cardinality(BytesOf(D)) \in Nat
  <2>1. \A q \in D : (q.pos .. q.pos + q.len - 1) \subseteq 0 .. file.size
    BY <1>1
  <2>2. BytesOf(D) \subseteq 0 .. file.size
    BY <2>1, Zenon DEF BytesOf
  <2>3. 0 \in Int /\ file.size \in Int
    BY <1>1
  <2>4. IsFiniteSet(0 .. file.size)
    BY <2>3, FS_Interval
  <2> QED
    BY <2>2, <2>4, FS_Subset, FS_CardinalityType
<1> HIDE DEF R
<1>6. Cardinality(BytesOf(D) \cup R) = Cardinality(BytesOf(D)) + Cardinality(R) - Cardinality({})
  BY <1>3, <1>4, <1>5, FS_Union
<1>7. Cardinality({}) = 0
  BY FS_EmptySet
<1>8. Cardinality(BytesOf(D) \cup R) = Cardinality(BytesOf(D)) + r.len
  BY <1>1, <1>4, <1>5, <1>6, <1>7
<1> QED
  BY <1>2, <1>8, Zenon

\* No entry takes up no byte.
LEMMA NoBytes == Cardinality(BytesOf({})) = 0
<1>1. BytesOf({}) = {}
  BY DEF BytesOf
<1> QED
  BY <1>1, FS_EmptySet

\* What is in use is in the file.
LEMMA UsedInside ==
  ASSUME CoreInv, PlaceInv, NEW f \in DOMAIN data, NEW p, InUse(f, p)
  PROVE  /\ p \in Nat /\ data[f].size \in Nat /\ p < data[f].size
         /\ \E rec \in data[f].recs : rec.pos = p
<1>1. \E rec \in data[f].recs : rec.pos = p
  BY DEF InUse, KeysIn, NewIn, PlaceInv, Locates
<1>2. data[f] \in DataFiles /\ WellFormed(data[f])
  BY DEF CoreInv, TypeOK, LogInv
<1> QED
  BY <1>1, <1>2 DEF DataFiles, Records, WellFormed

\* The steps that touch neither files nor KeyDir nor statistics, nor what is
\* about to be indexed.
LEMMA QuietBytes ==
  ASSUME BytesInv, UNCHANGED <<data, keydir, stats, mnew, mfiles>>,
         \A t \in Threads : (pc'[t] = "index" \/ pc[t] = "index") =>
           pc'[t] = pc[t] /\ req'[t] = req[t] /\ ent'[t] = ent[t]
  PROVE  BytesInv'
<1>1. \A f : KeysIn(f)' = KeysIn(f) /\ NewIn(f)' = NewIn(f)
  BY DEF KeysIn, NewIn
<1>2. \A f, p : InUse(f, p)' <=> InUse(f, p)
  BY <1>1 DEF InUse
<1>3. \A f : Unused(f)' = Unused(f)
  BY <1>2 DEF Unused
<1>4. HandInv'
  BY <1>1 DEF BytesInv, HandInv
<1> QED
  BY <1>3, <1>4 DEF BytesInv, ApartInv, DeadInv


\* Writer::write counts the bytes of a tombstone, which no key points at.
LEMMA WriteBytes ==
  ASSUME CoreInv, PlaceInv, LiveCount, TotalInv, BytesInv, CoreInv',
         NEW t \in Threads, Write(t)
  PROVE  BytesInv'
<1> DEFINE v     == req[t].val
           n     == EntryLen[v]
           size  == data[active].size
           new   == [pos |-> size, len |-> n, key |-> req[t].key, val |-> v]
           after == AppendEntry(data[active], req[t].key, v, n)
           st    == StatsOf(stats, active)
           st2   == IF v = NoValue THEN AddDead(st, n) ELSE AddLive(st)
           b     == active + 1
<1>a. PICK a : a = active
  OBVIOUS
<1>1. /\ v \in Values \cup {NoValue} /\ n \in Nat \ {0}
      /\ req[t].op = "set" <=> v # NoValue
  <2>1. /\ req[t] \in Requests \cup {NoReq}
        /\ req[t].op \in {"set", "del"}
    BY DEF Write, CoreInv, TypeOK
  <2>2. \/ req[t].op = "set" /\ v \in Values
        \/ req[t].op = "del" /\ v = NoValue
    BY <2>1 DEF Requests, NoReq
  <2>3. v \in Values \cup {NoValue} /\ (req[t].op = "set" <=> v # NoValue)
    BY <2>2, ValuesAssumption
  <2> QED
    BY <2>3, EntryLenAssumption
<1>2. /\ mpc # "merge" /\ (\A u \in Threads : pc[u] # "index")
      /\ mfiles = {} /\ DOMAIN mnew = {}
  BY ThreadsAssumption DEF Write, CoreInv, LockInv, CoreMerge
<1>3. /\ active \in Nat /\ active \in DOMAIN data /\ active \in files /\ b \notin DOMAIN data
      /\ data[active] \in DataFiles /\ WellFormed(data[active])
      /\ stats \in [DOMAIN stats -> LogStats] /\ DOMAIN stats \subseteq DOMAIN data
      /\ DOMAIN data \subseteq Nat /\ Disjoint(data[active])
  BY <1>2 DEF CoreInv, TypeOK, FileInv, LogInv, BytesInv, ApartInv
<1>4. /\ UNCHANGED <<keydir, mnew, mfiles, req>>
      /\ stats' = Upd(stats, active, st2)
      /\ data' = IF Exceeds(n) THEN Upd(Upd(data, active, after), b, EmptyFile)
                 ELSE Upd(data, active, after)
      /\ pc'[t] = "index" /\ ent'[t].fileid = active /\ ent'[t].pos = size
      /\ \A u \in Threads \ {t} : pc'[u] = pc[u]
  BY DEF Write, NextFileid, ctx, merge, EntryIndex, CoreInv, TypeOK
<1>5. after.recs = data[active].recs \cup {new} /\ new.pos = size /\ new.len = n
  BY DEF AppendEntry
<1> HIDE DEF n, v, after, new, size
<1>7. /\ data'[active] = after /\ active \in DOMAIN data'
      /\ \A f \in DOMAIN data \ {active} : f \in DOMAIN data' /\ data'[f] = data[f]
      /\ \A f \in DOMAIN data' : f \notin DOMAIN data => f = b /\ data'[f] = EmptyFile
  BY <1>3, <1>4 DEF Upd
<1>6. after \in DataFiles /\ WellFormed(after) /\ Disjoint(after)
  <2>1. after \in DataFiles /\ WellFormed(after)
    BY <1>7 DEF CoreInv, TypeOK, LogInv
  <2> QED
    BY <1>1, <1>3, <2>1, AppendDisjoint DEF after
<1>8. ApartInv'
  <2> SUFFICES ASSUME NEW f \in DOMAIN data' PROVE Disjoint(data'[f])
    BY DEF ApartInv
  <2>1. CASE f = active
    BY <1>6, <1>7, <2>1
  <2>2. CASE f \in DOMAIN data /\ f # active
    BY <1>7, <2>2 DEF BytesInv, ApartInv
  <2>3. CASE f \notin DOMAIN data
    BY <1>7, <2>3 DEF Disjoint, EmptyFile
  <2> QED
    BY <2>1, <2>2, <2>3
<1>9. \A p : InUse(a, p) => p \in Nat /\ p < size /\ size \in Nat
  BY <1>a, <1>3, UsedInside DEF size
<1>10. HandInv'
  <2>1. \A k \in KeysIn(a) : keydir[k].pos # size
    BY <1>9 DEF InUse
  <2>2. KeysIn(a)' = KeysIn(a)
    BY <1>4 DEF KeysIn
  <2> QED
    BY <1>a, <1>2, <1>4, <2>1, <2>2 DEF HandInv
<1>11. ASSUME NEW f, NEW p
       PROVE  InUse(f, p)' <=> InUse(f, p) \/ (f = a /\ p = size /\ v # NoValue)
  <2>1. KeysIn(f)' = KeysIn(f) /\ NewIn(f)' = {} /\ NewIn(f) = {}
    BY <1>2, <1>4 DEF KeysIn, NewIn
  <2> QED
    BY <1>a, <1>1, <1>2, <1>4, <2>1 DEF InUse
<1>12. /\ v = NoValue => Unused(a)' = Unused(a) \cup {new}
       /\ v # NoValue => Unused(a)' = Unused(a)
       /\ new \notin data[a].recs
  <2>1. \A rec \in data[a].recs : rec.pos \in Nat /\ rec.pos < size /\ size \in Nat
    BY <1>a, <1>3 DEF DataFiles, Records, WellFormed, size
  <2>2. ~InUse(a, size)
    BY <1>9
  <2> QED
    BY <1>a, <1>5, <1>7, <1>11, <2>1, <2>2 DEF Unused
<1>13. st.deadBytes = Cardinality(BytesOf(Unused(a))) /\ st \in LogStats
  <2>1. CASE a \in DOMAIN stats
    BY <1>a, <1>2, <1>3, <2>1 DEF StatsOf, BytesInv, DeadInv
  <2>2. CASE a \notin DOMAIN stats
    <3>1. data[a].recs = {}
      BY <1>a, <1>2, <1>3, <2>2 DEF TotalInv
    <3>2. Unused(a) = {}
      BY <3>1 DEF Unused
    <3> QED
      BY <1>a, <1>3, <2>2, <3>2, NoBytes, StatsOfType DEF StatsOf, NoStats
  <2> QED
    BY <2>1, <2>2
<1>14. st2.deadBytes = Cardinality(BytesOf(Unused(a)'))
  <2>1. CASE v = NoValue
    <3>1. Cardinality(BytesOf(Unused(a) \cup {new})) = Cardinality(BytesOf(Unused(a))) + n
      <4>1. Unused(a) \in SUBSET after.recs /\ new \in after.recs /\ new \notin Unused(a)
        BY <1>a, <1>5, <1>12 DEF Unused
      <4> QED
        BY <1>5, <1>6, <4>1, AddBytes
    <3>2. st2.deadBytes = st.deadBytes + n
      BY <2>1 DEF AddDead
    <3> QED
      BY <1>12, <1>13, <2>1, <3>1, <3>2
  <2>2. CASE v # NoValue
    <3>1. st2.deadBytes = st.deadBytes
      BY <1>13, <2>2 DEF AddLive, LogStats
    <3> QED
      BY <1>12, <1>13, <2>2, <3>1
  <2> QED
    BY <2>1, <2>2
<1>15. /\ DOMAIN stats' = DOMAIN stats \cup {a} /\ stats'[a] = st2
       /\ \A f \in DOMAIN stats \ {a} : stats'[f] = stats[f]
  BY <1>a, <1>4 DEF Upd
<1> HIDE DEF st, st2
<1>16. DeadInv'
  <2> SUFFICES ASSUME NEW f \in DOMAIN stats'
               PROVE  stats'[f].deadBytes = Cardinality(BytesOf(Unused(f)'))
    BY DEF DeadInv, BytesOf
  <2>1. CASE f = a
    BY <1>14, <1>15, <2>1
  <2>2. CASE f # a
    <3>1. f \in DOMAIN stats /\ data'[f] = data[f] /\ stats'[f] = stats[f]
      BY <1>a, <1>3, <1>7, <1>15, <2>2
    <3>2. Unused(f)' = Unused(f)
      BY <1>11, <2>2, <3>1 DEF Unused
    <3> QED
      BY <1>2, <3>1, <3>2 DEF BytesInv, DeadInv
  <2> QED
    BY <2>1, <2>2
<1> QED
  BY <1>8, <1>10, <1>16 DEF BytesInv


\* Writer::put and Writer::delete count the bytes of the entry that the key
\* pointed at, and no key points there any more.
LEMMA IndexBytes ==
  ASSUME CoreInv, PlaceInv, LiveCount, BytesInv, NEW t \in Threads,
         KeydirSet(t) \/ KeydirRemove(t)
  PROVE  BytesInv'
<1>a. PICK k : k = req[t].key
  OBVIOUS
<1>1. /\ mpc # "merge" /\ (\A u \in Threads \ {t} : pc[u] # "index") /\ pc[t] = "index"
      /\ mfiles = {} /\ DOMAIN mnew = {} /\ req[t].op \in {"set", "del"}
  BY ThreadsAssumption DEF KeydirSet, KeydirRemove, CoreInv, LockInv, CoreMerge
<1>2. /\ UNCHANGED <<data, mnew, mfiles, req, ent>>
      /\ stats' = Superseded(k)
      /\ \A u \in Threads : pc'[u] # "index"
  BY <1>a, <1>1 DEF KeydirSet, KeydirRemove, disk, merge, CoreInv, TypeOK
<1>3. keydir' = IF req[t].op = "set" THEN Upd(keydir, k, ent[t]) ELSE Without(keydir, k)
  BY <1>a DEF KeydirSet, KeydirRemove
<1>4. ApartInv' /\ HandInv'
  BY <1>2 DEF BytesInv, ApartInv, HandInv
<1>5. /\ stats \in [DOMAIN stats -> LogStats] /\ DOMAIN stats \subseteq DOMAIN data
      /\ k \in DOMAIN keydir => keydir[k].fileid \in DOMAIN stats
  BY <1>1 DEF CoreInv, TypeOK, FileInv, LiveCount, CoveredInv
<1>6. DOMAIN stats' = DOMAIN stats
  BY <1>2, <1>5 DEF Superseded, SupersedeIn, Upd
<1>7. ASSUME NEW f, NEW p
      PROVE  /\ InUse(f, p) <=> \/ \E j \in KeysIn(f) : keydir[j].pos = p
                                \/ req[t].op = "set" /\ ent[t].fileid = f /\ ent[t].pos = p
             /\ InUse(f, p)' <=> \/ \E j \in KeysIn(f) \ {k} : keydir[j].pos = p
                                 \/ req[t].op = "set" /\ ent[t].fileid = f /\ ent[t].pos = p
  <2>1. NewIn(f) = {} /\ NewIn(f)' = {}
    BY <1>1, <1>2 DEF NewIn
  <2>2. InUse(f, p)' <=> \E j \in KeysIn(f)' : keydir'[j].pos = p
    BY <1>2, <2>1 DEF InUse
  <2>3. (\E j \in KeysIn(f)' : keydir'[j].pos = p) <=>
          \/ \E j \in KeysIn(f) \ {k} : keydir[j].pos = p
          \/ req[t].op = "set" /\ ent[t].fileid = f /\ ent[t].pos = p
    BY <1>3 DEF KeysIn, Upd, Without
  <2>4. InUse(f, p) <=> \/ \E j \in KeysIn(f) : keydir[j].pos = p
                        \/ req[t].op = "set" /\ ent[t].fileid = f /\ ent[t].pos = p
    BY <1>1, <2>1 DEF InUse
  <2> QED
    BY <2>2, <2>3, <2>4
<1>8. ASSUME NEW f \in DOMAIN stats
      PROVE  stats'[f].deadBytes = Cardinality(BytesOf(Unused(f)'))
  <2>1. stats[f].deadBytes = Cardinality(BytesOf(Unused(f)))
    BY <1>1 DEF BytesInv, DeadInv
  <2>2. CASE k \in KeysIn(f)
    <3>1. PICK old \in data[f].recs :
            old.pos = keydir[k].pos /\ old.len = keydir[k].len /\ old.key = k
      BY <2>2 DEF KeysIn, PlaceInv, Locates
    <3>2. data[f] \in DataFiles /\ WellFormed(data[f]) /\ Disjoint(data[f])
      BY <1>5 DEF CoreInv, TypeOK, LogInv, BytesInv, ApartInv
    <3>3. InUse(f, old.pos)
      BY <2>2, <3>1 DEF InUse
    <3>4. ~InUse(f, old.pos)'
      <4>1. \A j \in KeysIn(f) : keydir[j].pos = old.pos => j = k
        BY <3>1, <3>2 DEF KeysIn, PlaceInv, Locates, WellFormed
      <4>2. req[t].op = "set" /\ ent[t].fileid = f => ent[t].pos # old.pos
        BY <1>1, <2>2, <3>1 DEF BytesInv, HandInv
      <4> QED
        BY <1>7, <4>1, <4>2
    <3>5. ASSUME NEW rec \in data[f].recs, rec # old
          PROVE  InUse(f, rec.pos)' <=> InUse(f, rec.pos)
      <4>1. rec.pos # keydir[k].pos
        BY <3>1, <3>2, <3>5 DEF WellFormed
      <4> QED
        BY <1>7, <4>1
    <3>6. Unused(f)' = Unused(f) \cup {old} /\ old \notin Unused(f)
      BY <1>2, <3>1, <3>3, <3>4, <3>5 DEF Unused
    <3>7. Cardinality(BytesOf(Unused(f) \cup {old})) = Cardinality(BytesOf(Unused(f))) + old.len
      <4>1. Unused(f) \in SUBSET data[f].recs
        BY DEF Unused
      <4> QED
        BY <3>1, <3>2, <3>6, <4>1, AddBytes
    <3>8. stats'[f].deadBytes = stats[f].deadBytes + keydir[k].len
      <4>1. stats' = Upd(stats, f, Overwrite(stats[f], keydir[k].len))
        BY <1>2, <2>2 DEF Superseded, SupersedeIn, KeysIn, StatsOf
      <4>2. stats'[f] = Overwrite(stats[f], keydir[k].len)
        BY <4>1 DEF Upd
      <4> QED
        BY <4>2 DEF Overwrite
    <3> QED
      BY <2>1, <3>1, <3>6, <3>7, <3>8
  <2>3. CASE k \notin KeysIn(f)
    <3>1. stats'[f] = stats[f]
      BY <1>2, <2>3 DEF Superseded, SupersedeIn, KeysIn, Upd
    <3>2. \A p : InUse(f, p)' <=> InUse(f, p)
      BY <1>7, <2>3
    <3>3. Unused(f)' = Unused(f)
      BY <1>2, <3>2 DEF Unused
    <3> QED
      BY <2>1, <3>1, <3>3
  <2> QED
    BY <2>2, <2>3
<1> QED
  BY <1>4, <1>6, <1>8 DEF BytesInv, DeadInv, BytesOf

\* Creating a file, as a merge does when it begins and when it ends, counts
\* nothing.
LEMMA CreateBytes ==
  ASSUME CoreInv, BytesInv, MergeBegin \/ MergeFinish
  PROVE  BytesInv'
<1>1. PICK b : b = IF mpc = "merge" THEN mid + 1 ELSE active + 1
  OBVIOUS
<1>2. /\ mfiles = {} /\ \A t \in Threads : pc[t] # "index"
  BY ThreadsAssumption DEF MergeBegin, MergeFinish, Removing, CoreInv, LockInv, CoreMerge
<1>3. /\ data' = Upd(data, b, EmptyFile) /\ UNCHANGED <<keydir, stats, mnew, pc>>
  BY <1>1 DEF MergeBegin, MergeFinish, Removing, NextFileid, ctx, calls
<1>4. b \notin DOMAIN data /\ DOMAIN stats \subseteq DOMAIN data
  BY <1>1 DEF CoreInv, TypeOK, FileInv
<1>5. /\ \A f \in DOMAIN data : data'[f] = data[f]
      /\ DOMAIN data' = DOMAIN data \cup {b} /\ data'[b] = EmptyFile
  BY <1>3, <1>4 DEF Upd
<1>6. ASSUME NEW f, NEW p
      PROVE  InUse(f, p)' <=> InUse(f, p)
  <2>1. KeysIn(f)' = KeysIn(f) /\ NewIn(f)' = NewIn(f)
    BY <1>3 DEF KeysIn, NewIn
  <2> QED
    BY <1>2, <1>3, <2>1 DEF InUse
<1>7. ApartInv' /\ HandInv'
  <2>1. Disjoint(EmptyFile)
    BY DEF Disjoint, EmptyFile
  <2> QED
    BY <1>2, <1>3, <1>5, <2>1 DEF BytesInv, ApartInv, HandInv
<1>8. \A f \in DOMAIN stats : Unused(f)' = Unused(f)
  BY <1>4, <1>5, <1>6 DEF Unused
<1> QED
  BY <1>2, <1>3, <1>7, <1>8 DEF BytesInv, DeadInv, BytesOf

\* Removing a merged file takes its statistics along.
LEMMA RemoveBytes ==
  ASSUME CoreInv, BytesInv, MergeRemoveHint \/ MergeRemoveData
  PROVE  BytesInv'
<1>1. PICK f \in mfiles : stats' = Without(stats, f) /\ mfiles \ {f} \subseteq mfiles'
  BY DEF MergeRemoveHint, MergeRemoveData, merge
<1>2. UNCHANGED <<data, keydir, mnew, pc, req, ent>>
  BY DEF MergeRemoveHint, MergeRemoveData, ctx, calls, merge
<1>3. \A g : KeysIn(g)' = KeysIn(g) /\ NewIn(g)' = NewIn(g)
  BY <1>2 DEF KeysIn, NewIn
<1>4. \A g, p : InUse(g, p)' <=> InUse(g, p)
  BY <1>2, <1>3 DEF InUse
<1>5. \A g : Unused(g)' = Unused(g)
  BY <1>2, <1>4 DEF Unused
<1>6. DeadInv'
  BY <1>1, <1>5 DEF BytesInv, DeadInv, Without, BytesOf
<1> QED
  BY <1>2, <1>3, <1>6 DEF BytesInv, ApartInv, HandInv

\* Pointing a key at its copy leaves the copy in use, and what the key pointed
\* at is in a merged file.
LEMMA MoveBytes ==
  ASSUME CoreInv, LiveCount, BytesInv, MergeKeydirSet
  PROVE  BytesInv'
<1>1. PICK k \in DOMAIN mnew : keydir' = Upd(keydir, k, mnew[k]) /\ mnew' = Without(mnew, k)
  BY DEF MergeKeydirSet
<1>2. /\ UNCHANGED <<data, stats, mfiles, pc, req, ent>> /\ \A t \in Threads : pc[t] # "index"
  BY ThreadsAssumption DEF MergeKeydirSet, disk, writer, calls, CoreInv, LockInv
<1>3. k \in DOMAIN keydir /\ keydir[k].fileid \in mfiles
  BY DEF LiveCount, MovingInv
<1>4. ASSUME NEW f, f \notin mfiles, NEW p
      PROVE  InUse(f, p)' <=> InUse(f, p)
  <2>1. (\E j \in KeysIn(f)' : keydir'[j].pos = p) <=>
          \/ \E j \in KeysIn(f) : keydir[j].pos = p
          \/ mnew[k].fileid = f /\ mnew[k].pos = p
    BY <1>1, <1>3, <1>4 DEF KeysIn, Upd
  <2>2. (\E j \in NewIn(f) : mnew[j].pos = p) <=>
          \/ \E j \in NewIn(f)' : mnew'[j].pos = p
          \/ mnew[k].fileid = f /\ mnew[k].pos = p
    BY <1>1 DEF NewIn, Without
  <2> QED
    BY <1>2, <2>1, <2>2 DEF InUse
<1>5. \A f : f \notin mfiles => Unused(f)' = Unused(f)
  BY <1>2, <1>4 DEF Unused
<1> QED
  BY <1>2, <1>5 DEF BytesInv, ApartInv, HandInv, DeadInv, BytesOf


\* Copying an entry adds one that a key is about to point at.
LEMMA CopyBytes ==
  ASSUME CoreInv, PlaceInv, LiveCount, TotalInv, BytesInv, CoreInv', MergeCopy
  PROVE  BytesInv'
<1>1. PICK k \in mtodo : \E rec \in CopySource(k) : CopyEntry(k, rec)
  BY DEF MergeCopy
<1>2. PICK rec \in CopySource(k) : CopyEntry(k, rec)
  BY <1>1
<1>a. PICK m : m = mid
  OBVIOUS
<1> DEFINE n     == keydir[k].len
           size  == data[m].size
           new   == [pos |-> size, len |-> n, key |-> rec.key, val |-> rec.val]
           after == AppendEntry(data[m], rec.key, rec.val, n)
           st    == StatsOf(stats, m)
<1>3. /\ mpc = "merge" /\ m \in files /\ m \notin mfiles /\ m \in Nat /\ m \in DOMAIN data
      /\ m + 1 \notin DOMAIN data /\ size \in Nat
      /\ data[m] \in DataFiles /\ WellFormed(data[m]) /\ Disjoint(data[m])
      /\ stats \in [DOMAIN stats -> LogStats] /\ DOMAIN stats \subseteq DOMAIN data
      /\ k \in DOMAIN keydir /\ k \notin DOMAIN mnew /\ n \in Nat \ {0} /\ mpos = size
  <2>1. /\ mpc = "merge" /\ m \in files /\ active < m /\ (\A f \in mfiles : f <= active)
        /\ mtodo \subseteq DOMAIN keydir /\ mpos = size
    BY <1>a DEF MergeCopy, CoreInv, CoreMerge
  <2>2. /\ m \in Nat /\ active \in Nat /\ files \subseteq DOMAIN data
        /\ data \in [DOMAIN data -> DataFiles] /\ stats \in [DOMAIN stats -> LogStats]
        /\ DOMAIN data \subseteq Nat /\ mfiles \subseteq Nat
    BY <1>a DEF CoreInv, TypeOK
  <2>3. /\ \A f \in DOMAIN data : f <= m
        /\ DOMAIN stats \subseteq DOMAIN data
    BY <1>a, <2>1 DEF CoreInv, FileInv
  <2>4. k \notin DOMAIN mnew
    BY DEF LiveCount, MovingInv
  <2>5. n \in Nat \ {0}
    BY <2>1 DEF CoreInv, TypeOK, Entries
  <2>6. m \in DOMAIN data /\ data[m] \in DataFiles
    BY <2>1, <2>2
  <2>7. WellFormed(data[m]) /\ Disjoint(data[m]) /\ size \in Nat
    BY <2>6 DEF CoreInv, LogInv, BytesInv, ApartInv, DataFiles
  <2> QED
    BY <2>1, <2>2, <2>3, <2>4, <2>5, <2>6, <2>7
<1>4. /\ UNCHANGED <<keydir, mfiles, pc, req, ent>>
      /\ mnew' = Upd(mnew, k, MergedEntry(keydir[k]))
      /\ stats' = Upd(stats, m, AddLive(st))
      /\ data' = IF MergeExceeds(n) THEN Upd(Upd(data, m, after), m + 1, EmptyFile)
                 ELSE Upd(data, m, after)
  BY <1>a, <1>2 DEF MergeCopy, CopyEntry, ctx, calls
<1>5. after.recs = data[m].recs \cup {new} /\ new.pos = size
  BY DEF AppendEntry
<1>6. Disjoint(after)
  BY <1>3, AppendDisjoint
<1> HIDE DEF n, after, new, size
<1>7. /\ data'[m] = after
      /\ \A f \in DOMAIN data \ {m} : f \in DOMAIN data' /\ data'[f] = data[f]
      /\ \A f \in DOMAIN data' : f \notin DOMAIN data => data'[f] = EmptyFile
  BY <1>3, <1>4 DEF Upd
<1>8. ApartInv'
  <2> SUFFICES ASSUME NEW f \in DOMAIN data' PROVE Disjoint(data'[f])
    BY DEF ApartInv
  <2>1. CASE f = m
    BY <1>6, <1>7, <2>1
  <2>2. CASE f \in DOMAIN data /\ f # m
    BY <1>7, <2>2 DEF BytesInv, ApartInv
  <2>3. CASE f \notin DOMAIN data
    BY <1>7, <2>3 DEF Disjoint, EmptyFile
  <2> QED
    BY <2>1, <2>2, <2>3
<1>9. HandInv'
  BY <1>3, <1>4, ThreadsAssumption DEF HandInv, CoreInv, LockInv
<1>10. ASSUME NEW f, NEW p
       PROVE  InUse(f, p)' <=> InUse(f, p) \/ (f = m /\ p = size)
  <2>1. KeysIn(f)' = KeysIn(f)
    BY <1>4 DEF KeysIn
  <2>2. (\E j \in NewIn(f)' : mnew'[j].pos = p) <=>
          (\E j \in NewIn(f) : mnew[j].pos = p) \/ (f = m /\ p = size)
    <3>1. mnew'[k].fileid = m /\ mnew'[k].pos = size
      BY <1>a, <1>3, <1>4 DEF Upd, MergedEntry
    <3>2. DOMAIN mnew' = DOMAIN mnew \cup {k} /\ \A j \in DOMAIN mnew : mnew'[j] = mnew[j]
      BY <1>3, <1>4 DEF Upd
    <3> QED
      BY <3>1, <3>2 DEF NewIn
  <2> QED
    BY <1>4, <2>1, <2>2 DEF InUse
<1>11. Unused(m)' = Unused(m)
  <2>1. \A q \in data[m].recs : q.pos # size
    BY <1>3 DEF DataFiles, Records, WellFormed, size
  <2> QED
    BY <1>5, <1>7, <1>10, <2>1 DEF Unused
<1>12. AddLive(st).deadBytes = Cardinality(BytesOf(Unused(m)))
  <2>1. CASE m \in DOMAIN stats
    <3>1. st = stats[m] /\ st \in LogStats
      BY <1>3, <2>1 DEF StatsOf
    <3> QED
      BY <1>3, <2>1, <3>1 DEF AddLive, LogStats, BytesInv, DeadInv
  <2>2. CASE m \notin DOMAIN stats
    <3>1. data[m].recs = {}
      BY <1>3, <2>2 DEF TotalInv
    <3>2. Unused(m) = {}
      BY <3>1 DEF Unused
    <3>3. AddLive(st).deadBytes = 0
      BY <2>2 DEF StatsOf, NoStats, AddLive
    <3> QED
      BY <3>2, <3>3, NoBytes
  <2> QED
    BY <2>1, <2>2
<1>13. /\ DOMAIN stats' = DOMAIN stats \cup {m} /\ stats'[m] = AddLive(st)
       /\ \A f \in DOMAIN stats \ {m} : stats'[f] = stats[f]
  BY <1>4 DEF Upd
<1> HIDE DEF st
<1>14. DeadInv'
  <2> SUFFICES ASSUME NEW f \in DOMAIN stats', f \notin mfiles
               PROVE  stats'[f].deadBytes = Cardinality(BytesOf(Unused(f)'))
    BY <1>4 DEF DeadInv, BytesOf
  <2>1. CASE f = m
    BY <1>11, <1>12, <1>13, <2>1
  <2>2. CASE f # m
    <3>1. f \in DOMAIN stats /\ data'[f] = data[f] /\ stats'[f] = stats[f]
      BY <1>3, <1>7, <1>13, <2>2
    <3>2. Unused(f)' = Unused(f)
      BY <1>10, <2>2, <3>1 DEF Unused
    <3> QED
      BY <3>1, <3>2 DEF BytesInv, DeadInv
  <2> QED
    BY <2>1, <2>2
<1> QED
  BY <1>8, <1>9, <1>14 DEF BytesInv

\* Every step keeps the bytes.
LEMMA NextBytes ==
  ASSUME CoreInv, PlaceInv, LiveCount, TotalInv, BytesInv, [Next]_vars
  PROVE  BytesInv'
<1>0. CoreInv'
  BY NextCore
<1>1. ASSUME NEW t \in Threads, NEW r \in Requests, Call(t, r)
      PROVE  BytesInv'
  <2>1. UNCHANGED <<data, keydir, stats, mnew, mfiles>>
    BY <1>1 DEF Call, disk, ctx, writer, merge
  <2>2. \A u \in Threads : (pc'[u] = "index" \/ pc[u] = "index") =>
          pc'[u] = pc[u] /\ req'[u] = req[u] /\ ent'[u] = ent[u]
    BY <1>1 DEF Call, CoreInv, TypeOK
  <2> QED
    BY <2>1, <2>2, QuietBytes
<1>2. ASSUME NEW t \in Threads, GetLookup(t) \/ GetRead(t) \/ Return(t)
      PROVE  BytesInv'
  <2>1. UNCHANGED <<data, keydir, stats, mnew, mfiles>>
    BY <1>2 DEF GetLookup, GetRead, Return, disk, ctx, writer, merge
  <2>2. \A u \in Threads : (pc'[u] = "index" \/ pc[u] = "index") =>
          pc'[u] = pc[u] /\ req'[u] = req[u] /\ ent'[u] = ent[u]
    BY <1>2 DEF GetLookup, GetRead, Return, CoreInv, TypeOK
  <2> QED
    BY <2>1, <2>2, QuietBytes
<1>3. CASE \/ Close \/ MergeTick \/ MergeSkip \/ MergeStop \/ SyncTick \/ SyncActive \/ SyncStop
           \/ UNCHANGED vars
  <2>1. UNCHANGED <<data, keydir, stats, mnew, mfiles, pc, req, ent>>
    BY <1>3 DEF Close, MergeTick, MergeSkip, MergeStop, SyncTick, SyncActive, SyncStop, vars,
                disk, ctx, writer, merge, calls
  <2> QED
    BY <2>1, QuietBytes
<1> QED
  BY <1>0, <1>1, <1>2, <1>3, WriteBytes, IndexBytes, CreateBytes, RemoveBytes, MoveBytes, CopyBytes
     DEF Next, MergeStep

\* The bytes counted as dead are right at every moment, once the entries
\* appended or copied and not yet indexed are added to those in use.
LEMMA BytesInvariant == Spec => []BytesInv
<1>1. Init => BytesInv
  <2> SUFFICES ASSUME Init PROVE BytesInv
    OBVIOUS
  <2>1. /\ DOMAIN stats = {} /\ DOMAIN data = {0} /\ data[0] = EmptyFile
        /\ \A t \in Threads : pc[t] = "idle"
    BY DEF Init, EmptyMap
  <2> QED
    BY <2>1 DEF BytesInv, ApartInv, HandInv, DeadInv, Disjoint, EmptyFile
<1>2. IndInv /\ LiveCount /\ TotalInv /\ BytesInv /\ [Next]_vars => BytesInv'
  BY NextBytes, InvParts
<1> QED
  BY <1>1, <1>2, InvariantHolds, CountInvariant, PTL DEF Spec

\* With nothing appended or copied and not indexed, they are the bytes of the
\* entries that no key points at.
LEMMA BytesMeet ==
  ASSUME CoreInv, BytesInv
  PROVE  DeadBytesExact
<1> SUFFICES ASSUME lock = "none", NEW f \in DOMAIN stats
             PROVE  stats[f].deadBytes =
                      Cardinality(BytesOf({rec \in data[f].recs :
                        rec.pos \notin {keydir[k].pos : k \in KeysIn(f)}}))
  BY DEF DeadBytesExact
<1>1. /\ mfiles = {} /\ DOMAIN mnew = {} /\ \A t \in Threads : pc[t] # "index"
  BY ThreadsAssumption DEF CoreInv, LockInv, CoreMerge
<1>2. \A p : InUse(f, p) <=> p \in {keydir[k].pos : k \in KeysIn(f)}
  BY <1>1 DEF InUse, NewIn
<1>3. Unused(f) = {rec \in data[f].recs : rec.pos \notin {keydir[k].pos : k \in KeysIn(f)}}
  BY <1>2 DEF Unused
<1> QED
  BY <1>1, <1>3 DEF BytesInv, DeadInv

\* Whenever the writer's mutex is free, what a file counts as dead bytes, on
\* which can_merge and fileids_to_merge decide, is what its entries that no key
\* points at take up, for any interleaving of sets, dels and merges.
THEOREM DeadBytesCorrect == Spec => []DeadBytesExact
<1>1. IndInv /\ BytesInv => DeadBytesExact
  BY BytesMeet, InvParts
<1> QED
  BY <1>1, BytesInvariant, InvariantHolds, PTL

=============================================================================
