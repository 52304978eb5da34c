---------------------------- MODULE BitcaskReopen ----------------------------
(***************************************************************************)
(* A directory that is opened again in the process that has just dropped   *)
(* its Bitcask.  Dropping does not join the background thread: a merge     *)
(* that had begun goes on, and the Writer is dropped when the tasks let go *)
(* of their handles, all while Bitcask::open rebuilds the second KeyDir.   *)
(*                                                                         *)
(* Bitcask is the first instance; what is here of the second is its        *)
(* opening.  A file is read in one step: an append it does not see could   *)
(* as well come later, and a file removed meanwhile stays readable.        *)
(***************************************************************************)
EXTENDS Bitcask

VARIABLES
  phase,    \* the second instance: "none", "rebuild", "open" or "failed"
  todo,     \* ids of the data files rebuild_storage has yet to read
  latest,   \* the highest id among those read, -1 for none
  index,    \* the KeyDir of the second instance
  gone      \* the first Writer has been dropped

second == <<phase, todo, latest, index>>

ReopenInit ==
  /\ Init
  /\ phase = "none" /\ todo = {} /\ latest = -1 /\ index = EmptyMap
  /\ gone = FALSE

\* Mutant of SecondActive: the latest file is taken for the active one.
SecondActiveReused == latest

\* The id of the second instance's active file.
SecondActive == latest + 1

-----------------------------------------------------------------------------
(* The first instance *)

\* create_new fails where the second instance has created the file.
Taken(f) == phase = "open" /\ f = SecondActive

FirstRuns ==
  /\ ~gone /\ Next
  /\ Taken(mid') => mid' = mid
  /\ Taken(active') => active' = active
  /\ UNCHANGED <<second, gone>>

\* The merge returns with the error, and the mutex is released.
MergeFails ==
  /\ mpc' = "sleep" /\ lock' = "none"
  /\ mfiles' = {} /\ mtodo' = {} /\ mid' = 0 /\ mpos' = 0 /\ mnew' = EmptyMap
  /\ UNCHANGED <<files, synced, ctx, stats, written, rds, calls, spc, bounds, second, gone>>

\* The file that Writer::merge is to create first, next or last is taken.
\* new_active_datafile has set active_fileid by then.
FirstCollides ==
  \/ /\ mpc = "wait" /\ lock = "none" /\ Taken(NextFileid)
     /\ {hour \in 0..23 : CanMerge(hour)} # {}
     /\ MergeFails /\ UNCHANGED <<data, hint, active>>
  \/ /\ mpc = "merge" /\ Taken(mid + 1)
     /\ \E k \in mtodo : /\ \A j \in mtodo : k <= j
                         /\ MergeExceeds(keydir[k].len)
                         /\ \E rec \in CopySource(k) :
                              data' = Upd(data, mid, AppendEntry(data[mid], rec.key, rec.val, rec.len))
                         /\ hint' = Upd(hint, mid, Append(hint[mid], HintEntry(k, keydir[k])))
     /\ MergeFails /\ UNCHANGED active
  \/ /\ Removing /\ mfiles = {} /\ Taken(mid + 1)
     /\ active' = mid + 1
     /\ MergeFails /\ UNCHANGED <<data, hint>>

\* Mutant of DropRemoves: the active file is removed with what is in it.
DropRemovesAll == {active}

\* What Writer::drop removes: the active file, if nothing was written to it.
DropRemoves == IF written = 0 THEN {active} ELSE {}

\* Writer::drop, once the tasks have stopped and no thread holds a Handle.
FirstDropped ==
  /\ ~gone /\ closed /\ mpc = "stopped" /\ spc = "stopped"
  /\ \A t \in Threads : pc[t] = "idle"
  /\ gone' = TRUE
  /\ files' = files \ DropRemoves
  /\ UNCHANGED <<data, hint, synced, ctx, writer, rds, calls, merge, spc, bounds, second>>

-----------------------------------------------------------------------------
(* The second instance *)

\* The caller has dropped the first one and its calls have returned.
OpenBegin ==
  /\ phase = "none" /\ closed
  /\ \A t \in Threads : pc[t] = "idle"
  /\ phase' = "rebuild" /\ todo' = files
  /\ UNCHANGED <<vars, latest, index, gone>>

Entry(f, r) == [fileid |-> f, pos |-> r.pos, len |-> r.len]

\* Mutant of LastOf: the first entry of a key counts.
FirstOf(S) == CHOOSE r \in S : \A s \in S : r.pos <= s.pos

\* The last of the entries S of a key in one file.
LastOf(S) == CHOOSE r \in S : \A s \in S : s.pos <= r.pos

\* The KeyDir after populate_keydir_with_hintfile, which has a key only once.
WithHints(f) ==
  LET hints == Range(hint[f])
      keys  == {h.key : h \in hints}
  IN  [k \in DOMAIN index \cup keys |->
         IF k \in keys THEN Entry(f, CHOOSE h \in hints : h.key = k) ELSE index[k]]

\* The KeyDir after populate_keydir_with_datafile: of each key in the file the
\* last entry counts.
WithData(f) ==
  LET of(k) == {rec \in data[f].recs : rec.key = k}
      set   == {k \in Keys : of(k) # {} /\ LastOf(of(k)).val # NoValue}
      kept  == {k \in DOMAIN index : of(k) = {}}
  IN  [k \in set \cup kept |-> IF k \in set THEN Entry(f, LastOf(of(k))) ELSE index[k]]

\* One turn of the loop of rebuild_storage: the hint file or, where there is
\* none, the data file is read.
ScanFile ==
  /\ phase = "rebuild"
  /\ \E f \in todo :
       /\ \A g \in todo : f <= g
       /\ f \in files
       /\ index' = IF f \in DOMAIN hint THEN WithHints(f) ELSE WithData(f)
       /\ todo' = todo \ {f} /\ latest' = f
  /\ UNCHANGED <<vars, phase, gone>>

\* Neither file is there any more: rebuild_storage returns the error.
ScanFails ==
  /\ phase = "rebuild"
  /\ \E f \in todo : (\A g \in todo : f <= g) /\ f \notin files
  /\ phase' = "failed"
  /\ UNCHANGED <<vars, todo, latest, index, gone>>

\* The active file is created, unless the first instance has done so.
OpenFinish ==
  /\ phase = "rebuild" /\ todo = {}
  /\ \/ /\ SecondActive \notin files
        /\ phase' = "open"
        /\ files' = files \cup {SecondActive}
        /\ data' = Upd(data, SecondActive, EmptyFile)
        /\ synced' = Upd(synced, SecondActive, 0)
     \/ /\ SecondActive \in files
        /\ phase' = "failed"
        /\ UNCHANGED <<files, data, synced>>
  /\ UNCHANGED <<hint, ctx, writer, rds, calls, merge, spc, bounds, todo, latest, index, gone>>

-----------------------------------------------------------------------------

ReopenNext ==
  \/ FirstRuns \/ FirstCollides \/ FirstDropped
  \/ OpenBegin \/ ScanFile \/ ScanFails \/ OpenFinish

ReopenSpec == ReopenInit /\ [][ReopenNext]_<<vars, second, gone>>

-----------------------------------------------------------------------------
(* Properties *)

\* As long as no merge has begun, a second instance that could be opened has
\* the KeyDir that the first one had, and its active file is not the one that
\* the late drop of the first Writer removes.
ReopenedAlike == nmerges = 0 /\ phase = "open" => index = keydir /\ SecondActive \in files

\* However the two race, and wherever a merge is cut short by the files of
\* the other, no entry is lost: the values of the first KeyDir are still in
\* files of the directory, for a later opening to find.
EntriesKept == KeydirValid

\* As long as no merge has begun, opening fails for one reason only: the late
\* drop of the first Writer has removed the empty active file, which had
\* been listed.
OpensUnlessEmptied == nmerges = 0 /\ phase = "failed" => gone /\ written = 0
=============================================================================
