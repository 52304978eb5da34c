-------------------------- MODULE MappedLogProofs --------------------------
(***************************************************************************)
(* MappedLog's IndInv is inductive for any number of readers, any buffer   *)
(* and entries of any sizes: those that fit in the BufWriter are read      *)
(* whole, whatever larger ones are appended between them.                  *)
(***************************************************************************)
EXTENDS MappedLog, TLAPS

\* No file, buffer or map at the start.
LEMMA InitHolds == Init => IndInv
  BY LogAssumption
  DEF Init, IndInv, TypeOK, WriterAt, MapsWhole, IndexInFile, ReadsInRange, NoMap

\* LogWriter::append begins at the end of the file, with an empty buffer.
LEMMA AppendKeeps ==
  ASSUME IndInv, NEW size \in Sizes, Append(size)
  PROVE  IndInv'
<1>1. size \in Nat
  BY LogAssumption
<1>2. TypeOK'
  BY <1>1 DEF IndInv, TypeOK, Append
<1>3. WriterAt'
  BY <1>1, LogAssumption DEF IndInv, TypeOK, WriterAt, Append
<1>4. MapsWhole'
  BY DEF IndInv, TypeOK, WriterAt, MapsWhole, Append, NoMap
<1>5. IndexInFile' /\ ReadsInRange'
  BY DEF IndInv, TypeOK, IndexInFile, ReadsInRange, Append
<1> QED BY <1>2, <1>3, <1>4, <1>5 DEF IndInv

\* BufWriter keeps a piece, or hands on an entry that is written whole.
LEMMA PieceKeeps ==
  ASSUME IndInv, NEW n \in 1..rest, WritePiece(n)
  PROVE  IndInv'
<1> USE DEF IndInv, TypeOK, WritePiece, Kept, Fits, Total
<1>1. n \in Nat /\ n > 0 /\ n <= rest /\ rest \in Nat /\ Capacity \in Nat
  BY LogAssumption
<1>2. Kept(n) \in Nat /\ flen' \in Nat
  BY <1>1
<1>3. TypeOK'
  BY <1>1, <1>2
<1>p. Pending' = Pending /\ Pending \in Int /\ start <= flen
  BY <1>1 DEF Pending, WriterAt
<1>4. Small(Pending) => flen = start /\ wbuf + n <= Capacity
  BY <1>1 DEF WriterAt, Small, Pending
<1>5. Small(Pending) => flen' = start \/ (flen' = pos' /\ rest' = 0)
  BY <1>1, <1>4 DEF WriterAt, Pending, Small
<1>f. flen <= flen'
  BY <1>1
<1>6. WriterAt'
  BY <1>1, <1>2, <1>p, <1>4, <1>5, <1>f DEF WriterAt, Small
<1>7. MapsWhole'
  <2>2. ASSUME NEW r \in Readers, Small(Pending) PROVE map[r] <= start
    BY <1>1, <1>4, <2>2 DEF MapsWhole, NoMap
  <2>3. ASSUME NEW r \in Readers PROVE map[r] <= flen'
    BY <1>1, <1>2, <1>f DEF MapsWhole, NoMap
  <2> QED BY <1>p, <2>2, <2>3 DEF MapsWhole, Small
<1>8. IndexInFile' /\ ReadsInRange'
  BY DEF IndexInFile, ReadsInRange
<1> QED BY <1>3, <1>6, <1>7, <1>8

\* The rest of the entry reaches the file in one piece.
LEMMA FlushKeeps == IndInv /\ Flush => IndInv'
<1> SUFFICES ASSUME IndInv, Flush PROVE IndInv'
  OBVIOUS
<1> USE DEF IndInv, TypeOK, Flush, Flushed
<1>1. TypeOK' /\ IndexInFile' /\ ReadsInRange'
  BY DEF IndexInFile, ReadsInRange
<1>2. WriterAt'
  BY LogAssumption DEF WriterAt, Small, Pending
<1>3. MapsWhole'
  BY DEF MapsWhole, WriterAt, NoMap, Small, Pending
<1> QED BY <1>1, <1>2, <1>3

\* What KeyDir is given is in the file, and no map ends inside it.
LEMMA PublishKeeps == IndInv /\ Publish => IndInv'
<1> SUFFICES ASSUME IndInv, Publish PROVE IndInv'
  OBVIOUS
<1> DEFINE new == [pos |-> start, len |-> pos - start]
<1> USE DEF IndInv, TypeOK, Publish
<1>1. new.pos = start /\ new.pos + new.len = pos /\ new.len \in Nat
  BY DEF WriterAt
<1>2. TypeOK' /\ ReadsInRange'
  BY <1>1 DEF ReadsInRange
<1>3. WriterAt'
  BY DEF WriterAt
<1>4. MapsWhole'
  <2>1. ASSUME NEW r \in Readers, NEW i \in index'
        PROVE  Small(i.len) => map[r] <= i.pos \/ i.pos + i.len <= map[r]
    <3>1. CASE i \in index
      BY <3>1 DEF MapsWhole
    <3>2. CASE i = new
      BY <1>1, <3>2 DEF MapsWhole, WriterAt, NoMap, Small, Pending
    <3> QED BY <3>1, <3>2
  <2> QED BY <2>1 DEF MapsWhole, Small
<1>5. IndexInFile'
  <2>1. ASSUME NEW i \in index' PROVE i.pos + i.len <= pos
    <3>1. CASE i \in index
      <4>1. i.pos \in Nat /\ i.len \in Nat /\ i.pos + i.len <= start
        BY <3>1 DEF IndexInFile
      <4> QED BY <4>1 DEF WriterAt
    <3>2. CASE i = new
      BY <1>1, <3>2
    <3> QED BY <3>1, <3>2
  <2> QED BY <2>1 DEF IndexInFile
<1> QED BY <1>2, <1>3, <1>4, <1>5

\* A map that is renewed is as long as the file, which ends no small entry
\* early; one that is not is past the entry's beginning, so past its end.
LEMMA ReadKeeps ==
  ASSUME IndInv, NEW r \in Readers, NEW i \in index, Read(r, i)
  PROVE  IndInv'
<1> DEFINE len == IF map[r] = NoMap \/ MustRenew(r, i.pos) THEN flen ELSE map[r]
<1> USE DEF IndInv, TypeOK
<1>1. i.pos \in Nat /\ i.len \in Nat /\ map[r] \in Nat \cup {NoMap}
  OBVIOUS
<1>2. i.pos + i.len <= flen
  BY <1>1 DEF IndexInFile, WriterAt
<1>3. Small(i.len) => i.pos + i.len <= len
  BY <1>1, <1>2 DEF MustRenew, MapsWhole, NoMap
<1>4. UNCHANGED <<flen, wbuf, pos, start, rest, wpc, index>>
  BY DEF Read
<1>5. len \in Nat /\ len <= flen
  BY <1>1 DEF MapsWhole, NoMap
<1>6. \/ map' = [map EXCEPT ![r] = len] /\ UNCHANGED lost
      \/ lost' = [lost EXCEPT ![r] = i.len] /\ UNCHANGED map /\ ~Small(i.len)
  BY <1>3 DEF Read
<1>7. TypeOK'
  BY <1>1, <1>4, <1>5, <1>6
<1>8. WriterAt' /\ IndexInFile'
  BY <1>4 DEF WriterAt, IndexInFile, Pending, Small
<1>9. ReadsInRange'
  BY <1>6 DEF ReadsInRange
<1>10. MapsWhole'
  <2>1. ASSUME NEW j \in index, Small(j.len) PROVE len <= j.pos \/ j.pos + j.len <= len
    <3>1. j.pos \in Nat /\ j.len \in Nat /\ j.pos + j.len <= flen
      BY DEF IndexInFile, WriterAt
    <3> QED BY <1>1, <2>1, <3>1 DEF MapsWhole, NoMap
  <2>2. wpc # "idle" /\ Small(Pending) => len <= start \/ len = pos
    <3>1. wpc # "idle" /\ Small(Pending) => flen <= start \/ flen = pos
      BY DEF WriterAt
    <3> QED BY <1>1, <3>1 DEF MapsWhole, NoMap
  <2>3. ASSUME NEW q \in Readers PROVE map'[q] \in {map[q], len} /\ map[q] <= flen
    BY <1>6 DEF MapsWhole
  <2> QED BY <1>4, <1>5, <2>1, <2>2, <2>3 DEF MapsWhole, Pending, Small
<1> QED BY <1>7, <1>8, <1>9, <1>10

\* A reader without a map has none that ends inside a small entry.
LEMMA EvictKeeps ==
  ASSUME IndInv, NEW r \in Readers, Evict(r)
  PROVE  IndInv'
<1> USE DEF IndInv, TypeOK, Evict
<1>1. TypeOK' /\ WriterAt' /\ IndexInFile' /\ ReadsInRange'
  BY DEF WriterAt, IndexInFile, ReadsInRange, NoMap, Pending, Small
<1>2. MapsWhole'
  BY DEF MapsWhole, NoMap, Pending, Small
<1> QED BY <1>1, <1>2

\* Every step of writer and readers keeps the invariant.
LEMMA NextKeeps == IndInv /\ [Next]_lvars => IndInv'
<1> SUFFICES ASSUME IndInv, [Next]_lvars PROVE IndInv'
  OBVIOUS
<1>1. CASE UNCHANGED lvars
  BY <1>1 DEF lvars, IndInv, TypeOK, WriterAt, MapsWhole, IndexInFile, ReadsInRange, Pending, Small
<1>2. CASE \E size \in Sizes : Append(size)
  BY <1>2, AppendKeeps
<1>3. CASE \E n \in 1..rest : WritePiece(n)
  BY <1>3, PieceKeeps
<1>4. CASE Flush
  BY <1>4, FlushKeeps
<1>5. CASE Publish
  BY <1>5, PublishKeeps
<1>6. CASE \E r \in Readers : Evict(r) \/ \E i \in index : Read(r, i)
  BY <1>6, ReadKeeps, EvictKeeps
<1> QED BY <1>1, <1>2, <1>3, <1>4, <1>5, <1>6 DEF Next

\* Every map ends at the end of an entry that fits in the writer's buffer and
\* is indexed or about to be, or before it, or behind it.
THEOREM InvariantHolds == Spec => []IndInv
<1>1. Init => IndInv
  BY InitHolds
<1>2. IndInv /\ [Next]_lvars => IndInv'
  BY NextKeeps
<1> QED BY <1>1, <1>2, PTL DEF Spec

\* No Reader ever reads past its map for an entry that fits in the writer's
\* buffer, so none panics over one in LogReader::at and is lost to the queue.
THEOREM ReadsSafe == Spec => []ReadsInRange
<1>1. IndInv => ReadsInRange
  BY DEF IndInv
<1> QED BY <1>1, InvariantHolds, PTL
=============================================================================
