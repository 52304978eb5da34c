------------------------------ MODULE MappedLog ------------------------------
(***************************************************************************)
(* One data file, byte by byte: the writer appends to it through a         *)
(* BufWriter and the Readers map it (src/src/storage/bitcask/log.rs,       *)
(* bufio.rs).  A map shows the file as long as it was when it was made and *)
(* is renewed only for an entry that begins behind its end.                *)
(*                                                                         *)
(* bincode writes an entry in pieces, one for each field and length, here  *)
(* of any size.  BufWriter hands its bytes on when a piece does not fit    *)
(* and a piece of its own size at once; the file grows by one write(2) at  *)
(* a time.                                                                 *)
(***************************************************************************)
EXTENDS Integers

CONSTANTS
  Readers,
  Capacity,  \* of BufWriter, 8 KiB in std
  Sizes,     \* bytes of an entry
  MaxBytes   \* bound of the model: bytes in the file

ASSUME LogAssumption ==
  /\ Capacity \in Nat \ {0}
  /\ Sizes \subseteq Nat \ {0}
  /\ MaxBytes \in Nat

VARIABLES
  flen,   \* length of the file
  wbuf,   \* bytes in the BufWriter
  pos,    \* BufWriterWithPos.pos
  start,  \* `pos` of LogWriter::append: where the entry begins
  rest,   \* bytes of the entry that bincode has yet to write
  wpc,    \* the writer: "idle", "append" (serializing), "publish" (appended,
          \* not yet in KeyDir)
  index,  \* the positions and lengths that KeyDir holds or has held
  map,    \* reader -> length of its map of this file, NoMap for none
  lost    \* reader -> length of the entry over which it panicked, or 0

lvars == <<flen, wbuf, pos, start, rest, wpc, index, map, lost>>

NoMap == -1

Init ==
  /\ flen = 0 /\ wbuf = 0 /\ pos = 0
  /\ start = 0 /\ rest = 0 /\ wpc = "idle"
  /\ index = {}
  /\ map = [r \in Readers |-> NoMap]
  /\ lost = [r \in Readers |-> 0]

-----------------------------------------------------------------------------
(* LogWriter::append, under the writer's mutex *)

Append(size) ==
  /\ wpc = "idle" /\ pos + size <= MaxBytes
  /\ start' = pos
  /\ rest' = size
  /\ wpc' = "append"
  /\ UNCHANGED <<flen, wbuf, pos, index, map, lost>>

\* BufWriter::write of n bytes: what it keeps, and what it hands on before.
Fits(n)  == wbuf + n <= Capacity
Kept(n)  == IF n >= Capacity THEN 0 ELSE IF Fits(n) THEN wbuf + n ELSE n
Total(n) == flen + wbuf + n

WritePiece(n) ==
  /\ wpc = "append" /\ n <= rest
  /\ wbuf' = Kept(n)
  /\ flen' = Total(n) - Kept(n)
  /\ pos' = pos + n
  /\ rest' = rest - n
  /\ UNCHANGED <<start, wpc, index, map, lost>>

\* Mutant of Flushed: append returns with bytes in the buffer.
NotFlushed == flen' = flen /\ wbuf' = wbuf

Flushed == flen' = flen + wbuf /\ wbuf' = 0

Flush ==
  /\ wpc = "append" /\ rest = 0
  /\ Flushed
  /\ wpc' = "publish"
  /\ UNCHANGED <<pos, start, rest, index, map, lost>>

\* Writer::put and the caller enter the LogIndex in KeyDir.
Publish ==
  /\ wpc = "publish"
  /\ index' = index \cup {[pos |-> start, len |-> pos - start]}
  /\ wpc' = "idle"
  /\ UNCHANGED <<flen, wbuf, pos, start, rest, map, lost>>

-----------------------------------------------------------------------------
(* LogDir::read *)

\* Mutant of MustRenew: an entry right behind the end is taken to be inside.
MustRenewBehind(r, p) == p > map[r]

\* The file is not in the cache, or at() finds pos past the map's end.
MustRenew(r, p) == p >= map[r]

\* The slice start..end of a map that is too short panics, and the Reader is
\* not put back in the queue.
Read(r, i) ==
  /\ lost[r] = 0
  /\ LET len == IF map[r] = NoMap \/ MustRenew(r, i.pos) THEN flen ELSE map[r]
     IN  IF i.pos + i.len <= len
         THEN map' = [map EXCEPT ![r] = len] /\ UNCHANGED lost
         ELSE lost' = [lost EXCEPT ![r] = i.len] /\ UNCHANGED map
  /\ UNCHANGED <<flen, wbuf, pos, start, rest, wpc, index>>

\* The LRU cache drops the map for that of another file.
Evict(r) ==
  /\ lost[r] = 0 /\ map[r] # NoMap
  /\ map' = [map EXCEPT ![r] = NoMap]
  /\ UNCHANGED <<flen, wbuf, pos, start, rest, wpc, index, lost>>

-----------------------------------------------------------------------------

Next ==
  \/ \E size \in Sizes : Append(size)
  \/ \E n \in 1..rest : WritePiece(n)
  \/ Flush \/ Publish
  \/ \E r \in Readers : Evict(r) \/ \E i \in index : Read(r, i)

Spec == Init /\ [][Next]_lvars

-----------------------------------------------------------------------------
(* Properties *)

\* An entry of this length fits in the BufWriter.
Small(len) == len <= Capacity

\* Type invariant.
TypeOK ==
  /\ flen \in Nat /\ wbuf \in Nat /\ pos \in Nat /\ start \in Nat /\ rest \in Nat
  /\ wpc \in {"idle", "append", "publish"}
  /\ index \subseteq [pos : Nat, len : Nat]
  /\ map \in [Readers -> Nat \cup {NoMap}]
  /\ lost \in [Readers -> Nat]

\* The length of the entry that is being appended.
Pending == pos - start + rest

\* Where the writer is: nothing of a small entry is in the file before all is,
\* whereas a larger one reaches it piece by piece.
WriterAt ==
  /\ flen + wbuf = pos
  /\ wpc = "idle" => wbuf = 0
  /\ wpc = "append" => start <= flen /\ (Small(Pending) => flen = start \/ (flen = pos /\ rest = 0))
  /\ wpc = "publish" => wbuf = 0 /\ start <= pos /\ rest = 0

\* No map ends inside a small entry, be it in KeyDir or about to be.
MapsWhole ==
  \A r \in Readers :
    /\ map[r] <= flen
    /\ \A i \in index : Small(i.len) => map[r] <= i.pos \/ i.pos + i.len <= map[r]
    /\ wpc # "idle" /\ Small(Pending) => map[r] <= start \/ map[r] = pos

\* Every entry in KeyDir is in the file.
IndexInFile == \A i \in index : i.pos + i.len <= (IF wpc = "idle" THEN pos ELSE start)

\* A reader that looks a key up finds the whole of a small entry in its map,
\* however long ago the map was made and whatever larger entries are around it
\* ("we can be confident that the Mmap won't be mapped to an invalid segment",
\* reader.rs:35).  A larger entry may begin inside a map and end outside: the
\* read then panics and only those Readers are lost.
ReadsInRange == \A r \in Readers : ~Small(lost[r]) \/ lost[r] = 0

\* The inductive invariant of the proof.
IndInv == TypeOK /\ WriterAt /\ MapsWhole /\ IndexInFile /\ ReadsInRange
=============================================================================
