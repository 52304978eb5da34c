---------------------------- MODULE ServiceProofs ----------------------------
(***************************************************************************)
(* Proofs about the client library and the handlers, for any number of     *)
(* sessions, any calls and any number of frames under way: Service         *)
(* implements RemoteStore.                                                 *)
(***************************************************************************)
EXTENDS Service, SequenceTheorems, TLAPS

Stored == Values \cup {NoValue}

StorageOps == [op : {"set", "get", "del"}, key : Keys, val : Stored]

\* What a handler answers, and the frames it sends.
Answers == {<<"ok">>} \cup {<<"count", n>> : n \in Nat} \cup {<<"value", v>> : v \in Stored}
Responses == {ResponseFrame(a) : a \in Answers}

\* What clients send.
Frames == UNION {{ToFrame(r) : r \in Calls[s]} : s \in Sessions}

TypeOK ==
  /\ store \in [Keys -> Stored]
  /\ link \in [Sessions -> {"none", "open", "closed"}]
  /\ st \in [Sessions -> {"idle", "waiting"}]
  /\ call \in [Sessions -> {NoCall} \cup UNION {Calls[s] : s \in Sessions}]
  /\ DOMAIN result = Sessions /\ result = [s \in Sessions |-> result[s]]
  /\ up \in [Sessions -> Seq(Frames)]
  /\ down \in [Sessions -> Seq(Responses)]
  /\ hpc \in [Sessions -> {"none", "read", "apply"}]
  /\ todo \in [Sessions -> Seq(StorageOps)]
  /\ answer \in [Sessions -> Answers \cup {<<"none">>}]
  /\ stray \in [Sessions -> BOOLEAN]

-----------------------------------------------------------------------------
(* Commands and their operations *)

\* An element in front of a sequence.
LEMMA Cons ==
  ASSUME NEW S, NEW x \in S, NEW t \in Seq(S)
  PROVE  /\ <<x>> \o t \in Seq(S) /\ <<x>> \o t # <<>>
         /\ Head(<<x>> \o t) = x /\ Tail(<<x>> \o t) = t
         /\ Len(<<x>> \o t) = Len(t) + 1
<1> DEFINE c == <<x>> \o t
<1>1. <<x>> \in Seq(S) /\ Len(<<x>>) = 1 /\ <<x>>[1] = x
  OBVIOUS
<1>2. /\ c \in Seq(S) /\ Len(c) = 1 + Len(t)
      /\ \A i \in 1 .. 1 + Len(t) : c[i] = IF i <= 1 THEN x ELSE t[i - 1]
  BY <1>1, ConcatProperties
<1>3. Len(t) \in Nat
  BY LenProperties
<1> HIDE DEF c
<1>4. c # <<>>
  BY <1>2, <1>3
<1>5. Head(c) = x
  BY <1>2, <1>3, <1>4
<1>6. /\ Tail(c) \in Seq(S) /\ Len(Tail(c)) = Len(t)
      /\ \A i \in 1 .. Len(t) : Tail(c)[i] = t[i]
  BY <1>2, <1>3, <1>4, HeadTailProperties
<1>7. Tail(c) = t
  BY <1>6, SeqEqual
<1>8. QED
  BY <1>2, <1>3, <1>4, <1>5, <1>7 DEF c

\* A sequence of one element.
LEMMA AppendFirst ==
  ASSUME NEW x
  PROVE  /\ Append(<<>>, x) = <<x>>
         /\ <<x>> # <<>> /\ Head(<<x>>) = x /\ Tail(<<x>>) = <<>>
OBVIOUS

\* What a call's frame is parsed to are the operations of the call.
LEMMA CallParsed ==
  ASSUME NEW s \in Sessions, NEW r \in Calls[s]
  PROVE  ParseCommand(ToFrame(r)) = Remote!Ops(r)
<1>1. CASE r.op = "set" /\ r.key \in Keys /\ r.val \in Values
  <2>1. ToFrame(r) = <<"array", <<Bulk("SET"), Bulk(r.key), Bulk(r.val)>>>>
    BY <1>1 DEF ToFrame, SetFrame
  <2>2. ParseCommand(ToFrame(r)) = ParseArgs(Bulk("SET"), <<Bulk(r.key), Bulk(r.val)>>)
    BY <2>1 DEF ParseCommand
  <2>3. QED
    BY <1>1, <2>2, KeysAssumption DEF ParseArgs, Bulk, IsString, IsBytes, Remote!Ops, SetOp
<1>2. CASE r.op = "get" /\ r.key \in Keys
  <2>1. ToFrame(r) = <<"array", <<Bulk("GET"), Bulk(r.key)>>>>
    BY <1>2 DEF ToFrame, GetFrame
  <2>2. ParseCommand(ToFrame(r)) = ParseArgs(Bulk("GET"), <<Bulk(r.key)>>)
    BY <2>1 DEF ParseCommand
  <2>3. QED
    BY <1>2, <2>2, KeysAssumption DEF ParseArgs, Bulk, IsString, IsBytes, Remote!Ops, GetOp
<1>3. CASE r.op = "del" /\ r.keys \in Seq(Keys)
  <2> DEFINE args == [i \in DOMAIN r.keys |-> Bulk(r.keys[i])]
             items == {Bulk("DEL")} \cup {Bulk(k) : k \in Keys}
  <2>1. ToFrame(r) = <<"array", <<Bulk("DEL")>> \o args>>
    BY <1>3 DEF ToFrame, DelFrame
  <2>2. /\ DOMAIN r.keys = 1 .. Len(r.keys) /\ Len(r.keys) \in Nat
        /\ \A i \in DOMAIN r.keys : r.keys[i] \in Keys
    BY <1>3, LenProperties
  <2>3. args \in Seq(items) /\ DOMAIN args = DOMAIN r.keys /\ Len(args) = Len(r.keys)
    BY <2>2
  <2>4. \A i \in DOMAIN args : args[i] = Bulk(r.keys[i])
    OBVIOUS
  <2> HIDE DEF args
  <2>5. ParseCommand(ToFrame(r)) = ParseArgs(Bulk("DEL"), args)
    <3> DEFINE all == <<Bulk("DEL")>> \o args
    <3>1. all # <<>> /\ Head(all) = Bulk("DEL") /\ Tail(all) = args
      BY <2>3, Cons
    <3>2. ToFrame(r)[1] = "array" /\ ToFrame(r)[2] = all
      BY <2>1
    <3> HIDE DEF all
    <3>3. QED
      BY <3>1, <3>2 DEF ParseCommand
  <2>6. \A i \in DOMAIN args : IsString(args[i]) /\ args[i][2] = r.keys[i]
    BY <2>2, <2>3, <2>4, KeysAssumption DEF IsString, IsBytes, Bulk
  <2>7. CASE Len(args) > 0
    <3>1. ParseArgs(Bulk("DEL"), args) = [i \in DOMAIN args |-> DelOp(args[i][2])]
      BY <2>6, <2>7 DEF ParseArgs, Bulk
    <3>2. Remote!Ops(r) = [i \in DOMAIN r.keys |-> DelOp(r.keys[i])]
      BY <1>3 DEF Remote!Ops, DelOp
    <3>3. QED
      BY <2>3, <2>5, <2>6, <3>1, <3>2
  <2>8. CASE Len(args) = 0
    <3>1. ParseArgs(Bulk("DEL"), args) = <<>>
      BY <2>8 DEF ParseArgs, Bulk
    <3>2. Remote!Ops(r) = [i \in DOMAIN r.keys |-> DelOp(r.keys[i])]
      BY <1>3 DEF Remote!Ops, DelOp
    <3>3. Remote!Ops(r) = <<>>
      <4>1. DOMAIN r.keys = {}
        BY <2>2, <2>3, <2>8
      <4>2. QED
        BY <3>2, <4>1
    <3>4. QED
      BY <2>5, <3>1, <3>3
  <2>9. QED
    BY <2>2, <2>3, <2>7, <2>8
<1>4. CASE r.op = "raw" /\ ParseCommand(r.frame) = <<>>
  BY <1>4 DEF ToFrame, Remote!Ops
<1>5. QED
  BY <1>1, <1>2, <1>3, <1>4, CallsAssumption

Commands == Seq(StorageOps)

\* The operations of a call are storage operations, all of the call's kind.
LEMMA OpsTyped ==
  ASSUME NEW s \in Sessions, NEW r \in Calls[s]
  PROVE  /\ Remote!Ops(r) \in Commands
         /\ \A i \in DOMAIN Remote!Ops(r) : Remote!Ops(r)[i].op = r.op
         /\ Remote!Ops(r) # <<>> => r.op \in {"set", "get", "del"}
<1>1. CASE r.op = "set" /\ r.key \in Keys /\ r.val \in Values
  <2>1. Remote!Ops(r) = <<[op |-> "set", key |-> r.key, val |-> r.val]>>
    BY <1>1 DEF Remote!Ops
  <2>2. [op |-> "set", key |-> r.key, val |-> r.val] \in StorageOps
    BY <1>1 DEF StorageOps, Stored
  <2>3. QED
    BY <1>1, <2>1, <2>2 DEF Commands
<1>2. CASE r.op = "get" /\ r.key \in Keys
  <2>1. Remote!Ops(r) = <<[op |-> "get", key |-> r.key, val |-> NoValue]>>
    BY <1>2 DEF Remote!Ops
  <2>2. [op |-> "get", key |-> r.key, val |-> NoValue] \in StorageOps
    BY <1>2 DEF StorageOps, Stored
  <2>3. QED
    BY <1>2, <2>1, <2>2 DEF Commands
<1>3. CASE r.op = "del" /\ r.keys \in Seq(Keys)
  <2>1. Remote!Ops(r) = [i \in DOMAIN r.keys |-> [op |-> "del", key |-> r.keys[i], val |-> NoValue]]
    BY <1>3 DEF Remote!Ops
  <2>2. /\ DOMAIN r.keys = 1 .. Len(r.keys) /\ Len(r.keys) \in Nat
        /\ \A i \in DOMAIN r.keys : r.keys[i] \in Keys
    BY <1>3, LenProperties
  <2>3. \A i \in DOMAIN r.keys : [op |-> "del", key |-> r.keys[i], val |-> NoValue] \in StorageOps
    BY <2>2 DEF StorageOps, Stored
  <2>4. Remote!Ops(r) \in [1 .. Len(r.keys) -> StorageOps]
    BY <2>1, <2>2, <2>3
  <2>5. Remote!Ops(r) \in Commands
    BY <2>2, <2>4, SeqDef DEF Commands
  <2>6. \A i \in DOMAIN Remote!Ops(r) : Remote!Ops(r)[i].op = "del"
    BY <2>1
  <2>7. QED
    BY <1>3, <2>5, <2>6
<1>4. CASE r.op = "raw"
  BY <1>4 DEF Remote!Ops, Commands
<1>5. QED
  BY <1>1, <1>2, <1>3, <1>4, CallsAssumption

\* What clients send is parsed to commands.
LEMMA FrameParsed ==
  ASSUME NEW f \in Frames
  PROVE  ParseCommand(f) \in Commands
<1>1. PICK s \in Sessions : \E r \in Calls[s] : f = ToFrame(r)
  BY DEF Frames
<1>2. PICK r \in Calls[s] : f = ToFrame(r)
  BY <1>1
<1>3. QED
  BY <1>2, CallParsed, OpsTyped

-----------------------------------------------------------------------------
(* The commands under way *)

\* Frames are parsed to commands, one for each frame.
LEMMA ParsedSeq ==
  ASSUME NEW u \in Seq(Frames)
  PROVE  /\ Parsed(u) \in Seq(Commands) /\ Len(Parsed(u)) = Len(u)
         /\ \A i \in 1 .. Len(u) : Parsed(u)[i] = ParseCommand(u[i])
<1>1. Len(u) \in Nat /\ DOMAIN u = 1 .. Len(u) /\ \A i \in DOMAIN u : u[i] \in Frames
  BY LenProperties
<1>2. \A i \in 1 .. Len(u) : ParseCommand(u[i]) \in Commands
  BY <1>1, FrameParsed
<1>3. Parsed(u) \in [1 .. Len(u) -> Commands]
  BY <1>1, <1>2 DEF Parsed
<1>4. Parsed(u) \in Seq(Commands) /\ DOMAIN Parsed(u) = 1 .. Len(u)
  BY <1>1, <1>3, SeqDef
<1>5. QED
  BY <1>1, <1>4 DEF Parsed

\* The commands of the frames under way when one is sent, ...
LEMMA ParsedAppend ==
  ASSUME NEW u \in Seq(Frames), NEW f \in Frames
  PROVE  Parsed(Append(u, f)) = Append(Parsed(u), ParseCommand(f))
<1>1. /\ Append(u, f) \in Seq(Frames) /\ Len(Append(u, f)) = Len(u) + 1
      /\ \A i \in 1 .. Len(u) : Append(u, f)[i] = u[i]
      /\ Append(u, f)[Len(u) + 1] = f
  BY AppendProperties
<1>2. ParseCommand(f) \in Commands
  BY FrameParsed
<1>3. /\ Append(Parsed(u), ParseCommand(f)) \in Seq(Commands)
      /\ Len(Append(Parsed(u), ParseCommand(f))) = Len(u) + 1
      /\ \A i \in 1 .. Len(u) : Append(Parsed(u), ParseCommand(f))[i] = Parsed(u)[i]
      /\ Append(Parsed(u), ParseCommand(f))[Len(u) + 1] = ParseCommand(f)
  BY <1>2, ParsedSeq, AppendProperties
<1>4. /\ Parsed(Append(u, f)) \in Seq(Commands) /\ Len(Parsed(Append(u, f))) = Len(u) + 1
      /\ \A i \in 1 .. Len(u) + 1 : Parsed(Append(u, f))[i] = ParseCommand(Append(u, f)[i])
  BY <1>1, ParsedSeq
<1>5. Len(u) \in Nat
  BY LenProperties
<1>6. \A i \in 1 .. Len(u) + 1 : Parsed(Append(u, f))[i] = Append(Parsed(u), ParseCommand(f))[i]
  BY <1>1, <1>3, <1>4, <1>5, ParsedSeq
<1>7. QED
  BY <1>3, <1>4, <1>6, SeqEqual

\* ... when the first is read, ...
LEMMA ParsedTail ==
  ASSUME NEW u \in Seq(Frames), u # <<>>
  PROVE  Parsed(u) = <<ParseCommand(Head(u))>> \o Parsed(Tail(u))
<1>1. /\ Head(u) \in Frames /\ Tail(u) \in Seq(Frames) /\ Len(Tail(u)) = Len(u) - 1
      /\ \A i \in 1 .. Len(Tail(u)) : Tail(u)[i] = u[i + 1]
  BY HeadTailProperties
<1>2. Len(u) \in Nat \ {0} /\ Head(u) = u[1]
  BY EmptySeq
<1>3. ParseCommand(Head(u)) \in Commands
  BY <1>1, FrameParsed
<1> DEFINE h == <<ParseCommand(Head(u))>>
           c == h \o Parsed(Tail(u))
<1>4. h \in Seq(Commands) /\ Len(h) = 1 /\ h[1] = ParseCommand(Head(u))
  BY <1>3
<1>5. /\ Parsed(Tail(u)) \in Seq(Commands) /\ Len(Parsed(Tail(u))) = Len(u) - 1
      /\ \A i \in 1 .. Len(u) - 1 : Parsed(Tail(u))[i] = ParseCommand(u[i + 1])
  BY <1>1, <1>2, ParsedSeq
<1>6. /\ c \in Seq(Commands) /\ Len(c) = Len(u)
      /\ \A i \in 1 .. Len(u) : c[i] = IF i <= 1 THEN h[i] ELSE Parsed(Tail(u))[i - 1]
  BY <1>2, <1>4, <1>5, ConcatProperties
<1> HIDE DEF h, c
<1>7. ASSUME NEW i \in 1 .. Len(u) PROVE c[i] = Parsed(u)[i]
  <2>1. Parsed(u)[i] = ParseCommand(u[i])
    BY ParsedSeq
  <2>2. CASE i = 1
    BY <1>2, <1>4, <1>6, <2>1, <2>2
  <2>3. CASE i > 1
    <3>1. i - 1 \in 1 .. Len(u) - 1 /\ (i - 1) + 1 = i
      BY <1>2, <2>3
    <3>2. QED
      BY <1>2, <1>5, <1>6, <2>1, <2>3, <3>1
  <2>4. QED
    BY <1>2, <2>2, <2>3
<1>8. c = Parsed(u)
  BY <1>6, <1>7, ParsedSeq, SeqEqual
<1>9. QED
  BY <1>8 DEF c, h

\* ... and when they are lost from some point on.
LEMMA ParsedCut ==
  ASSUME NEW u \in Seq(Frames), NEW n \in 0 .. Len(u)
  PROVE  SubSeq(u, 1, n) \in Seq(Frames) /\ Parsed(SubSeq(u, 1, n)) = SubSeq(Parsed(u), 1, n)
<1>1. Len(u) \in Nat /\ \A i \in 1 .. Len(u) : u[i] \in Frames
  BY LenProperties, ElementOfSeq
<1>2. /\ SubSeq(u, 1, n) \in Seq(Frames) /\ Len(SubSeq(u, 1, n)) = n
      /\ \A i \in 1 .. n : SubSeq(u, 1, n)[i] = u[i]
  BY <1>1, SubSeqProperties
<1>3. \A i \in 1 .. n : Parsed(u)[i] \in Commands
  BY <1>1, ParsedSeq, ElementOfSeq
<1>4. /\ SubSeq(Parsed(u), 1, n) \in Seq(Commands) /\ Len(SubSeq(Parsed(u), 1, n)) = n
      /\ \A i \in 1 .. n : SubSeq(Parsed(u), 1, n)[i] = Parsed(u)[i]
  BY <1>1, <1>3, SubSeqProperties
<1>5. /\ Parsed(SubSeq(u, 1, n)) \in Seq(Commands) /\ Len(Parsed(SubSeq(u, 1, n))) = n
      /\ \A i \in 1 .. n : Parsed(SubSeq(u, 1, n))[i] = ParseCommand(SubSeq(u, 1, n)[i])
  BY <1>2, ParsedSeq
<1>6. \A i \in 1 .. n : Parsed(SubSeq(u, 1, n))[i] = SubSeq(Parsed(u), 1, n)[i]
  BY <1>1, <1>2, <1>4, <1>5, ParsedSeq
<1>7. Parsed(SubSeq(u, 1, n)) = SubSeq(Parsed(u), 1, n)
  BY <1>4, <1>5, <1>6, SeqEqual
<1>8. QED
  BY <1>2, <1>7

\* The commands of a session that has none in hand.
LEMMA PendingNone ==
  ASSUME NEW u \in Seq(Frames)
  PROVE  Pending(<<>>, u) = Parsed(u)
BY ParsedSeq, ConcatEmptySeq DEF Pending

\* The command in hand comes first.
LEMMA PendingFirst ==
  ASSUME NEW ops \in Commands, ops # <<>>, NEW u \in Seq(Frames)
  PROVE  /\ Pending(ops, u) = <<ops>> \o Parsed(u) /\ Pending(ops, u) # <<>>
         /\ Head(Pending(ops, u)) = ops /\ Tail(Pending(ops, u)) = Parsed(u)
<1>1. Pending(ops, u) = <<ops>> \o Parsed(u)
  BY DEF Pending
<1>2. QED
  BY <1>1, ParsedSeq, Cons

\* They are a sequence of commands, empty if none is in hand or under way.
LEMMA PendingSeq ==
  ASSUME NEW ops \in Commands, NEW u \in Seq(Frames)
  PROVE  /\ Pending(ops, u) \in Seq(Commands) /\ Len(Pending(ops, u)) \in Nat
         /\ ops = <<>> /\ u = <<>> => Pending(ops, u) = <<>>
<1>1. CASE ops = <<>>
  <2>1. Pending(ops, u) = Parsed(u)
    BY <1>1, PendingNone
  <2>2. u = <<>> => Len(Parsed(u)) = 0
    BY ParsedSeq
  <2>3. u = <<>> => Parsed(u) = <<>>
    BY <2>2, ParsedSeq, EmptySeq
  <2>4. QED
    BY <2>1, <2>3, ParsedSeq, LenProperties
<1>2. CASE ops # <<>>
  <2>1. Pending(ops, u) = <<ops>> \o Parsed(u)
    BY <1>2, PendingFirst
  <2>2. <<ops>> \o Parsed(u) \in Seq(Commands)
    BY ParsedSeq, Cons
  <2>3. QED
    BY <1>2, <2>1, <2>2, LenProperties
<1>3. QED
  BY <1>1, <1>2

\* A call adds its command.
LEMMA PendingAppend ==
  ASSUME NEW ops \in Commands, NEW u \in Seq(Frames), NEW f \in Frames
  PROVE  Pending(ops, Append(u, f)) = Append(Pending(ops, u), ParseCommand(f))
<1>1. Append(u, f) \in Seq(Frames) /\ ParseCommand(f) \in Commands
  BY AppendProperties, FrameParsed
<1>2. CASE ops = <<>>
  BY <1>1, <1>2, PendingNone, ParsedAppend
<1>3. CASE ops # <<>>
  <2> DEFINE c == ParseCommand(f)
  <2>1. <<ops>> \in Seq(Commands) /\ <<c>> \in Seq(Commands) /\ Parsed(u) \in Seq(Commands)
    BY <1>1, ParsedSeq
  <2>2. Pending(ops, Append(u, f)) = <<ops>> \o Append(Parsed(u), c)
    BY <1>1, <1>3, PendingFirst, ParsedAppend
  <2>3. Append(Parsed(u), c) = Parsed(u) \o <<c>>
    BY <1>1, <2>1, AppendIsConcat
  <2>4. Append(Pending(ops, u), c) = (<<ops>> \o Parsed(u)) \o <<c>>
    <3>1. Append(Pending(ops, u), c) = Pending(ops, u) \o <<c>>
      BY <1>1, PendingSeq, AppendIsConcat
    <3>2. QED
      BY <1>3, <3>1, PendingFirst
  <2>5. QED
    BY <2>1, <2>2, <2>3, <2>4, ConcatAssociative
<1>4. QED
  BY <1>2, <1>3

\* A command that is read stays the next one.
LEMMA PendingNext ==
  ASSUME NEW u \in Seq(Frames), u # <<>>, ParseCommand(Head(u)) # <<>>
  PROVE  /\ ParseCommand(Head(u)) \in Commands /\ Tail(u) \in Seq(Frames)
         /\ Pending(ParseCommand(Head(u)), Tail(u)) = Pending(<<>>, u)
<1>1. Head(u) \in Frames /\ Tail(u) \in Seq(Frames)
  BY HeadTailProperties
<1>2. ParseCommand(Head(u)) \in Commands
  BY <1>1, FrameParsed
<1>3. QED
  BY <1>1, <1>2, PendingFirst, PendingNone, ParsedTail

\* An operation that is done is no longer pending.
LEMMA PendingRest ==
  ASSUME NEW ops \in Commands, ops # <<>>, NEW u \in Seq(Frames)
  PROVE  Pending(Tail(ops), u) = Remote!Rest(Pending(ops, u))
<1>1. Tail(ops) \in Commands
  BY HeadTailProperties DEF Commands
<1>2. Head(Pending(ops, u)) = ops /\ Tail(Pending(ops, u)) = Parsed(u)
  BY PendingFirst
<1>3. CASE Tail(ops) = <<>>
  BY <1>2, <1>3, PendingNone DEF Remote!Rest
<1>4. CASE Tail(ops) # <<>>
  BY <1>1, <1>2, <1>4, PendingFirst DEF Remote!Rest
<1>5. QED
  BY <1>3, <1>4

\* Frames that are lost from some point on take their commands with them.
LEMMA PendingCut ==
  ASSUME NEW ops \in Commands, NEW u \in Seq(Frames), NEW n \in 0 .. Len(u)
  PROVE  /\ SubSeq(u, 1, n) \in Seq(Frames)
         /\ \E m \in 0 .. Len(Pending(ops, u)) :
              Pending(ops, SubSeq(u, 1, n)) = SubSeq(Pending(ops, u), 1, m)
<1>1. SubSeq(u, 1, n) \in Seq(Frames) /\ Parsed(SubSeq(u, 1, n)) = SubSeq(Parsed(u), 1, n)
  BY ParsedCut
<1>2. Len(u) \in Nat
  BY LenProperties
<1>3. CASE ops = <<>>
  <2>1. Pending(ops, u) = Parsed(u) /\ Pending(ops, SubSeq(u, 1, n)) = Parsed(SubSeq(u, 1, n))
    BY <1>1, <1>3, PendingNone
  <2>2. n \in 0 .. Len(Pending(ops, u))
    BY <2>1, ParsedSeq
  <2>3. QED
    BY <1>1, <2>1, <2>2
<1>4. CASE ops # <<>>
  <2> DEFINE p == Pending(ops, u)
  <2>1. /\ p = <<ops>> \o Parsed(u)
        /\ Pending(ops, SubSeq(u, 1, n)) = <<ops>> \o SubSeq(Parsed(u), 1, n)
    BY <1>1, <1>4, PendingFirst
  <2>2. /\ Parsed(u) \in Seq(Commands) /\ Len(Parsed(u)) = Len(u)
        /\ <<ops>> \in Seq(Commands) /\ Len(<<ops>>) = 1 /\ <<ops>>[1] = ops
    BY ParsedSeq
  <2>3. /\ p \in Seq(Commands) /\ Len(p) = Len(u) + 1
        /\ \A i \in 1 .. Len(u) + 1 : p[i] = IF i <= 1 THEN ops ELSE Parsed(u)[i - 1]
    <3> DEFINE o == <<ops>>
               q == Parsed(u)
    <3>1. o \in Seq(Commands) /\ Len(o) = 1 /\ o[1] = ops
      BY <2>2
    <3>2. q \in Seq(Commands) /\ Len(q) = Len(u)
      BY <2>2
    <3> HIDE DEF o, q
    <3>3. /\ o \o q \in Seq(Commands) /\ Len(o \o q) = Len(u) + 1
          /\ \A i \in 1 .. Len(u) + 1 : (o \o q)[i] = IF i <= 1 THEN o[i] ELSE q[i - 1]
      <4>1. /\ o \o q \in Seq(Commands) /\ Len(o \o q) = Len(o) + Len(q)
            /\ \A i \in 1 .. Len(o) + Len(q) : (o \o q)[i] = IF i <= Len(o) THEN o[i] ELSE q[i - Len(o)]
        BY <3>1, <3>2, ConcatProperties
      <4>2. Len(o) + Len(q) = Len(u) + 1
        BY <1>2, <3>1, <3>2
      <4>3. QED
        BY <3>1, <4>1, <4>2
    <3>4. \A i \in 1 .. Len(u) + 1 : (o \o q)[i] = IF i <= 1 THEN ops ELSE q[i - 1]
      BY <1>2, <3>1, <3>3
    <3>5. QED
      BY <2>1, <3>3, <3>4 DEF o, q
  <2> HIDE DEF p
  <2>4. /\ SubSeq(p, 1, n + 1) \in Seq(Commands) /\ Len(SubSeq(p, 1, n + 1)) = n + 1
        /\ \A i \in 1 .. n + 1 : SubSeq(p, 1, n + 1)[i] = p[i]
    <3>1. \A i \in 1 .. n + 1 : p[i] \in Commands
      BY <1>2, <2>3, ElementOfSeq
    <3>2. QED
      BY <1>2, <3>1, SubSeqProperties
  <2> DEFINE cut == SubSeq(Parsed(u), 1, n)
  <2>5. /\ cut \in Seq(Commands) /\ Len(cut) = n /\ \A i \in 1 .. n : cut[i] = Parsed(u)[i]
    <3>1. \A i \in 1 .. n : Parsed(u)[i] \in Commands
      BY <1>2, <2>2, ElementOfSeq
    <3>2. QED
      BY <1>2, <3>1, SubSeqProperties
  <2> HIDE DEF cut
  <2>6. /\ <<ops>> \o cut \in Seq(Commands) /\ Len(<<ops>> \o cut) = n + 1
        /\ \A i \in 1 .. n + 1 : (<<ops>> \o cut)[i] = IF i <= 1 THEN ops ELSE cut[i - 1]
    BY <1>2, <2>2, <2>5, ConcatProperties
  <2>7. \A i \in 1 .. n + 1 : (<<ops>> \o cut)[i] = SubSeq(p, 1, n + 1)[i]
    BY <1>2, <2>3, <2>4, <2>5, <2>6
  <2>8. <<ops>> \o cut = SubSeq(p, 1, n + 1)
    BY <2>4, <2>6, <2>7, SeqEqual
  <2>9. n + 1 \in 0 .. Len(p)
    BY <1>2, <2>3
  <2>10. QED
    BY <1>1, <2>1, <2>8, <2>9 DEF p, cut
<1>5. QED
  BY <1>1, <1>3, <1>4

-----------------------------------------------------------------------------
(* The invariant *)

\* An answer that a call may have.
Suits(r, a) ==
  \/ r.op = "set" /\ a = <<"ok">>
  \/ r.op = "get" /\ \E v \in Stored : a = <<"value", v>>
  \/ r.op = "del" /\ \E n \in Nat : a = <<"count", n>>

\* A handler has a command in hand only while it applies it, and an answer
\* when it is through; nothing is sent before a connection is made, nor left
\* to be read when the handler has ended.
HandlerInv(s) ==
  /\ IF hpc[s] = "apply" THEN todo[s] # <<>> \/ answer[s] # <<"none">>
     ELSE todo[s] = <<>> /\ answer[s] = <<"none">>
  /\ hpc[s] = "none" => up[s] = <<>>
  /\ link[s] = "none" => hpc[s] = "none" /\ down[s] = <<>> /\ st[s] = "idle"
  /\ link[s] = "open" => hpc[s] # "none"
  /\ st[s] = "waiting" => call[s] \in Calls[s]

\* The call's frame is on its way, ...
Sent(s) == up[s] = <<ToFrame(call[s])>> /\ down[s] = <<>> /\ hpc[s] # "apply"

\* ... or its command is being applied, ...
Doing(s) ==
  /\ up[s] = <<>> /\ down[s] = <<>> /\ hpc[s] = "apply"
  /\ Remote!Ops(call[s]) # <<>>
  /\ \A i \in DOMAIN todo[s] : todo[s][i].op = call[s].op
  /\ answer[s] = <<"none">> \/ Suits(call[s], answer[s])

\* ... or its response is on its way.
Replied(s) ==
  /\ up[s] = <<>> /\ hpc[s] # "apply"
  /\ Remote!Ops(call[s]) # <<>>
  /\ \E a \in Answers : Suits(call[s], a) /\ down[s] = <<ResponseFrame(a)>>

\* One call at a time, as long as none was cancelled and the connection is
\* there.
CallInv(s) ==
  ~stray[s] /\ ~Lost(s) =>
    IF st[s] = "idle" THEN up[s] = <<>> /\ down[s] = <<>> /\ hpc[s] # "apply"
    ELSE Sent(s) \/ Doing(s) \/ Replied(s)

SessionInv(s) == HandlerInv(s) /\ CallInv(s)
ServiceInv == TypeOK /\ \A s \in Sessions : SessionInv(s)

-----------------------------------------------------------------------------
(* Answers and responses *)

\* A response is read as the answer it was made from.
LEMMA ResponseSuits ==
  ASSUME NEW r, NEW a \in Answers, Suits(r, a)
  PROVE  Response(r, ResponseFrame(a)) = a
<1>1. CASE r.op = "set" /\ a = <<"ok">>
  <2>1. ResponseFrame(a) = <<"simple", "OK">>
    BY <1>1 DEF ResponseFrame
  <2>2. QED
    BY <1>1, <2>1 DEF Response
<1>2. CASE r.op = "get" /\ \E v \in Stored : a = <<"value", v>>
  <2>1. PICK v \in Stored : a = <<"value", v>>
    BY <1>2
  <2>2. CASE v = NoValue
    <3>1. ResponseFrame(a) = <<"null">>
      BY <2>1, <2>2 DEF ResponseFrame
    <3>2. QED
      BY <1>2, <2>1, <2>2, <3>1 DEF Response
  <2>3. CASE v # NoValue
    <3>1. ResponseFrame(a) = <<"bulk", v>>
      BY <2>1, <2>3 DEF ResponseFrame, Bulk
    <3>2. QED
      BY <1>2, <2>1, <2>3, <3>1 DEF Response
  <2>4. QED
    BY <2>2, <2>3
<1>3. CASE r.op = "del" /\ \E n \in Nat : a = <<"count", n>>
  <2>1. PICK n \in Nat : a = <<"count", n>>
    BY <1>3
  <2>2. ResponseFrame(a) = <<"integer", n>>
    BY <2>1 DEF ResponseFrame
  <2>3. QED
    BY <1>3, <2>1, <2>2 DEF Response
<1>4. QED
  BY <1>1, <1>2, <1>3 DEF Suits

\* Whatever call a response is taken for, what is made of it is an answer.
LEMMA ResponseAnswers ==
  ASSUME NEW r, NEW f \in Responses
  PROVE  Remote!IsAnswer(Response(r, f))
<1>1. PICK a \in Answers : f = ResponseFrame(a)
  BY DEF Responses
<1>2. CASE a = <<"ok">>
  <2>1. f = <<"simple", "OK">>
    BY <1>1, <1>2 DEF ResponseFrame
  <2>2. Response(r, f) \in {<<"ok">>, <<"error">>}
    BY <2>1 DEF Response
  <2>3. QED
    BY <2>2 DEF Remote!IsAnswer
<1>3. CASE \E n \in Nat : a = <<"count", n>>
  <2>1. PICK n \in Nat : a = <<"count", n>>
    BY <1>3
  <2>2. f = <<"integer", n>>
    BY <1>1, <2>1 DEF ResponseFrame
  <2>3. Response(r, f) \in {<<"count", n>>, <<"error">>}
    BY <2>2 DEF Response
  <2>4. QED
    BY <2>3 DEF Remote!IsAnswer
<1>4. CASE \E v \in Stored : a = <<"value", v>>
  <2>1. PICK v \in Stored : a = <<"value", v>>
    BY <1>4
  <2>2. f = IF v = NoValue THEN <<"null">> ELSE <<"bulk", v>>
    BY <1>1, <2>1 DEF ResponseFrame, Bulk
  <2>3. Response(r, f) \in {<<"value", v>>, <<"error">>}
    BY <2>2 DEF Response
  <2>4. QED
    BY <2>3 DEF Remote!IsAnswer, Stored
<1>5. QED
  BY <1>2, <1>3, <1>4 DEF Answers

\* A storage operation leaves a store, and its result makes an answer, ...
LEMMA Operation ==
  ASSUME TypeOK, NEW op \in StorageOps, NEW a \in Answers \cup {<<"none">>}
  PROVE  /\ KV!After(op) \in [Keys -> Stored]
         /\ Answer(a, op.op, KV!Result(op)) \in Answers
<1>1. op.op \in {"set", "get", "del"} /\ op.key \in Keys /\ op.val \in Stored
  BY DEF StorageOps
<1>2. KV!After(op) \in [Keys -> Stored]
  BY <1>1 DEF KV!After, TypeOK
<1>3. CASE op.op = "set"
  BY <1>2, <1>3 DEF Answer, Answers
<1>4. CASE op.op = "get"
  <2>1. KV!Result(op) = store[op.key] /\ store[op.key] \in Stored
    BY <1>1, <1>4 DEF KV!Result, TypeOK
  <2>2. QED
    BY <1>2, <1>4, <2>1 DEF Answer, Answers
<1>5. CASE op.op = "del"
  <2> DEFINE n == IF a[1] = "count" THEN a[2] ELSE 0
             m == n + (IF KV!Result(op) = "true" THEN 1 ELSE 0)
  <2>1. n \in Nat
    BY DEF Answers
  <2>2. m \in Nat
    BY <2>1
  <2>3. Answer(a, op.op, KV!Result(op)) = <<"count", m>>
    BY <1>5 DEF Answer
  <2> HIDE DEF m
  <2>4. QED
    BY <1>2, <2>2, <2>3 DEF Answers
<1>6. QED
  BY <1>1, <1>2, <1>3, <1>4, <1>5

\* ... the one that RemoteStore counts for the call.
LEMMA Tallied ==
  ASSUME NEW r, NEW op \in StorageOps, op.op = r.op, NEW a, a = <<"none">> \/ Suits(r, a), TypeOK
  PROVE  /\ Answer(a, op.op, KV!Result(op)) = Remote!Tally(r, a, Remote!KV!Result(op))
         /\ Suits(r, Answer(a, op.op, KV!Result(op)))
<1>0. KV!Result(op) = Remote!KV!Result(op)
  BY DEF KV!Result, Remote!KV!Result
<1>1. op.op \in {"set", "get", "del"} /\ op.key \in Keys
  BY DEF StorageOps
<1>2. CASE op.op = "set"
  BY <1>2 DEF Answer, Remote!Tally, Suits
<1>3. CASE op.op = "get"
  <2>1. KV!Result(op) = store[op.key] /\ store[op.key] \in Stored
    BY <1>1, <1>3 DEF KV!Result, TypeOK
  <2>2. Answer(a, op.op, KV!Result(op)) = <<"value", KV!Result(op)>>
    BY <1>3 DEF Answer
  <2>3. QED
    BY <1>0, <1>3, <2>1, <2>2 DEF Remote!Tally, Suits
<1>4. CASE op.op = "del"
  <2> DEFINE res == KV!Result(op)
  <2>1. PICK n \in Nat : a = <<"count", n>> \/ (a = <<"none">> /\ n = 0)
    BY <1>4 DEF Suits
  <2>2. Answer(a, op.op, res) = <<"count", IF res = "true" THEN n + 1 ELSE n>>
    BY <1>4, <2>1 DEF Answer
  <2>3. Remote!Tally(r, a, res) = <<"count", IF res = "true" THEN n + 1 ELSE n>>
    BY <1>4, <2>1 DEF Remote!Tally
  <2>4. (IF res = "true" THEN n + 1 ELSE n) \in Nat
    OBVIOUS
  <2> HIDE DEF res
  <2>5. Suits(r, Answer(a, op.op, res))
    BY <1>4, <2>2, <2>4 DEF Suits
  <2>6. QED
    BY <1>0, <2>2, <2>3, <2>5 DEF res
<1>5. QED
  BY <1>1, <1>2, <1>3, <1>4

-----------------------------------------------------------------------------
(* A step of one session *)

\* A step of session q, the listener's shutdown aside.
SessionNext(q) ==
  \/ Connect(q) \/ \E r \in Calls[q] : Call(q, r)
  \/ ReadResponse(q) \/ ReadClosed(q) \/ Cancel(q) \/ Break(q)
  \/ ReadCommand(q) \/ HandlerEnds(q) \/ ApplyOp(q) \/ ApplyFails(q) \/ Respond(q)

\* Nothing of session q changes.
Same(q) ==
  /\ link[q]' = link[q] /\ st[q]' = st[q] /\ call[q]' = call[q]
  /\ up[q]' = up[q] /\ down[q]' = down[q] /\ hpc[q]' = hpc[q]
  /\ todo[q]' = todo[q] /\ answer[q]' = answer[q] /\ stray[q]' = stray[q]

\* A step of one session is none of the others.
LEMMA OthersSame ==
  ASSUME TypeOK, NEW s \in Sessions, SessionNext(s), NEW q \in Sessions, q # s
  PROVE  Same(q)
<1> USE DEF Same, TypeOK, client, server
<1>1. CASE Connect(s)
  BY <1>1 DEF Connect
<1>2. CASE \E r \in Calls[s] : Call(s, r)
  BY <1>2 DEF Call
<1>3. CASE ReadResponse(s)
  BY <1>3 DEF ReadResponse, Returns
<1>4. CASE ReadClosed(s)
  BY <1>4 DEF ReadClosed, Returns
<1>5. CASE Cancel(s)
  BY <1>5 DEF Cancel, Returns
<1>6. CASE Break(s)
  BY <1>6 DEF Break
<1>7. CASE ReadCommand(s)
  BY <1>7 DEF ReadCommand, Refuse, Drop
<1>8. CASE HandlerEnds(s)
  BY <1>8 DEF HandlerEnds, Drop
<1>9. CASE ApplyOp(s)
  BY <1>9 DEF ApplyOp
<1>10. CASE ApplyFails(s)
  BY <1>10 DEF ApplyFails, Drop
<1>11. CASE Respond(s)
  BY <1>11 DEF Respond, Drop
<1>12. QED
  BY <1>1, <1>2, <1>3, <1>4, <1>5, <1>6, <1>7, <1>8, <1>9, <1>10, <1>11 DEF SessionNext

\* The invariant of a session, and what RemoteStore sees of it, depend on
\* nothing else.
LEMMA SameKept ==
  ASSUME NEW q, Same(q)
  PROVE  /\ SessionInv(q) => SessionInv(q)'
         /\ Left(q)' = Left(q) /\ Lost(q)' = Lost(q) /\ Answered(q)' = Answered(q)
<1>1. Lost(q)' = Lost(q)
  BY DEF Same, Lost
<1>2. Left(q)' = Left(q)
  BY DEF Same, Left
<1>3. Answered(q)' = Answered(q)
  BY <1>1 DEF Same, Answered
<1>4. HandlerInv(q) => HandlerInv(q)'
  BY DEF Same, HandlerInv
<1>5. Sent(q)' = Sent(q) /\ Doing(q)' = Doing(q) /\ Replied(q)' = Replied(q)
  BY DEF Same, Sent, Doing, Replied
<1>6. CallInv(q) => CallInv(q)'
  BY <1>1, <1>5 DEF Same, CallInv
<1>7. QED
  BY <1>1, <1>2, <1>3, <1>4, <1>6 DEF SessionInv

\* What RemoteStore sees of the sessions changes at s only.
LEMMA Lift ==
  ASSUME TypeOK, NEW s \in Sessions, SessionNext(s)
  PROVE  LET left == [q \in Sessions |-> Left(q)]
             ans  == [q \in Sessions |-> Answered(q)]
             lost == [q \in Sessions |-> Lost(q)]
         IN  /\ left' = [left EXCEPT ![s] = Left(s)']
             /\ ans'  = [ans EXCEPT ![s] = Answered(s)']
             /\ lost' = [lost EXCEPT ![s] = Lost(s)']
<1>1. \A q \in Sessions \ {s} : Left(q)' = Left(q) /\ Lost(q)' = Lost(q) /\ Answered(q)' = Answered(q)
  BY OthersSame, SameKept
<1>2. QED
  BY <1>1

\* The facts about a session that its steps start from.
LEMMA SessionFacts ==
  ASSUME TypeOK, NEW s \in Sessions
  PROVE  /\ up[s] \in Seq(Frames) /\ down[s] \in Seq(Responses) /\ todo[s] \in Commands
         /\ Len(up[s]) \in Nat /\ Len(down[s]) \in Nat
         /\ Left(s) \in Seq(Commands) /\ Len(Left(s)) \in Nat
         /\ todo[s] = <<>> /\ up[s] = <<>> => Left(s) = <<>>
<1>1. up[s] \in Seq(Frames) /\ down[s] \in Seq(Responses) /\ todo[s] \in Commands
  BY DEF TypeOK, Commands
<1>2. QED
  BY <1>1, LenProperties, PendingSeq DEF Left

\* Client::connect
LEMMA ConnectStep ==
  ASSUME ServiceInv, NEW s \in Sessions, Connect(s)
  PROVE  /\ TypeOK' /\ SessionInv(s)'
         /\ Left(s)' = Left(s) /\ Lost(s)' = Lost(s) /\ Answered(s)' = Answered(s)
<1>1. /\ link[s] = "none" /\ link[s]' = "open" /\ hpc[s]' = "read"
      /\ UNCHANGED <<store, st, call, result, stray, up, down, todo, answer>>
  BY DEF Connect, client, ServiceInv, TypeOK
<1>2. TypeOK'
  BY <1>1 DEF Connect, ServiceInv, TypeOK
<1>3. HandlerInv(s) /\ CallInv(s) /\ Lost(s) = FALSE /\ Lost(s)' = FALSE
  BY <1>1 DEF ServiceInv, SessionInv, Lost
<1>4. hpc[s] = "none" /\ down[s] = <<>> /\ st[s] = "idle" /\ up[s] = <<>>
  BY <1>1, <1>3 DEF HandlerInv
<1>5. HandlerInv(s)' /\ CallInv(s)'
  BY <1>1, <1>3, <1>4 DEF HandlerInv, CallInv
<1>6. Left(s)' = Left(s) /\ Answered(s)' = Answered(s)
  BY <1>1, <1>3 DEF Left, Answered
<1>7. QED
  BY <1>2, <1>3, <1>5, <1>6 DEF SessionInv

\* A call is made.
LEMMA CallStep ==
  ASSUME ServiceInv, NEW s \in Sessions, NEW r \in Calls[s], Call(s, r)
  PROVE  /\ TypeOK' /\ SessionInv(s)'
         /\ IF link[s] = "open" THEN Left(s)' = Append(Left(s), Remote!Ops(r)) /\ ~Lost(s)
            ELSE Left(s)' = Left(s) /\ (Lost(s) \/ stray[s])
         /\ Lost(s)' = Lost(s) /\ Answered(s)' = Answered(s)
<1> DEFINE f == ToFrame(r)
<1>1. /\ link[s] # "none" /\ st[s] = "idle" /\ st[s]' = "waiting" /\ call[s]' = r
      /\ up[s]' = IF link[s] = "open" THEN Append(up[s], f) ELSE up[s]
      /\ UNCHANGED <<store, link, stray, down, hpc, todo, answer>>
  BY DEF Call, server, ServiceInv, TypeOK
<1>2. f \in Frames
  BY DEF Frames
<1>3. Append(up[s], f) \in Seq(Frames)
  BY <1>2, AppendProperties, SessionFacts DEF ServiceInv
<1> HIDE DEF f
<1>4. TypeOK'
  <2>1. UNCHANGED <<store, link, stray, down, hpc, todo, answer>> /\ st' = [st EXCEPT ![s] = "waiting"]
    BY DEF Call, server
  <2>2. call' = [call EXCEPT ![s] = r] /\ result' = [result EXCEPT ![s] = <<"none">>]
    BY DEF Call
  <2>3. up' \in [Sessions -> Seq(Frames)]
    BY <1>3 DEF Call, ServiceInv, TypeOK, f
  <2>4. call' \in [Sessions -> {NoCall} \cup UNION {Calls[q] : q \in Sessions}]
    BY <2>2 DEF ServiceInv, TypeOK
  <2>5. QED
    BY <2>1, <2>2, <2>3, <2>4 DEF ServiceInv, TypeOK
<1>5. HandlerInv(s) /\ CallInv(s) /\ Lost(s)' = Lost(s)
  BY <1>1 DEF ServiceInv, SessionInv, Lost
<1>6. HandlerInv(s)'
  BY <1>1, <1>5 DEF HandlerInv
<1>7. ~stray[s] /\ ~Lost(s) => up[s] = <<>> /\ down[s] = <<>> /\ hpc[s] # "apply" /\ link[s] = "open"
  BY <1>1, <1>5 DEF CallInv, Lost, ServiceInv, TypeOK
<1>8. CallInv(s)'
  <2>1. SUFFICES ASSUME ~stray[s], ~Lost(s) PROVE Sent(s)'
    BY <1>1, <1>5 DEF CallInv
  <2>2. up[s]' = <<f>>
    <3>1. up[s]' = Append(<<>>, f)
      BY <1>1, <1>7, <2>1
    <3>2. QED
      BY <3>1, AppendFirst
  <2>3. QED
    BY <1>1, <1>7, <2>1, <2>2 DEF Sent, f
<1>9. IF link[s] = "open" THEN Left(s)' = Append(Left(s), Remote!Ops(r)) /\ ~Lost(s)
      ELSE Left(s)' = Left(s) /\ (Lost(s) \/ stray[s])
  <2>1. CASE link[s] = "open"
    <3>1. Left(s)' = Pending(todo[s], Append(up[s], f))
      BY <1>1, <2>1 DEF Left
    <3>2. Left(s)' = Append(Left(s), ParseCommand(f))
      BY <1>2, <3>1, SessionFacts, PendingAppend DEF Left, ServiceInv
    <3>3. QED
      BY <2>1, <3>2, CallParsed DEF f, Lost
  <2>2. CASE link[s] # "open"
    <3>1. Left(s)' = Left(s)
      BY <1>1, <2>2 DEF Left
    <3>2. QED
      BY <1>7, <2>2, <3>1 DEF ServiceInv, TypeOK
  <2>3. QED
    BY <2>1, <2>2
<1>10. Answered(s)' = Answered(s)
  BY <1>1, <1>5, <1>7 DEF Answered
<1>11. QED
  BY <1>4, <1>5, <1>6, <1>8, <1>9, <1>10 DEF SessionInv

\* A call returns in any way.
LEMMA ReturnsStep ==
  ASSUME ServiceInv, NEW s \in Sessions, NEW res, Returns(s, res),
         down[s]' \in Seq(Responses), stray[s]' \in BOOLEAN,
         down' = [down EXCEPT ![s] = down[s]'], stray' = [stray EXCEPT ![s] = stray[s]']
  PROVE  /\ TypeOK' /\ HandlerInv(s)'
         /\ st[s] = "waiting" /\ st[s]' = "idle" /\ call[s]' = NoCall /\ result[s]' = res
         /\ Left(s)' = Left(s)
         /\ UNCHANGED <<store, link, up, hpc, todo, answer>>
<1>1. /\ st[s] = "waiting" /\ st[s]' = "idle" /\ call[s]' = NoCall /\ result[s]' = res
      /\ UNCHANGED <<store, link, up, hpc, todo, answer>>
  BY DEF Returns, server, ServiceInv, TypeOK
<1>2. TypeOK'
  <2>1. /\ st' = [st EXCEPT ![s] = "idle"] /\ call' = [call EXCEPT ![s] = NoCall]
        /\ result' = [result EXCEPT ![s] = res]
    BY DEF Returns
  <2>2. call' \in [Sessions -> {NoCall} \cup UNION {Calls[q] : q \in Sessions}]
    BY <2>1 DEF ServiceInv, TypeOK
  <2>3. down' \in [Sessions -> Seq(Responses)] /\ stray' \in [Sessions -> BOOLEAN]
    BY DEF ServiceInv, TypeOK
  <2>4. st' \in [Sessions -> {"idle", "waiting"}]
    BY <2>1 DEF ServiceInv, TypeOK
  <2>5. DOMAIN result' = Sessions /\ result' = [q \in Sessions |-> result[q]']
    BY <2>1 DEF ServiceInv, TypeOK
  <2>6. QED
    BY <1>1, <2>2, <2>3, <2>4, <2>5 DEF ServiceInv, TypeOK
<1>3. HandlerInv(s)'
  <2>1. HandlerInv(s) /\ link[s] # "none"
    BY <1>1 DEF ServiceInv, SessionInv, HandlerInv
  <2>2. QED
    BY <1>1, <2>1 DEF HandlerInv
<1>4. Left(s)' = Left(s)
  BY <1>1 DEF Left
<1>5. QED
  BY <1>1, <1>2, <1>3, <1>4

\* A response is read.
LEMMA ReadResponseStep ==
  ASSUME ServiceInv, NEW s \in Sessions, ReadResponse(s)
  PROVE  /\ TypeOK' /\ SessionInv(s)'
         /\ Left(s)' = Left(s) /\ Answered(s)' = <<"none">> /\ stray[s]' = stray[s]
         /\ stray[s] => Answered(s) = <<"none">> /\ Remote!IsAnswer(result[s]')
         /\ ~stray[s] => /\ Left(s) = <<>> /\ ~Lost(s) /\ Remote!Ops(call[s]) # <<>>
                         /\ result[s]' = Answered(s)
<1> DEFINE res == Response(call[s], Head(down[s]))
<1>1. /\ down[s] # <<>> /\ down' = [down EXCEPT ![s] = Tail(@)] /\ down[s]' = Tail(down[s])
      /\ UNCHANGED stray /\ Returns(s, res)
  BY DEF ReadResponse, ServiceInv, TypeOK
<1>2. Head(down[s]) \in Responses /\ Tail(down[s]) \in Seq(Responses)
  BY <1>1, HeadTailProperties, SessionFacts DEF ServiceInv
<1>3. link[s] # "none" /\ ~Lost(s) /\ HandlerInv(s) /\ CallInv(s)
  BY <1>1 DEF ServiceInv, SessionInv, HandlerInv, Lost
<1>4. stray' = [stray EXCEPT ![s] = stray[s]'] /\ stray[s]' \in BOOLEAN /\ stray[s]' = stray[s]
  BY <1>1 DEF ServiceInv, TypeOK
<1> HIDE DEF res
<1>5. /\ TypeOK' /\ HandlerInv(s)'
      /\ st[s] = "waiting" /\ st[s]' = "idle" /\ result[s]' = res
      /\ Left(s)' = Left(s)
      /\ UNCHANGED <<store, link, up, hpc, todo, answer>>
  BY <1>1, <1>2, <1>3, <1>4, ReturnsStep
<1>6. CASE stray[s]
  <2>1. Answered(s) = <<"none">> /\ Answered(s)' = <<"none">>
    BY <1>4, <1>6 DEF Answered
  <2>2. CallInv(s)'
    BY <1>4, <1>6 DEF CallInv
  <2>3. Remote!IsAnswer(result[s]')
    BY <1>2, <1>5, ResponseAnswers DEF res
  <2>4. QED
    BY <1>4, <1>5, <1>6, <2>1, <2>2, <2>3 DEF SessionInv
<1>7. CASE ~stray[s]
  <2>1. Replied(s)
    BY <1>1, <1>3, <1>5, <1>7 DEF CallInv, Sent, Doing
  <2>2. PICK a \in Answers : Suits(call[s], a) /\ down[s] = <<ResponseFrame(a)>>
    BY <2>1 DEF Replied
  <2>3. up[s] = <<>> /\ hpc[s] # "apply" /\ down[s]' = <<>> /\ Remote!Ops(call[s]) # <<>>
    BY <1>1, <2>1, <2>2, AppendFirst DEF Replied
  <2>4. todo[s] = <<>> /\ answer[s] = <<"none">>
    BY <1>3, <2>3 DEF HandlerInv
  <2>5. Left(s) = <<>>
    BY <2>3, <2>4, SessionFacts DEF ServiceInv
  <2>6. CallInv(s)'
    BY <1>5, <2>3 DEF CallInv
  <2>7. Answered(s) = res
    BY <1>1, <1>3, <1>7 DEF Answered, res
  <2>8. Answered(s)' = <<"none">>
    BY <1>5, <2>3, <2>4 DEF Answered
  <2>9. QED
    BY <1>3, <1>4, <1>5, <1>7, <2>3, <2>5, <2>6, <2>7, <2>8 DEF SessionInv
<1>8. QED
  BY <1>6, <1>7

\* The connection is found closed.
LEMMA ReadClosedStep ==
  ASSUME ServiceInv, NEW s \in Sessions, ReadClosed(s)
  PROVE  /\ TypeOK' /\ SessionInv(s)'
         /\ Lost(s) /\ Lost(s)' = Lost(s)
         /\ Left(s)' = Left(s) /\ Answered(s)' = Answered(s)
<1>1. /\ down[s] = <<>> /\ link[s] = "closed" /\ UNCHANGED <<down, stray>>
      /\ Returns(s, <<"error">>)
  BY DEF ReadClosed
<1>2. /\ down' = [down EXCEPT ![s] = down[s]'] /\ down[s]' \in Seq(Responses)
      /\ stray' = [stray EXCEPT ![s] = stray[s]'] /\ stray[s]' \in BOOLEAN
  BY <1>1 DEF ServiceInv, TypeOK
<1>3. TypeOK' /\ HandlerInv(s)' /\ Left(s)' = Left(s) /\ UNCHANGED link
  BY <1>1, <1>2, ReturnsStep
<1>4. Lost(s) /\ Lost(s)'
  BY <1>1, <1>3 DEF Lost
<1>5. QED
  BY <1>3, <1>4 DEF SessionInv, CallInv, Answered

\* A call is cancelled.
LEMMA CancelStep ==
  ASSUME ServiceInv, NEW s \in Sessions, Cancel(s)
  PROVE  /\ TypeOK' /\ SessionInv(s)'
         /\ Lost(s)' = Lost(s) /\ Left(s)' = Left(s) /\ Answered(s)' = <<"none">>
<1>1. /\ UNCHANGED down /\ stray' = [stray EXCEPT ![s] = TRUE] /\ stray[s]' = TRUE
      /\ Returns(s, <<"cancelled">>)
  BY DEF Cancel, ServiceInv, TypeOK
<1>2. down' = [down EXCEPT ![s] = down[s]'] /\ down[s]' \in Seq(Responses)
  BY <1>1 DEF ServiceInv, TypeOK
<1>3. TypeOK' /\ HandlerInv(s)' /\ Left(s)' = Left(s) /\ UNCHANGED link
  BY <1>1, <1>2, ReturnsStep
<1>4. Lost(s)' = Lost(s)
  BY <1>1, <1>3 DEF Lost
<1>5. QED
  BY <1>1, <1>3, <1>4 DEF SessionInv, CallInv, Answered

\* RemoteStore sees nothing of a step, or that commands and answers are lost.
Unseen(s) == Left(s)' = Left(s) /\ Lost(s)' = Lost(s) /\ Answered(s)' = Answered(s)
Loses(s) ==
  /\ \E n \in 0 .. Len(Left(s)) : Left(s)' = SubSeq(Left(s), 1, n)
  /\ Answered(s)' = <<"none">>
  /\ Lost(s)' = TRUE \/ (stray[s] /\ Lost(s)' = Lost(s))

\* A response that is not lost when the connection ends keeps its call's
\* place.
LEMMA ReplyKept ==
  ASSUME ServiceInv, NEW s \in Sessions, ~Lost(s), link[s]' = "closed",
         hpc[s] # "apply" => hpc[s]' # "apply",
         up[s] = <<>> => up[s]' = <<>>, todo[s] = <<>> => todo[s]' = <<>>,
         down[s] = <<>> => down[s]' = <<>>,
         \A f : down[s] = <<f>> /\ down[s]' # <<>> => down[s]' = down[s],
         UNCHANGED <<stray, st, call>>
  PROVE  CallInv(s)' /\ (~stray[s] /\ ~Lost(s)' => Unseen(s))
<1>1. stray[s]' = stray[s]
  OBVIOUS
<1>2. CASE stray[s] \/ Lost(s)'
  BY <1>1, <1>2 DEF CallInv
<1>3. CASE ~stray[s] /\ ~Lost(s)'
  <2>1. down[s]' # <<>> /\ down[s] # <<>> /\ ~Lost(s)
    BY <1>3 DEF Lost
  <2>2. HandlerInv(s) /\ CallInv(s)
    BY DEF ServiceInv, SessionInv
  <2>3. st[s] = "waiting" /\ Replied(s)
    BY <1>3, <2>1, <2>2 DEF CallInv, Sent, Doing, ServiceInv, TypeOK
  <2>4. down[s]' = down[s] /\ up[s] = <<>> /\ up[s]' = <<>> /\ hpc[s] # "apply" /\ hpc[s]' # "apply"
    BY <2>1, <2>3 DEF Replied
  <2>5. todo[s] = <<>> /\ todo[s]' = <<>>
    BY <2>2, <2>4 DEF HandlerInv
  <2>6. Left(s)' = Left(s)
    BY <2>4, <2>5 DEF Left
  <2>7. Answered(s)' = Answered(s)
    BY <1>3, <2>1, <2>4 DEF Answered
  <2>8. Replied(s)'
    BY <2>3, <2>4 DEF Replied
  <2>9. Lost(s)' = Lost(s)
    BY <1>3, <2>1 DEF Lost
  <2>10. CallInv(s)'
    BY <2>3, <2>8 DEF CallInv
  <2>11. QED
    BY <2>6, <2>7, <2>9, <2>10 DEF Unseen
<1>4. QED
  BY <1>1, <1>2, <1>3

\* The connection breaks.
LEMMA BreakStep ==
  ASSUME ServiceInv, NEW s \in Sessions, Break(s)
  PROVE  TypeOK' /\ SessionInv(s)' /\ (Loses(s) \/ Unseen(s))
<1>1. PICK n \in 0 .. Len(up[s]) : up' = [up EXCEPT ![s] = SubSeq(@, 1, n)]
  BY DEF Break
<1>2. PICK m \in 0 .. Len(down[s]) : down' = [down EXCEPT ![s] = SubSeq(@, 1, m)]
  BY DEF Break
<1>3. /\ link[s] = "open" /\ link[s]' = "closed"
      /\ up[s]' = SubSeq(up[s], 1, n) /\ down[s]' = SubSeq(down[s], 1, m)
      /\ UNCHANGED <<store, st, call, result, stray, hpc, todo, answer>>
  BY <1>1, <1>2 DEF Break, client, server, ServiceInv, TypeOK
<1>4. /\ up[s] \in Seq(Frames) /\ down[s] \in Seq(Responses) /\ todo[s] \in Commands
      /\ Len(up[s]) \in Nat /\ Len(down[s]) \in Nat
  BY SessionFacts DEF ServiceInv
<1>5. /\ SubSeq(up[s], 1, n) \in Seq(Frames)
      /\ \E i \in 0 .. Len(Left(s)) : Left(s)' = SubSeq(Left(s), 1, i)
  BY <1>3, <1>4, PendingCut DEF Left
<1>6. SubSeq(down[s], 1, m) \in Seq(Responses) /\ Len(SubSeq(down[s], 1, m)) = m
  <2>1. \A i \in 1 .. m : down[s][i] \in Responses
    BY <1>4, ElementOfSeq
  <2>2. QED
    BY <1>4, <2>1, SubSeqProperties
<1>7. TypeOK'
  <2>1. up' \in [Sessions -> Seq(Frames)] /\ down' \in [Sessions -> Seq(Responses)]
    BY <1>1, <1>2, <1>5, <1>6 DEF ServiceInv, TypeOK
  <2>2. QED
    BY <1>3, <2>1 DEF Break, ServiceInv, TypeOK
<1>8. up[s] = <<>> => up[s]' = <<>>
  BY <1>3, <1>4, SubSeqFull
<1>9. down[s] = <<>> => down[s]' = <<>>
  BY <1>3, <1>4, SubSeqFull
<1>10. ASSUME NEW f, down[s] = <<f>>, down[s]' # <<>> PROVE down[s]' = down[s]
  <2>1. Len(down[s]) = 1 /\ m # 0
    BY <1>3, <1>10, SubSeqEmpty
  <2>2. m = Len(down[s])
    BY <2>1
  <2>3. QED
    BY <1>3, <1>4, <2>2, SubSeqFull
<1>11. HandlerInv(s)'
  <2>1. HandlerInv(s) /\ hpc[s] # "none" /\ hpc[s]' = hpc[s] /\ st[s]' = st[s] /\ call[s]' = call[s]
    BY <1>3 DEF ServiceInv, SessionInv, HandlerInv
  <2>2. QED
    BY <1>3, <2>1 DEF HandlerInv
<1>12. CallInv(s)' /\ (~stray[s] /\ ~Lost(s)' => Unseen(s))
  <2>1. ~Lost(s)
    BY <1>3 DEF Lost
  <2>2. QED
    BY <1>3, <1>8, <1>9, <1>10, <2>1, ReplyKept
<1>13. ASSUME ~Unseen(s) PROVE Loses(s)
  <2>1. stray[s] \in BOOLEAN /\ stray[s]' = stray[s] /\ Lost(s) = FALSE /\ Lost(s)' \in BOOLEAN
    BY <1>3 DEF ServiceInv, TypeOK, Lost
  <2>2. Lost(s)' = TRUE \/ (stray[s] /\ Lost(s)' = Lost(s))
    BY <1>12, <1>13, <2>1
  <2>3. Answered(s)' = <<"none">>
    BY <2>1, <2>2 DEF Answered
  <2>4. QED
    BY <1>5, <2>2, <2>3 DEF Loses
<1>14. QED
  BY <1>7, <1>11, <1>12, <1>13 DEF SessionInv

\* The handler ends.
LEMMA DropStep ==
  ASSUME ServiceInv, NEW s \in Sessions, Drop(s), hpc[s] # "none"
  PROVE  TypeOK' /\ SessionInv(s)' /\ (Loses(s) \/ Unseen(s))
<1>1. /\ link[s]' = "closed" /\ hpc[s]' = "none" /\ up[s]' = <<>> /\ todo[s]' = <<>>
      /\ answer[s]' = <<"none">>
      /\ UNCHANGED <<store, st, call, result, stray, down>>
  BY DEF Drop, client, ServiceInv, TypeOK
<1>2. TypeOK'
  BY DEF Drop, client, ServiceInv, TypeOK
<1>3. HandlerInv(s) /\ link[s] # "none" /\ HandlerInv(s)'
  BY <1>1 DEF ServiceInv, SessionInv, HandlerInv
<1>4. Left(s)' = <<>> /\ Left(s) \in Seq(Commands) /\ Len(Left(s)) \in Nat
  <2>1. <<>> \in Commands /\ <<>> \in Seq(Frames)
    BY EmptySeq DEF Commands
  <2>2. Pending(<<>>, <<>>) = <<>>
    BY <2>1, PendingSeq
  <2>3. QED
    BY <1>1, <2>2, SessionFacts DEF Left, ServiceInv
<1>5. 0 \in 0 .. Len(Left(s)) /\ Left(s)' = SubSeq(Left(s), 1, 0)
  BY <1>4, SubSeqEmpty
<1>6. stray[s] \in BOOLEAN /\ stray[s]' = stray[s] /\ Lost(s) \in BOOLEAN /\ Lost(s)' \in BOOLEAN
  BY <1>1 DEF ServiceInv, TypeOK, Lost
<1>7. CASE Lost(s)
  <2>1. Lost(s)' = TRUE
    BY <1>1, <1>7 DEF Lost
  <2>2. CallInv(s)' /\ Answered(s)' = <<"none">>
    BY <2>1 DEF CallInv, Answered
  <2>3. QED
    BY <1>2, <1>3, <1>5, <2>1, <2>2 DEF Loses, SessionInv
<1>8. CASE ~Lost(s)
  <2>2. CallInv(s)' /\ (~stray[s] /\ ~Lost(s)' => Unseen(s))
    BY <1>1, <1>8, ReplyKept
  <2>3. ASSUME ~Unseen(s) PROVE Loses(s)
    <3>1. Lost(s)' = TRUE \/ (stray[s] /\ Lost(s)' = Lost(s))
      BY <1>6, <1>8, <2>2, <2>3
    <3>2. Answered(s)' = <<"none">>
      BY <1>6, <3>1 DEF Answered
    <3>3. QED
      BY <1>5, <3>1, <3>2 DEF Loses
  <2>4. QED
    BY <1>2, <1>3, <2>2, <2>3 DEF SessionInv
<1>9. QED
  BY <1>7, <1>8

\* A command is read.
LEMMA ReadCommandStep ==
  ASSUME ServiceInv, NEW s \in Sessions, ReadCommand(s)
  PROVE  TypeOK' /\ SessionInv(s)' /\ (Loses(s) \/ Unseen(s)) /\ UNCHANGED <<store, client>>
<1> DEFINE ops == ParseCommand(Head(up[s]))
<1>1. hpc[s] = "read" /\ up[s] # <<>>
  BY DEF ReadCommand
<1>2. CASE ops = <<>>
  <2>1. Drop(s) /\ UNCHANGED <<store, client>>
    BY <1>2 DEF ReadCommand, Refuse, Drop
  <2>2. QED
    BY <1>1, <2>1, DropStep
<1>3. CASE ops # <<>>
  <2>1. /\ hpc' = [hpc EXCEPT ![s] = "apply"] /\ todo' = [todo EXCEPT ![s] = ops]
        /\ up' = [up EXCEPT ![s] = Tail(@)]
        /\ UNCHANGED <<store, link, st, call, result, stray, down, answer>>
    BY <1>3 DEF ReadCommand, client
  <2>2. hpc[s]' = "apply" /\ todo[s]' = ops /\ up[s]' = Tail(up[s])
    BY <2>1 DEF ServiceInv, TypeOK
  <2>3. up[s] \in Seq(Frames)
    BY SessionFacts DEF ServiceInv
  <2>4. ops \in Commands /\ Tail(up[s]) \in Seq(Frames) /\ Pending(ops, Tail(up[s])) = Pending(<<>>, up[s])
    BY <1>1, <1>3, <2>3, PendingNext
  <2>5. TypeOK'
    BY <2>1, <2>4 DEF ServiceInv, TypeOK, Commands
  <2>6. HandlerInv(s) /\ CallInv(s) /\ todo[s] = <<>> /\ answer[s] = <<"none">> /\ link[s] # "none"
    BY <1>1 DEF ServiceInv, SessionInv, HandlerInv
  <2>7. Left(s)' = Left(s)
    BY <2>2, <2>4, <2>6 DEF Left
  <2>8. Lost(s)' = Lost(s)
    BY <2>1 DEF Lost
  <2>9. Unseen(s)
    BY <2>1, <2>7, <2>8 DEF Unseen, Answered
  <2>10. HandlerInv(s)'
    BY <1>3, <2>1, <2>2, <2>6 DEF HandlerInv
  <2>11. CallInv(s)'
    <3>1. SUFFICES ASSUME ~stray[s], ~Lost(s) PROVE st[s] = "waiting" /\ Doing(s)'
      BY <2>1, <2>8 DEF CallInv
    <3>2. st[s] = "waiting" /\ Sent(s)
      BY <1>1, <2>6, <3>1 DEF CallInv, Doing, Replied, ServiceInv, TypeOK
    <3>3. call[s] \in Calls[s]
      BY <2>6, <3>2 DEF HandlerInv
    <3>4. Head(up[s]) = ToFrame(call[s]) /\ Tail(up[s]) = <<>>
      BY <3>2, AppendFirst DEF Sent
    <3>5. ops = Remote!Ops(call[s])
      BY <3>3, <3>4, CallParsed
    <3> HIDE DEF ops
    <3>6. \A i \in DOMAIN ops : ops[i].op = call[s].op
      BY <3>3, <3>5, OpsTyped
    <3>7. Doing(s)'
      BY <1>3, <2>1, <2>2, <2>6, <3>2, <3>4, <3>5, <3>6 DEF Doing, Sent
    <3>8. QED
      BY <3>2, <3>7
  <2>12. QED
    BY <2>1, <2>5, <2>9, <2>10, <2>11 DEF SessionInv, client
<1>4. QED
  BY <1>2, <1>3

\* No answer is "none".
LEMMA NoneIsNoAnswer == <<"none">> \notin Answers
BY DEF Answers

\* A storage operation of the command is done.
LEMMA ApplyOpStep ==
  ASSUME ServiceInv, NEW s \in Sessions, ApplyOp(s)
  PROVE  LET op == Head(Head(Left(s)))
         IN  /\ TypeOK' /\ SessionInv(s)' /\ UNCHANGED client
             /\ Left(s) # <<>> /\ Head(Left(s)) # <<>> /\ Left(s)' = Remote!Rest(Left(s))
             /\ store' = Remote!KV!After(op) /\ Lost(s)' = Lost(s)
             /\ Answered(s)' = IF Lost(s) \/ stray[s] THEN Answered(s)
                               ELSE Remote!Tally(call[s], Answered(s), Remote!KV!Result(op))
<1> DEFINE op == Head(todo[s])
           a == Answer(answer[s], op.op, KV!Result(op))
<1>1. /\ hpc[s] = "apply" /\ todo[s] # <<>> /\ store' = KV!After(op)
      /\ answer' = [answer EXCEPT ![s] = a] /\ todo' = [todo EXCEPT ![s] = Tail(@)]
      /\ UNCHANGED <<link, st, call, result, stray, up, down, hpc>>
  BY DEF ApplyOp, client
<1>2. answer[s]' = a /\ todo[s]' = Tail(todo[s])
  BY <1>1 DEF ServiceInv, TypeOK
<1>3. todo[s] \in Commands /\ up[s] \in Seq(Frames)
  BY SessionFacts DEF ServiceInv
<1>4. /\ op \in StorageOps /\ Tail(todo[s]) \in Seq(StorageOps)
      /\ Len(todo[s]) \in Nat /\ Len(Tail(todo[s])) = Len(todo[s]) - 1
      /\ \A i \in 1 .. Len(Tail(todo[s])) : Tail(todo[s])[i] = todo[s][i + 1]
  BY <1>1, <1>3, HeadTailProperties, LenProperties DEF Commands
<1>5. a \in Answers /\ KV!After(op) \in [Keys -> Stored]
  BY <1>4, Operation DEF ServiceInv, TypeOK
<1>6. TypeOK'
  BY <1>1, <1>4, <1>5 DEF ServiceInv, TypeOK
<1>7. /\ Left(s) # <<>> /\ Head(Left(s)) = todo[s]
      /\ Left(s)' = Remote!Rest(Left(s))
  <2>1. Left(s)' = Pending(Tail(todo[s]), up[s])
    BY <1>1, <1>2 DEF Left
  <2>2. QED
    BY <1>1, <1>3, <2>1, PendingFirst, PendingRest DEF Left
<1>8. store' = Remote!KV!After(op)
  BY <1>1 DEF KV!After, Remote!KV!After
<1>9. Lost(s)' = Lost(s) /\ HandlerInv(s) /\ CallInv(s)
  BY <1>1 DEF Lost, ServiceInv, SessionInv
<1> HIDE DEF op, a
<1>10. HandlerInv(s)'
  BY <1>1, <1>2, <1>5, <1>9, NoneIsNoAnswer DEF HandlerInv
<1>11. CASE Lost(s) \/ stray[s]
  <2>1. Answered(s)' = Answered(s)
    BY <1>1, <1>9, <1>11 DEF Answered
  <2>2. CallInv(s)'
    BY <1>1, <1>9, <1>11 DEF CallInv
  <2>3. QED
    BY <1>1, <1>6, <1>7, <1>8, <1>9, <1>10, <1>11, <2>1, <2>2 DEF SessionInv, op, client
<1>12. CASE ~Lost(s) /\ ~stray[s]
  <2>1. st[s] = "waiting" /\ Doing(s)
    BY <1>1, <1>9, <1>12 DEF CallInv, Sent, Replied, ServiceInv, TypeOK
  <2>2. op.op = call[s].op /\ \A i \in DOMAIN Tail(todo[s]) : Tail(todo[s])[i].op = call[s].op
    <3>1. DOMAIN todo[s] = 1 .. Len(todo[s]) /\ Len(todo[s]) > 0
      BY <1>1, <1>3, LenProperties, EmptySeq DEF Commands
    <3>2. op = todo[s][1] /\ 1 \in DOMAIN todo[s]
      BY <1>1, <1>4, <3>1 DEF op
    <3>3. DOMAIN Tail(todo[s]) = 1 .. Len(todo[s]) - 1
      BY <1>4, LenProperties
    <3>4. \A i \in DOMAIN Tail(todo[s]) : i + 1 \in DOMAIN todo[s]
      BY <1>4, <3>1, <3>3
    <3>5. QED
      BY <1>4, <2>1, <3>2, <3>3, <3>4 DEF Doing
  <2>3. /\ a = Remote!Tally(call[s], answer[s], Remote!KV!Result(op))
        /\ Suits(call[s], a)
    BY <1>4, <2>1, <2>2, Tallied DEF Doing, ServiceInv, a
  <2>4. Answered(s) = answer[s] /\ Answered(s)' = a
    BY <1>1, <1>2, <1>9, <1>12, <2>1 DEF Answered, Doing
  <2>5. Doing(s)'
    BY <1>1, <1>2, <2>1, <2>2, <2>3 DEF Doing
  <2>6. CallInv(s)'
    BY <1>1, <2>1, <2>5 DEF CallInv
  <2>7. QED
    BY <1>1, <1>6, <1>7, <1>8, <1>9, <1>10, <1>12, <2>3, <2>4, <2>6 DEF SessionInv, op, client
<1>13. QED
  BY <1>11, <1>12

\* The response is sent.
LEMMA RespondStep ==
  ASSUME ServiceInv, NEW s \in Sessions, Respond(s)
  PROVE  TypeOK' /\ SessionInv(s)' /\ (Loses(s) \/ Unseen(s)) /\ UNCHANGED <<store, client>>
<1>1. hpc[s] = "apply" /\ todo[s] = <<>>
  BY DEF Respond
<1>2. CASE link[s] # "open"
  <2>1. Drop(s) /\ UNCHANGED <<store, client>>
    BY <1>2 DEF Respond, Drop
  <2>2. QED
    BY <1>1, <2>1, DropStep
<1>3. CASE link[s] = "open"
  <2> DEFINE f == ResponseFrame(answer[s])
  <2>1. /\ down' = [down EXCEPT ![s] = Append(@, f)] /\ hpc' = [hpc EXCEPT ![s] = "read"]
        /\ answer' = [answer EXCEPT ![s] = <<"none">>]
        /\ UNCHANGED <<store, link, st, call, result, stray, up, todo>>
    BY <1>3 DEF Respond, client
  <2>2. down[s]' = Append(down[s], f) /\ hpc[s]' = "read" /\ answer[s]' = <<"none">>
    BY <2>1 DEF ServiceInv, TypeOK
  <2>3. HandlerInv(s) /\ CallInv(s) /\ answer[s] \in Answers
    BY <1>1 DEF ServiceInv, SessionInv, HandlerInv, TypeOK
  <2>4. f \in Responses /\ down[s] \in Seq(Responses)
    BY <2>3, SessionFacts DEF Responses, ServiceInv
  <2> HIDE DEF f
  <2>5. Append(down[s], f) \in Seq(Responses)
    BY <2>4, AppendProperties
  <2>6. TypeOK'
    BY <2>1, <2>5 DEF ServiceInv, TypeOK
  <2>7. HandlerInv(s)'
    BY <1>1, <1>3, <2>1, <2>2, <2>3 DEF HandlerInv
  <2>8. Left(s)' = Left(s) /\ Lost(s) = FALSE /\ Lost(s)' = FALSE
    BY <1>3, <2>1 DEF Left, Lost
  <2>9. CASE stray[s]
    BY <2>1, <2>6, <2>7, <2>8, <2>9 DEF SessionInv, CallInv, Unseen, Answered, client
  <2>10. CASE ~stray[s]
    <3>1. st[s] = "waiting" /\ Doing(s)
      BY <1>1, <2>3, <2>8, <2>10 DEF CallInv, Sent, Replied, ServiceInv, TypeOK
    <3>2. Suits(call[s], answer[s]) /\ down[s] = <<>> /\ up[s] = <<>> /\ Remote!Ops(call[s]) # <<>>
      BY <2>3, <3>1, NoneIsNoAnswer DEF Doing
    <3>3. down[s]' = <<f>> /\ down[s]' # <<>> /\ Head(down[s]') = f
      BY <2>2, <3>2, AppendFirst
    <3>4. Response(call[s], f) = answer[s]
      BY <2>3, <3>2, ResponseSuits DEF f
    <3>5. Answered(s) = answer[s] /\ Answered(s)' = answer[s]
      BY <2>1, <2>8, <2>10, <3>2, <3>3, <3>4 DEF Answered
    <3>6. Replied(s)'
      BY <2>1, <2>2, <2>3, <3>2, <3>3 DEF Replied, f
    <3>7. CallInv(s)'
      BY <2>1, <3>1, <3>6 DEF CallInv
    <3>8. QED
      BY <2>1, <2>6, <2>7, <2>8, <3>5, <3>7 DEF SessionInv, Unseen, client
  <2>11. QED
    BY <2>9, <2>10
<1>4. QED
  BY <1>2, <1>3

-----------------------------------------------------------------------------
(* Service implements RemoteStore *)

\* A step that RemoteStore does not see.
LEMMA UnseenStep ==
  ASSUME TypeOK, NEW s \in Sessions, SessionNext(s), Unseen(s), UNCHANGED <<store, client>>
  PROVE  UNCHANGED Remote!rvars
<1> DEFINE left == [q \in Sessions |-> Left(q)]
           ans  == [q \in Sessions |-> Answered(q)]
           lost == [q \in Sessions |-> Lost(q)]
<1>1. /\ left' = [left EXCEPT ![s] = Left(s)]
      /\ ans' = [ans EXCEPT ![s] = Answered(s)]
      /\ lost' = [lost EXCEPT ![s] = Lost(s)]
  BY Lift DEF Unseen
<1>2. left' = left /\ ans' = ans /\ lost' = lost
  BY <1>1
<1>3. QED
  BY <1>2 DEF Remote!rvars, client

\* A step that loses commands or answers.
LEMMA LosesStep ==
  ASSUME TypeOK, NEW s \in Sessions, SessionNext(s), Loses(s), UNCHANGED <<store, client>>
  PROVE  Remote!Lose(s)
<1> DEFINE left == [q \in Sessions |-> Left(q)]
           ans  == [q \in Sessions |-> Answered(q)]
           lost == [q \in Sessions |-> Lost(q)]
<1>1. /\ left' = [left EXCEPT ![s] = Left(s)']
      /\ ans' = [ans EXCEPT ![s] = <<"none">>]
      /\ lost' = [lost EXCEPT ![s] = Lost(s)']
  BY Lift DEF Loses
<1>2. left[s] = Left(s)
  OBVIOUS
<1>3. \E n \in 0 .. Len(left[s]) : left' = [left EXCEPT ![s] = SubSeq(@, 1, n)]
  BY <1>1, <1>2 DEF Loses
<1>4. lost' = [lost EXCEPT ![s] = TRUE] \/ (stray[s] /\ lost' = lost)
  <2>1. CASE Lost(s)' = TRUE
    BY <1>1, <2>1
  <2>2. CASE stray[s] /\ Lost(s)' = Lost(s)
    BY <1>1, <2>2
  <2>3. QED
    BY <2>1, <2>2 DEF Loses
<1>5. QED
  BY <1>1, <1>3, <1>4 DEF Remote!Lose, client

\* Every step of a session is one that RemoteStore allows, or sees nothing of.
LEMMA SessionRefines ==
  ASSUME ServiceInv, NEW s \in Sessions, SessionNext(s)
  PROVE  /\ TypeOK' /\ SessionInv(s)'
         /\ Remote!Next \/ UNCHANGED Remote!rvars
<1> DEFINE left == [q \in Sessions |-> Left(q)]
           ans  == [q \in Sessions |-> Answered(q)]
           lost == [q \in Sessions |-> Lost(q)]
<1>0. TypeOK /\ left[s] = Left(s) /\ ans[s] = Answered(s) /\ lost[s] = Lost(s)
  BY DEF ServiceInv
<1>a. /\ left' = [left EXCEPT ![s] = Left(s)']
      /\ ans' = [ans EXCEPT ![s] = Answered(s)']
      /\ lost' = [lost EXCEPT ![s] = Lost(s)']
  BY <1>0, Lift
<1>b. ASSUME Loses(s) \/ Unseen(s), UNCHANGED <<store, client>>
      PROVE  Remote!Next \/ UNCHANGED Remote!rvars
  BY <1>0, <1>b, LosesStep, UnseenStep DEF Remote!Next
<1>1. CASE Connect(s)
  <2>1. Unseen(s) /\ UNCHANGED <<store, client>>
    BY <1>1, ConnectStep DEF Unseen, Connect
  <2>2. QED
    BY <1>1, <1>b, <2>1, ConnectStep
<1>2. CASE \E r \in Calls[s] : Call(s, r)
  <2>1. PICK r \in Calls[s] : Call(s, r)
    BY <1>2
  <2>2. /\ TypeOK' /\ SessionInv(s)'
        /\ IF link[s] = "open" THEN Left(s)' = Append(Left(s), Remote!Ops(r)) /\ ~Lost(s)
           ELSE Left(s)' = Left(s) /\ (Lost(s) \/ stray[s])
        /\ Lost(s)' = Lost(s) /\ Answered(s)' = Answered(s)
    BY <2>1, CallStep
  <2>3. ans' = ans /\ lost' = lost
    BY <1>a, <2>2
  <2>4. \/ (lost[s] \/ stray[s]) /\ left' = left
        \/ ~lost[s] /\ left' = [left EXCEPT ![s] = Append(@, Remote!Ops(r))]
    BY <1>0, <1>a, <2>2
  <2>5. Remote!Call(s, r)
    BY <2>1, <2>3, <2>4 DEF Remote!Call, Call, server
  <2>6. QED
    BY <2>2, <2>5 DEF Remote!Next
<1>3. CASE ReadResponse(s)
  <2>1. /\ TypeOK' /\ SessionInv(s)'
        /\ Left(s)' = Left(s) /\ Answered(s)' = <<"none">>
        /\ stray[s] => Answered(s) = <<"none">> /\ Remote!IsAnswer(result[s]')
        /\ ~stray[s] => /\ Left(s) = <<>> /\ ~Lost(s) /\ Remote!Ops(call[s]) # <<>>
                        /\ result[s]' = Answered(s)
    BY <1>3, ReadResponseStep
  <2>2. /\ st[s] = "waiting" /\ st' = [st EXCEPT ![s] = "idle"]
        /\ call' = [call EXCEPT ![s] = NoCall] /\ result' = [result EXCEPT ![s] = result[s]']
        /\ UNCHANGED <<store, stray>>
    BY <1>0, <1>3 DEF ReadResponse, Returns, server, TypeOK
  <2>3. /\ left' = left /\ ans' = [ans EXCEPT ![s] = <<"none">>]
        /\ \E b \in BOOLEAN : lost' = [lost EXCEPT ![s] = b]
    <3>1. Lost(s)' \in BOOLEAN
      BY DEF Lost
    <3>2. QED
      BY <1>a, <2>1, <3>1
  <2>4. CASE stray[s]
    <3>1. ans' = ans
      BY <1>0, <2>1, <2>3, <2>4
    <3>2. Remote!ReturnStray(s)
      BY <2>1, <2>2, <2>3, <2>4, <3>1 DEF Remote!ReturnStray, Remote!Over, Remote!NoCall, NoCall
    <3>3. QED
      BY <2>1, <3>2 DEF Remote!Next
  <2>5. CASE ~stray[s]
    <3>1. Remote!Return(s)
      BY <1>0, <2>1, <2>2, <2>3, <2>5 DEF Remote!Return, Remote!Over, Remote!NoCall, NoCall
    <3>2. QED
      BY <2>1, <3>1 DEF Remote!Next
  <2>6. QED
    BY <2>4, <2>5
<1>4. CASE ReadClosed(s)
  <2>1. /\ TypeOK' /\ SessionInv(s)' /\ Lost(s)
        /\ Lost(s)' = Lost(s) /\ Left(s)' = Left(s) /\ Answered(s)' = Answered(s)
    BY <1>4, ReadClosedStep
  <2>2. left' = left /\ ans' = ans /\ lost' = lost
    BY <1>a, <2>1
  <2>3. Remote!Fail(s)
    BY <1>0, <1>4, <2>1, <2>2 DEF Remote!Fail, Remote!Over, Remote!NoCall, NoCall, ReadClosed, Returns, server
  <2>4. QED
    BY <2>1, <2>3 DEF Remote!Next
<1>5. CASE Cancel(s)
  <2>1. /\ TypeOK' /\ SessionInv(s)'
        /\ Lost(s)' = Lost(s) /\ Left(s)' = Left(s) /\ Answered(s)' = <<"none">>
    BY <1>5, CancelStep
  <2>2. left' = left /\ ans' = [ans EXCEPT ![s] = <<"none">>] /\ lost' = lost
    BY <1>a, <2>1
  <2>3. Remote!Abandon(s)
    BY <1>5, <2>2 DEF Remote!Abandon, Remote!Over, Remote!NoCall, NoCall, Cancel, Returns, server
  <2>4. QED
    BY <2>1, <2>3 DEF Remote!Next
<1>6. CASE Break(s)
  <2>1. UNCHANGED <<store, client>>
    BY <1>6 DEF Break, server
  <2>2. QED
    BY <1>6, <1>b, <2>1, BreakStep
<1>7. CASE ReadCommand(s)
  BY <1>7, <1>b, ReadCommandStep
<1>8. CASE HandlerEnds(s) \/ ApplyFails(s)
  <2>1. Drop(s) /\ hpc[s] # "none" /\ UNCHANGED <<store, client>>
    BY <1>8 DEF HandlerEnds, ApplyFails, Drop
  <2>2. QED
    BY <1>b, <2>1, DropStep
<1>9. CASE ApplyOp(s)
  <2> DEFINE op == Head(Head(Left(s)))
  <2>1. /\ TypeOK' /\ SessionInv(s)' /\ UNCHANGED client
        /\ Left(s) # <<>> /\ Head(Left(s)) # <<>> /\ Left(s)' = Remote!Rest(Left(s))
        /\ store' = Remote!KV!After(op) /\ Lost(s)' = Lost(s)
        /\ Answered(s)' = IF Lost(s) \/ stray[s] THEN Answered(s)
                          ELSE Remote!Tally(call[s], Answered(s), Remote!KV!Result(op))
    BY <1>9, ApplyOpStep
  <2>2. /\ left' = [left EXCEPT ![s] = Remote!Rest(@)] /\ lost' = lost
        /\ ans' = [ans EXCEPT ![s] = IF lost[s] \/ stray[s] THEN @
                                     ELSE Remote!Tally(call[s], @, Remote!KV!Result(op))]
    BY <1>0, <1>a, <2>1
  <2>3. Remote!Effect(s)
    BY <1>0, <2>1, <2>2 DEF Remote!Effect, client
  <2>4. QED
    BY <2>1, <2>3 DEF Remote!Next
<1>10. CASE Respond(s)
  BY <1>10, <1>b, RespondStep
<1>11. QED
  BY <1>1, <1>2, <1>3, <1>4, <1>5, <1>6, <1>7, <1>8, <1>9, <1>10 DEF SessionNext

\* Initially nothing is under way.
LEMMA ServiceInit ==
  ASSUME Init
  PROVE  ServiceInv /\ Remote!Init
<1>1. <<>> \in Seq(Frames) /\ <<>> \in Seq(Responses) /\ <<>> \in Seq(StorageOps)
  BY EmptySeq
<1>2. TypeOK
  BY <1>1 DEF Init, TypeOK, Stored
<1>3. ASSUME NEW s \in Sessions
      PROVE  SessionInv(s) /\ Left(s) = <<>> /\ Answered(s) = <<"none">> /\ Lost(s) = FALSE
  <2>1. todo[s] = <<>> /\ up[s] = <<>> /\ Lost(s) = FALSE
    BY DEF Init, Lost
  <2>2. Left(s) = <<>>
    BY <1>2, <2>1, SessionFacts
  <2>3. HandlerInv(s) /\ CallInv(s)
    BY DEF Init, HandlerInv, CallInv
  <2>4. Answered(s) = <<"none">>
    BY <2>1 DEF Init, Answered
  <2>5. QED
    BY <2>1, <2>2, <2>3, <2>4 DEF SessionInv
<1>4. Remote!Init
  BY <1>3 DEF Init, Remote!Init, NoCall, Remote!NoCall
<1>5. QED
  BY <1>2, <1>3, <1>4 DEF ServiceInv

\* Every step keeps the invariant and is one of RemoteStore or a stutter.
LEMMA ServiceNext ==
  ASSUME ServiceInv, [Next]_vars
  PROVE  ServiceInv' /\ [Remote!Next]_(Remote!rvars)
<1>1. CASE \E s \in Sessions : SessionNext(s)
  <2>1. PICK s \in Sessions : SessionNext(s)
    BY <1>1
  <2>2. TypeOK' /\ SessionInv(s)' /\ (Remote!Next \/ UNCHANGED Remote!rvars)
    BY <2>1, SessionRefines
  <2>3. \A q \in Sessions \ {s} : SessionInv(q)'
    BY <2>1, OthersSame, SameKept DEF ServiceInv
  <2>4. QED
    BY <2>2, <2>3 DEF ServiceInv
<1>2. CASE Shutdown \/ UNCHANGED vars
  <2>1. UNCHANGED <<store, link, st, call, result, up, down, hpc, todo, answer, stray>>
    BY <1>2 DEF Shutdown, vars, client, server
  <2>2. TypeOK'
    BY <2>1 DEF ServiceInv, TypeOK
  <2>3. \A q \in Sessions : Same(q)
    BY <2>1 DEF Same
  <2>4. \A q \in Sessions : SessionInv(q)' /\ Left(q)' = Left(q) /\ Lost(q)' = Lost(q) /\ Answered(q)' = Answered(q)
    BY <2>3, SameKept DEF ServiceInv
  <2>5. UNCHANGED Remote!rvars
    BY <2>1, <2>4 DEF Remote!rvars
  <2>6. QED
    BY <2>2, <2>4, <2>5 DEF ServiceInv
<1>3. QED
  BY <1>1, <1>2 DEF Next, SessionNext

\* Client library and server implement RemoteStore: for any number of
\* sessions, whatever calls they make, cancel or have refused, wherever a
\* connection, a storage operation or the server ends, the operations of a
\* call take effect in order and at most once, none behind a refused
\* command, and a call of a session that has cancelled none returns the
\* result of its own operations, all of them done.
THEOREM ImplementsRemoteStore == Spec => RefinesRemoteStore
<1>1. Init => ServiceInv /\ Remote!Init
  BY ServiceInit
<1>2. ServiceInv /\ [Next]_vars => ServiceInv' /\ [Remote!Next]_(Remote!rvars)
  BY ServiceNext
<1>3. QED
  BY <1>1, <1>2, PTL DEF Spec, RefinesRemoteStore, Remote!Spec
=============================================================================
