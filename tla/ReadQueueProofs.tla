---------------------------- MODULE ReadQueueProofs ----------------------------
(***************************************************************************)
(* Theorems about ReadQueue, for every alignment, word, least read,        *)
(* receive buffer and head limit: that a read can leave its chunk only when*)
(* an earlier one filled it, that the chunks hold the bytes received, and  *)
(* that the search over the chunks and the copy implement HeadReader.      *)
(*                                                                         *)
(* Places are pairs of a chunk and a position in its text; Pos() is where a*)
(* place is in the text of all chunks one behind the other, and orders the *)
(* places as the text does (OrderOfPlaces).  The search is proved on the   *)
(* text, once for all cuttings into chunks.                                *)
(***************************************************************************)
EXTENDS ReadQueue, SequenceLemmas

ChunkRecord == [size : Nat, used : Nat, mem : Seq(Bytes)]

(* A chunk counts the text it holds, and has room for it, with the NUL at  *)
(* worst one byte behind it.                                               *)
Sound(c) == Len(c.mem) = StringLength(c) /\ c.used <= c.size + 1

ChunksFit ==
    /\ chunks \in Seq(ChunkRecord)
    /\ \A k \in 1 .. Len(chunks) : Sound(chunks[k])

(* What has been asked of read() fits into the last chunk, unless that one *)
(* was full when it was asked for.                                         *)
Fits(c, n) == StringLength(c) + n <= c.size \/ c.used = c.size + 1

ReadFits ==
    /\ inbox \in Seq(Bytes) /\ need \in Nat
    /\ pc = "reading" => chunks # <<>> /\ Fits(LastChunk, need)
    /\ pc = "overwritten" => chunks # <<>> /\ LastChunk.used = LastChunk.size + 1

IInv == ChunksFit /\ ReadFits

-----------------------------------------------------------------------------
(* Rounding up to a multiple gives no less.                                *)
LEMMA AlignedIsEnough ==
    ASSUME NEW n \in Nat
    PROVE  AlignSize(n) \in Nat /\ AlignSize(n) >= n
<1> DEFINE m == n + Align - 1
<1> USE ReadSizes
<1>1. m \in Nat
  OBVIOUS
<1>2. m = Align * (m \div Align) + (m % Align) /\ m \div Align \in Nat
      /\ m % Align \in 0 .. Align - 1
  BY <1>1
<1>3. AlignSize(n) = Align * (m \div Align)
  BY <1>2 DEF AlignSize
<1> QED BY <1>1, <1>2, <1>3

(* Allocating gives an empty chunk of at least that size, or nothing new.  *)
LEMMA Allocated ==
    ASSUME NEW c \in ChunkRecord, NEW n \in Nat
    PROVE  /\ AllocSize(c, n) \in ChunkRecord
           /\ AllocSize(c, n).used = 0 \/ AllocSize(c, n) = c
           /\ AllocSize(c, n).size >= n
           /\ Sound(c) => Sound(AllocSize(c, n))
<1>1. AlignSize(n) \in Nat /\ AlignSize(n) >= n
  BY AlignedIsEnough
<1>2. CASE c.size >= n
  BY <1>2 DEF AllocSize, ChunkRecord
<1>3. CASE ~(c.size >= n)
  <2>1. <<>> \in Seq(Bytes) /\ Len(<<>>) = 0
    OBVIOUS
  <2>2. AllocSize(c, n) = [size |-> AlignSize(n), used |-> 0, mem |-> <<>>]
    BY <1>3 DEF AllocSize
  <2> QED BY <1>1, <2>1, <2>2 DEF ChunkRecord, Sound, StringLength
<1> QED BY <1>2, <1>3

(* A chunk that seems to have n bytes left has them, or is full.           *)
LEMMA RemainingIsReal ==
    ASSUME NEW c \in ChunkRecord, Sound(c), NEW n \in Nat,
           RemainingBytes(c) >= n
    PROVE  Fits(c, n)
<1>1. c.size \in Nat /\ c.used \in Nat /\ Word \in Nat \ {0} /\ c.used <= c.size + 1
  BY WordIsWide, ReadSizes DEF ChunkRecord, Sound
<1>2. CASE c.used = 0
  BY <1>1, <1>2 DEF Fits, RemainingBytes, StringLength
<1>3. CASE c.used > 0 /\ c.used <= c.size
  <2>1. c.size - c.used \in Nat
    BY <1>1, <1>3
  <2>2. (c.size - c.used) % Word <= c.size - c.used
    BY ONLY <1>1, <2>1
  <2>3. (c.size - c.used) % Word >= n
    BY <1>1, <1>3 DEF RemainingBytes
  <2>4. (c.size - c.used) % Word \in Int
    BY ONLY <1>1, <2>1
  <2> QED BY <1>1, <1>3, <2>2, <2>3, <2>4 DEF Fits, StringLength
<1>4. CASE c.used = c.size + 1
  BY <1>4 DEF Fits
<1> QED BY <1>1, <1>2, <1>3, <1>4

(* Memory that is picked for n bytes is the last chunk, and has them or is *)
(* full; the other chunks are as they were.                                *)
LEMMA MemoryPicked ==
    ASSUME ChunksFit, NEW n \in Nat, chunks' = GetMemory(n)
    PROVE  ChunksFit' /\ chunks' # <<>> /\ Fits(LastChunk', n)
<1> DEFINE c == IF LastChunk.used = 0 THEN AllocSize(LastChunk, n) ELSE LastChunk
           new == AllocSize(Unallocated, n)
<1>1. CASE chunks # <<>> /\ RemainingBytes(c) >= n
  <2>1. LastChunk \in ChunkRecord /\ Sound(LastChunk) /\ Len(chunks) \in Nat
        /\ Len(chunks) \in 1 .. Len(chunks)
    BY <1>1 DEF ChunksFit, LastChunk
  <2>2. c \in ChunkRecord /\ Sound(c)
    BY <2>1, Allocated
  <2>3. Fits(c, n)
    BY <1>1, <2>2, RemainingIsReal
  <2>4. chunks' = [chunks EXCEPT ![Len(chunks)] = c]
    BY <1>1 DEF GetMemory
  <2> HIDE DEF c
  <2>5. chunks' \in Seq(ChunkRecord) /\ Len(chunks') = Len(chunks) /\ chunks'[Len(chunks)] = c
        /\ \A k \in 1 .. Len(chunks) : k # Len(chunks) => chunks'[k] = chunks[k]
    BY <2>1, <2>2, <2>4 DEF ChunksFit
  <2>6. ChunksFit'
    BY <2>2, <2>5 DEF ChunksFit
  <2>7. chunks' # <<>> /\ LastChunk' = c
    BY <2>1, <2>5 DEF LastChunk
  <2> QED BY <2>3, <2>6, <2>7
<1>2. CASE ~(chunks # <<>> /\ RemainingBytes(c) >= n)
  <2>1. Unallocated \in ChunkRecord /\ Unallocated.used = 0 /\ Sound(Unallocated)
    BY DEF Unallocated, ChunkRecord, Sound, StringLength
  <2>2. new \in ChunkRecord /\ new.used = 0 /\ new.size >= n /\ Sound(new)
    BY <2>1, Allocated
  <2>3. chunks' = Append(chunks, new)
    BY <1>2 DEF GetMemory
  <2> HIDE DEF new
  <2>4. chunks' \in Seq(ChunkRecord) /\ Len(chunks') = Len(chunks) + 1 /\ Len(chunks) \in Nat
        /\ chunks'[Len(chunks) + 1] = new
        /\ \A k \in 1 .. Len(chunks) : chunks'[k] = chunks[k]
    BY <2>2, <2>3 DEF ChunksFit
  <2>5. new.size \in Nat
    BY <2>2 DEF ChunkRecord
  <2>6. ChunksFit'
    BY <2>2, <2>4, <2>5 DEF ChunksFit
  <2>7. chunks' # <<>> /\ LastChunk' = new
    BY <2>4 DEF LastChunk
  <2> QED BY <2>2, <2>5, <2>6, <2>7 DEF Fits, StringLength
<1> QED BY <1>1, <1>2

(* What is stored within a chunk is counted once, with one NUL.            *)
LEMMA StoredFits ==
    ASSUME NEW c \in ChunkRecord, Sound(c), NEW b \in Seq(Bytes), Len(b) > 0,
           StringLength(c) + Len(b) <= c.size
    PROVE  Store(c, b) \in ChunkRecord /\ Sound(Store(c, b))
<1>1. c.size \in Nat /\ c.used \in Nat /\ c.mem \in Seq(Bytes) /\ Len(b) \in Nat
      /\ Len(c.mem) = StringLength(c) /\ StringLength(c) \in Nat
  BY DEF ChunkRecord, StringLength, Sound
<1>2. Text(c) \in Seq(Bytes) /\ Len(Text(c)) = StringLength(c)
  BY <1>1 DEF Text
<1>3. Text(c) \o b \in Seq(Bytes) /\ Len(Text(c) \o b) = StringLength(c) + Len(b)
  BY ONLY <1>2, b \in Seq(Bytes)
<1> DEFINE used == IF StringLength(c) = 0 THEN Len(b) + 1 ELSE c.used + Len(b)
           text == Text(c) \o b
<1>4. used = StringLength(c) + Len(b) + 1
  BY <1>1 DEF StringLength
<1>5. Store(c, b) = [c EXCEPT !.mem = text, !.used = used]
  BY DEF Store
<1> HIDE DEF used, text
<1>6. /\ Store(c, b).size = c.size /\ Store(c, b).used = used /\ Store(c, b).mem = text
      /\ Store(c, b) \in ChunkRecord
  <2>1. text \in Seq(Bytes) /\ used \in Nat
    BY <1>1, <1>3, <1>4 DEF text
  <2> QED BY <1>5, <2>1 DEF ChunkRecord
<1>7. StringLength(Store(c, b)) = StringLength(c) + Len(b)
  BY <1>1, <1>4, <1>6 DEF StringLength
<1> QED BY <1>1, <1>3, <1>4, <1>6, <1>7 DEF Sound, text

(* The last chunk of a sound queue is sound.                               *)
LEMMA LastIsSound ==
    ASSUME ChunksFit, chunks # <<>>
    PROVE  /\ LastChunk \in ChunkRecord /\ Sound(LastChunk) /\ Len(chunks) \in 1 .. Len(chunks)
           /\ LastChunk.size \in Nat /\ StringLength(LastChunk) \in Nat
<1>1. Len(chunks) \in 1 .. Len(chunks)
  BY DEF ChunksFit
<1>2. LastChunk \in ChunkRecord /\ Sound(LastChunk)
  BY <1>1 DEF ChunksFit, LastChunk
<1> QED BY <1>1, <1>2 DEF ChunkRecord, StringLength

-----------------------------------------------------------------------------
(* There are no chunks to begin with.                                      *)
LEMMA Initially == Init => IInv
  BY DEF Init, IInv, ChunksFit, ReadFits

(* Every step keeps the chunks sound, and the read within the last chunk   *)
(* unless that one was full.                                               *)
LEMMA Inductive == IInv /\ [Next]_vars => IInv'
<1> SUFFICES ASSUME IInv, [Next]_vars PROVE IInv' OBVIOUS
<1>t. ChunksFit /\ inbox \in Seq(Bytes) /\ Len(inbox) \in Nat /\ need \in Nat
  BY DEF IInv, ReadFits
<1>1. CASE PickMemory
  <2>1. need' \in Nat /\ chunks' = GetMemory(need')
    BY <1>1, <1>t, ReadSizes DEF PickMemory, NeedBytes
  <2>2. ChunksFit' /\ chunks' # <<>> /\ Fits(LastChunk', need')
    BY <1>t, <2>1, MemoryPicked
  <2>3. pc' = "reading" /\ inbox' = inbox
    BY <1>1 DEF PickMemory
  <2> QED BY <1>t, <2>1, <2>2, <2>3 DEF IInv, ReadFits
<1>2. CASE ReadNothing
  BY <1>2 DEF ReadNothing, IInv, ChunksFit, ReadFits
<1>3. CASE ReadData
  <2>1. PICK n \in 1 .. Len(inbox) :
            /\ StringLength(LastChunk) + n <= LastChunk.size
            /\ chunks' = [chunks EXCEPT ![Len(chunks)] = Store(@, SubSeq(inbox, 1, n))]
            /\ inbox' = SubSeq(inbox, n + 1, Len(inbox))
    BY <1>3 DEF ReadData
  <2>2. LastChunk \in ChunkRecord /\ Sound(LastChunk) /\ Len(chunks) \in 1 .. Len(chunks)
    BY <1>3, <1>t, LastIsSound DEF ReadData, IInv, ReadFits
  <2>3. SubSeq(inbox, 1, n) \in Seq(Bytes) /\ Len(SubSeq(inbox, 1, n)) = n
        /\ inbox' \in Seq(Bytes)
    BY <1>t, <2>1
  <2>4. /\ Store(LastChunk, SubSeq(inbox, 1, n)) \in ChunkRecord
        /\ Sound(Store(LastChunk, SubSeq(inbox, 1, n)))
    <3> DEFINE b == SubSeq(inbox, 1, n)
    <3>1. b \in Seq(Bytes) /\ Len(b) > 0 /\ StringLength(LastChunk) + Len(b) <= LastChunk.size
      BY <2>1, <2>3
    <3> HIDE DEF b
    <3>2. Store(LastChunk, b) \in ChunkRecord /\ Sound(Store(LastChunk, b))
      BY <2>2, <3>1, StoredFits
    <3> QED BY <3>2 DEF b
  <2>5. ChunksFit'
    BY <2>1, <2>2, <2>4 DEF IInv, ChunksFit, LastChunk
  <2>6. need' = 0 /\ pc' \in {"head", "refused", "await"}
    BY <1>3 DEF ReadData, Scan
  <2> QED BY <2>3, <2>5, <2>6 DEF IInv, ReadFits
<1>4. CASE ReadOutside
  <2>1. PICK n \in 1 .. Len(inbox) : n <= need /\ StringLength(LastChunk) + n > LastChunk.size
    BY <1>4 DEF ReadOutside
  <2>2. chunks # <<>> /\ Fits(LastChunk, need)
    BY <1>4 DEF ReadOutside, IInv, ReadFits
  <2>3. LastChunk.size \in Nat /\ StringLength(LastChunk) \in Nat
    BY <1>t, <2>2, LastIsSound
  <2>4. LastChunk.used = LastChunk.size + 1
    BY <1>t, <2>1, <2>2, <2>3 DEF Fits
  <2> QED BY <1>4, <2>2, <2>4 DEF ReadOutside, IInv, ChunksFit, ReadFits, LastChunk
<1>5. CASE Reset
  BY <1>5 DEF Reset, IInv, ChunksFit, ReadFits
<1>6. CASE ClientSend
  <2>1. inbox' \in Seq(Bytes)
    BY <1>6, <1>t DEF ClientSend
  <2> QED BY <1>6, <2>1 DEF ClientSend, IInv, ChunksFit, ReadFits, LastChunk
<1>7. CASE UNCHANGED vars
  BY <1>7 DEF vars, IInv, ChunksFit, ReadFits, LastChunk
<1> QED BY <1>1, <1>2, <1>3, <1>4, <1>5, <1>6, <1>7 DEF Next

(* No text outgrows its chunk, and a read can go outside a chunk only when *)
(* an earlier one has filled it to the last byte, however many bytes come, *)
(* are asked for and are read at a time.                                   *)
THEOREM OutsideOnlyFull == Spec => []OutsideOnlyWhenFull
<1>1. IInv => OutsideOnlyWhenFull
  <2> SUFFICES ASSUME IInv PROVE OutsideOnlyWhenFull OBVIOUS
  <2>1. ASSUME NEW k \in DOMAIN chunks PROVE StringLength(chunks[k]) <= chunks[k].size
    <3>1. chunks[k] \in ChunkRecord /\ Sound(chunks[k])
      BY <2>1 DEF IInv, ChunksFit
    <3> QED BY <3>1 DEF ChunkRecord, Sound, StringLength
  <2> QED BY <2>1 DEF IInv, ReadFits, OutsideOnlyWhenFull
<1> QED BY Initially, Inductive, <1>1, PTL DEF Spec

-----------------------------------------------------------------------------
(* The text of a queue                                                     *)

QueueOK(q) == q \in Seq(ChunkRecord) /\ \A k \in 1 .. Len(q) : Sound(q[k])

TextsOf(q, k) == [i \in 1 .. k |-> Text(q[i])]

(* What the first k chunks hold.                                           *)
Upto(q, k) == FlattenSeq(TextsOf(q, k))

(* The text of a chunk is all that is stored in it.                        *)
LEMMA TextIs ==
    ASSUME NEW c \in ChunkRecord, Sound(c)
    PROVE  /\ Text(c) = c.mem /\ Text(c) \in Seq(Bytes) /\ Len(Text(c)) = StringLength(c)
           /\ StringLength(c) \in Nat
<1>1. c.mem \in Seq(Bytes) /\ Len(c.mem) = StringLength(c) /\ StringLength(c) \in Nat
  BY DEF ChunkRecord, Sound, StringLength
<1>2. SubSeq(c.mem, 1, Len(c.mem)) = c.mem
  BY <1>1
<1> QED BY <1>1, <1>2 DEF Text

(* A further chunk adds its text.                                          *)
LEMMA UptoAdds ==
    ASSUME NEW q, QueueOK(q), NEW k \in 1 .. Len(q)
    PROVE  /\ Upto(q, k - 1) \in Seq(Bytes) /\ Upto(q, k) \in Seq(Bytes)
           /\ Upto(q, k) = Upto(q, k - 1) \o Text(q[k])
<1> DEFINE S == Seq(Bytes)
           t == TextsOf(q, k - 1)
<1>1. \A i \in 1 .. Len(q) : Text(q[i]) \in S
  BY TextIs DEF QueueOK
<1>2. Len(q) \in Nat /\ k \in Nat /\ k - 1 \in Nat /\ Text(q[k]) \in S
  BY <1>1 DEF QueueOK
<1>3. t \in Seq(S) /\ Len(t) = k - 1 /\ \A i \in 1 .. k - 1 : t[i] = Text(q[i])
  <2> HIDE DEF S
  <2> QED BY <1>1, <1>2 DEF TextsOf
<1>4. TextsOf(q, k) = Append(t, Text(q[k]))
  <2> HIDE DEF S, t
  <2>1. Append(t, Text(q[k])) = [i \in 1 .. k |-> IF i = k THEN Text(q[k]) ELSE t[i]]
    BY <1>2, <1>3
  <2> QED BY <1>2, <1>3, <2>1 DEF TextsOf
<1> HIDE DEF t
<1>5. FlattenSeq(t) \in S /\ FlattenSeq(Append(t, Text(q[k]))) = FlattenSeq(t) \o Text(q[k])
  BY <1>2, <1>3, FlattenType, FlattenAppend
<1>6. Upto(q, k - 1) = FlattenSeq(t) /\ Upto(q, k) = FlattenSeq(t) \o Text(q[k])
  BY <1>4, <1>5 DEF Upto, t
<1> QED BY <1>2, <1>5, <1>6

(* No chunks hold no text.                                                 *)
LEMMA UptoNothing == ASSUME NEW q PROVE Upto(q, 0) = <<>>
<1>1. TextsOf(q, 0) = <<>>
  BY DEF TextsOf
<1> QED BY <1>1, FlattenEmpty DEF Upto

(* What the first chunks hold is of bytes, and remains where it is.        *)
LEMMA UptoGrows ==
    ASSUME NEW q, QueueOK(q), NEW k \in 0 .. Len(q)
    PROVE  /\ Upto(q, k) \in Seq(Bytes)
           /\ \A j \in 0 .. k :
                /\ Upto(q, j) \in Seq(Bytes) /\ Len(Upto(q, j)) <= Len(Upto(q, k))
                /\ \A x \in 1 .. Len(Upto(q, j)) : Upto(q, k)[x] = Upto(q, j)[x]
<1> DEFINE Grown(j, n) ==
               /\ Upto(q, j) \in Seq(Bytes) /\ Len(Upto(q, j)) <= Len(Upto(q, n))
               /\ \A x \in 1 .. Len(Upto(q, j)) : Upto(q, n)[x] = Upto(q, j)[x]
           S == {n \in Nat : n <= Len(q) =>
                    Upto(q, n) \in Seq(Bytes) /\ \A j \in 0 .. n : Grown(j, n)}
<1>0. Len(q) \in Nat
  BY DEF QueueOK
<1>1. 0 \in S
  <2>1. Upto(q, 0) = <<>> /\ <<>> \in Seq(Bytes)
    BY UptoNothing
  <2>2. Grown(0, 0)
    <3>1. Len(Upto(q, 0)) <= Len(Upto(q, 0))
      BY <2>1
    <3> QED BY <2>1, <3>1
  <2> HIDE DEF Grown
  <2>3. \A j \in 0 .. 0 : Grown(j, 0)
    BY <2>2
  <2> QED BY <2>1, <2>3
<1>2. ASSUME NEW n \in Nat, n \in S, n + 1 <= Len(q)
      PROVE  Upto(q, n + 1) \in Seq(Bytes) /\ \A j \in 0 .. n + 1 : Grown(j, n + 1)
  <2>1. /\ Upto(q, n) \in Seq(Bytes) /\ Upto(q, n + 1) \in Seq(Bytes)
        /\ Upto(q, n + 1) = Upto(q, n) \o Text(q[n + 1]) /\ Text(q[n + 1]) \in Seq(Bytes)
    <3>1. n + 1 \in 1 .. Len(q) /\ (n + 1) - 1 = n
      BY <1>0, <1>2
    <3>2. q[n + 1] \in ChunkRecord /\ Sound(q[n + 1])
      BY <3>1 DEF QueueOK
    <3> QED BY <3>1, <3>2, UptoAdds, TextIs
  <2>2. /\ Len(Upto(q, n)) <= Len(Upto(q, n + 1))
        /\ \A x \in 1 .. Len(Upto(q, n)) : Upto(q, n + 1)[x] = Upto(q, n)[x]
    BY <2>1
  <2>3. \A j \in 0 .. n : Grown(j, n)
    BY <1>0, <1>2
  <2>4. ASSUME NEW j \in 0 .. n + 1 PROVE Grown(j, n + 1)
    <3>1. CASE j = n + 1
      BY <2>1, <3>1
    <3>2. CASE j \in 0 .. n
      <4>1. /\ Upto(q, j) \in Seq(Bytes) /\ Len(Upto(q, j)) <= Len(Upto(q, n))
            /\ \A x \in 1 .. Len(Upto(q, j)) : Upto(q, n)[x] = Upto(q, j)[x]
        BY <2>3, <3>2
      <4>2. /\ Len(Upto(q, j)) \in Nat /\ Len(Upto(q, n)) \in Nat /\ Len(Upto(q, n + 1)) \in Nat
        BY <2>1, <4>1
      <4> QED BY <2>2, <4>1, <4>2
    <3> QED BY <3>1, <3>2
  <2> QED BY <2>1, <2>4
<1> HIDE DEF Grown
<1>3. \A n \in Nat : n \in S => n + 1 \in S
  BY <1>0, <1>2
<1>4. Nat \subseteq S
  <2> HIDE DEF S
  <2> QED BY <1>1, <1>3, Induction
<1>5. Upto(q, k) \in Seq(Bytes) /\ \A j \in 0 .. k : Grown(j, k)
  BY <1>0, <1>4
<1> QED BY <1>5 DEF Grown

-----------------------------------------------------------------------------
(* Places in a queue, and positions in its text                            *)

Whole(q) == Upto(q, Len(q))

Pos(q, p) == Len(Upto(q, p[1] - 1)) + p[2]

(* A place is a chunk and a position in the text of that chunk.            *)
LEMMA PlaceIs ==
    ASSUME NEW q, QueueOK(q), NEW p \in Places(q)
    PROVE  /\ p[1] \in 1 .. Len(q) /\ p[2] \in 1 .. StringLength(q[p[1]]) /\ p = <<p[1], p[2]>>
           /\ Len(q) \in Nat /\ StringLength(q[p[1]]) \in Nat
<1>1. DOMAIN q = 1 .. Len(q) /\ Len(q) \in Nat
  BY DEF QueueOK
<1>2. PICK k \in 1 .. Len(q) : p \in {k} \X (1 .. StringLength(q[k]))
  BY <1>1 DEF Places
<1>3. StringLength(q[k]) \in Nat
  BY TextIs DEF QueueOK
<1> QED BY <1>1, <1>2, <1>3

(* And every such pair is a place.                                         *)
LEMMA IsPlace ==
    ASSUME NEW q, QueueOK(q), NEW k \in 1 .. Len(q), NEW i \in 1 .. StringLength(q[k])
    PROVE  <<k, i>> \in Places(q)
<1>1. DOMAIN q = 1 .. Len(q)
  BY DEF QueueOK
<1> QED BY <1>1 DEF Places

(* A sequence with one element more, as a function.                        *)
LEMMA AppendIs ==
    ASSUME NEW S, NEW s \in Seq(S), NEW a \in S
    PROVE  Append(s, a) = [i \in 1 .. Len(s) + 1 |-> IF i = Len(s) + 1 THEN a ELSE s[i]]
<1> DEFINE r == Append(s, a)
<1>1. /\ r \in Seq(S) /\ Len(r) = Len(s) + 1 /\ Len(s) \in Nat /\ r[Len(s) + 1] = a
      /\ \A i \in 1 .. Len(s) : r[i] = s[i]
  OBVIOUS
<1> HIDE DEF r
<1>2. r = [i \in 1 .. Len(r) |-> r[i]]
  BY <1>1
<1>3. \A i \in 1 .. Len(s) + 1 : r[i] = IF i = Len(s) + 1 THEN a ELSE s[i]
  BY <1>1
<1>4. r = [i \in 1 .. Len(s) + 1 |-> IF i = Len(s) + 1 THEN a ELSE s[i]]
  BY <1>1, <1>2, <1>3
<1> QED BY <1>4 DEF r

(* A sequence behind another one, position by position.                    *)
LEMMA Joined ==
    ASSUME NEW T, NEW u \in Seq(T), NEW t \in Seq(T)
    PROVE  /\ Len(u \o t) = Len(u) + Len(t)
           /\ \A i \in 1 .. Len(u) : (u \o t)[i] = u[i]
           /\ \A i \in 1 .. Len(t) : (u \o t)[Len(u) + i] = t[i]
  OBVIOUS

(* The bytes of a chunk are in the text from behind those of the chunks    *)
(* before it, and end where those of the next one begin.                   *)
LEMMA ChunkSpans ==
    ASSUME NEW q, QueueOK(q), NEW k \in 1 .. Len(q)
    PROVE  /\ Upto(q, k - 1) \in Seq(Bytes) /\ Upto(q, k) \in Seq(Bytes)
           /\ Len(Upto(q, k)) = Len(Upto(q, k - 1)) + StringLength(q[k])
           /\ Len(Upto(q, k)) <= Len(Whole(q)) /\ Whole(q) \in Seq(Bytes)
           /\ \A i \in 1 .. StringLength(q[k]) :
                Whole(q)[Len(Upto(q, k - 1)) + i] = q[k].mem[i]
<1>1. /\ Text(q[k]) = q[k].mem /\ Text(q[k]) \in Seq(Bytes)
      /\ Len(Text(q[k])) = StringLength(q[k]) /\ StringLength(q[k]) \in Nat
  BY TextIs DEF QueueOK
<1>2. /\ Upto(q, k - 1) \in Seq(Bytes) /\ Upto(q, k) \in Seq(Bytes)
      /\ Upto(q, k) = Upto(q, k - 1) \o Text(q[k])
  BY UptoAdds
<1>3. /\ Len(Upto(q, k)) = Len(Upto(q, k - 1)) + StringLength(q[k])
      /\ \A i \in 1 .. StringLength(q[k]) :
            Upto(q, k)[Len(Upto(q, k - 1)) + i] = q[k].mem[i]
  <2> DEFINE u == Upto(q, k - 1)
             t == Text(q[k])
  <2>1. /\ u \in Seq(Bytes) /\ t \in Seq(Bytes) /\ Upto(q, k) = u \o t
        /\ t = q[k].mem /\ Len(t) = StringLength(q[k])
    BY <1>1, <1>2
  <2> HIDE DEF u, t
  <2>2. /\ Len(u \o t) = Len(u) + Len(t)
        /\ \A i \in 1 .. Len(t) : (u \o t)[Len(u) + i] = t[i]
    BY <2>1, Joined
  <2>3. /\ Len(Upto(q, k)) = Len(u) + StringLength(q[k])
        /\ \A i \in 1 .. StringLength(q[k]) : Upto(q, k)[Len(u) + i] = q[k].mem[i]
    BY <2>1, <2>2
  <2> QED BY <2>3 DEF u
<1>4. /\ Len(Upto(q, k)) <= Len(Whole(q)) /\ Whole(q) \in Seq(Bytes)
      /\ \A x \in 1 .. Len(Upto(q, k)) : Whole(q)[x] = Upto(q, k)[x]
  <2>1. Len(q) \in 0 .. Len(q) /\ k \in 0 .. Len(q)
    BY DEF QueueOK
  <2> QED BY <2>1, UptoGrows DEF Whole
<1>5. ASSUME NEW i \in 1 .. StringLength(q[k])
      PROVE  Whole(q)[Len(Upto(q, k - 1)) + i] = q[k].mem[i]
  <2>1. Len(Upto(q, k - 1)) + i \in 1 .. Len(Upto(q, k))
    BY <1>1, <1>2, <1>3
  <2> QED BY <1>3, <1>4, <2>1
<1> QED BY <1>2, <1>3, <1>4, <1>5

(* A chunk begins where all chunks before it have ended.                   *)
LEMMA ChunksInOrder ==
    ASSUME NEW q, QueueOK(q), NEW k \in 1 .. Len(q), NEW l \in 1 .. Len(q), k < l
    PROVE  Len(Upto(q, k)) <= Len(Upto(q, l - 1))
<1>1. Len(q) \in Nat
  BY DEF QueueOK
<1>2. l - 1 \in 0 .. Len(q) /\ k \in 0 .. l - 1
  BY <1>1
<1> QED BY <1>2, UptoGrows

(* Each place has a position, its own, where the text has its byte.        *)
LEMMA PlaceHasPosition ==
    ASSUME NEW q, QueueOK(q), NEW p \in Places(q)
    PROVE  /\ Pos(q, p) \in 1 .. Len(Whole(q)) /\ Len(Whole(q)) \in Nat
           /\ Whole(q)[Pos(q, p)] = q[p[1]].mem[p[2]]
           /\ Len(Upto(q, p[1] - 1)) < Pos(q, p) /\ Pos(q, p) <= Len(Upto(q, p[1]))
<1>1. /\ p[1] \in 1 .. Len(q) /\ p[2] \in 1 .. StringLength(q[p[1]])
      /\ StringLength(q[p[1]]) \in Nat
  BY PlaceIs
<1>2. /\ Upto(q, p[1] - 1) \in Seq(Bytes)
      /\ Len(Upto(q, p[1])) = Len(Upto(q, p[1] - 1)) + StringLength(q[p[1]])
      /\ Len(Upto(q, p[1])) <= Len(Whole(q)) /\ Whole(q) \in Seq(Bytes)
      /\ \A i \in 1 .. StringLength(q[p[1]]) :
            Whole(q)[Len(Upto(q, p[1] - 1)) + i] = q[p[1]].mem[i]
  <2> DEFINE k == p[1]
  <2>1. k \in 1 .. Len(q)
    BY <1>1
  <2> HIDE DEF k
  <2>2. /\ Upto(q, k - 1) \in Seq(Bytes)
        /\ Len(Upto(q, k)) = Len(Upto(q, k - 1)) + StringLength(q[k])
        /\ Len(Upto(q, k)) <= Len(Whole(q)) /\ Whole(q) \in Seq(Bytes)
        /\ \A i \in 1 .. StringLength(q[k]) :
              Whole(q)[Len(Upto(q, k - 1)) + i] = q[k].mem[i]
    BY <2>1, ChunkSpans
  <2> QED BY <2>2 DEF k
<1>3. Len(Upto(q, p[1] - 1)) \in Nat /\ Len(Whole(q)) \in Nat
  BY <1>2
<1> DEFINE m == Len(Upto(q, p[1] - 1))
           x == p[2]
           W == Whole(q)
<1>4. Pos(q, p) = m + x
  BY DEF Pos
<1> HIDE DEF m, x, W
<1>5. /\ m \in Nat /\ x \in 1 .. StringLength(q[p[1]]) /\ StringLength(q[p[1]]) \in Nat
      /\ Len(Upto(q, p[1])) = m + StringLength(q[p[1]]) /\ Len(W) \in Nat
      /\ Len(Upto(q, p[1])) <= Len(W) /\ W[m + x] = q[p[1]].mem[x]
  BY ONLY <1>1, <1>2, <1>3 DEF m, x, W
<1>6. /\ m + x \in 1 .. Len(W) /\ m < m + x /\ m + x <= Len(Upto(q, p[1]))
  BY ONLY <1>5
<1> QED BY <1>4, <1>5, <1>6 DEF m, x, W

(* The order of places is the order of their positions.                    *)
LEMMA OrderOfPlaces ==
    ASSUME NEW q, QueueOK(q), NEW p \in Places(q), NEW r \in Places(q)
    PROVE  /\ Before(p, r) <=> Pos(q, p) <= Pos(q, r)
           /\ Pos(q, p) = Pos(q, r) => p = r
<1>1. /\ p[1] \in 1 .. Len(q) /\ p[2] \in Nat /\ p = <<p[1], p[2]>>
      /\ r[1] \in 1 .. Len(q) /\ r[2] \in Nat /\ r = <<r[1], r[2]>> /\ Len(q) \in Nat
  BY PlaceIs
<1>2. /\ Pos(q, p) \in Nat /\ Pos(q, r) \in Nat
      /\ Len(Upto(q, p[1] - 1)) < Pos(q, p) /\ Pos(q, p) <= Len(Upto(q, p[1]))
      /\ Len(Upto(q, r[1] - 1)) < Pos(q, r) /\ Pos(q, r) <= Len(Upto(q, r[1]))
  BY PlaceHasPosition
<1>3. /\ Len(Upto(q, p[1] - 1)) \in Nat /\ Len(Upto(q, p[1])) \in Nat
      /\ Len(Upto(q, r[1] - 1)) \in Nat /\ Len(Upto(q, r[1])) \in Nat
  <2>1. /\ Upto(q, p[1] - 1) \in Seq(Bytes) /\ Upto(q, p[1]) \in Seq(Bytes)
        /\ Upto(q, r[1] - 1) \in Seq(Bytes) /\ Upto(q, r[1]) \in Seq(Bytes)
    <3>1. Upto(q, p[1] - 1) \in Seq(Bytes) /\ Upto(q, p[1]) \in Seq(Bytes)
      BY <1>1, UptoAdds
    <3>2. Upto(q, r[1] - 1) \in Seq(Bytes) /\ Upto(q, r[1]) \in Seq(Bytes)
      BY <1>1, UptoAdds
    <3> QED BY <3>1, <3>2
  <2> QED BY <2>1
<1>4. CASE p[1] < r[1]
  <2>1. Len(Upto(q, p[1])) <= Len(Upto(q, r[1] - 1))
    BY <1>1, <1>4, ChunksInOrder
  <2> QED BY <1>2, <1>3, <1>4, <2>1 DEF Before
<1>5. CASE r[1] < p[1]
  <2>1. Len(Upto(q, r[1])) <= Len(Upto(q, p[1] - 1))
    BY <1>1, <1>5, ChunksInOrder
  <2> QED BY <1>1, <1>2, <1>3, <1>5, <2>1 DEF Before
<1>6. CASE p[1] = r[1]
  <2>1. Pos(q, r) = Len(Upto(q, p[1] - 1)) + r[2] /\ Pos(q, p) = Len(Upto(q, p[1] - 1)) + p[2]
    BY <1>6 DEF Pos
  <2> QED BY <1>1, <1>3, <1>6, <2>1 DEF Before
<1> QED BY <1>1, <1>4, <1>5, <1>6

(* Each position of the text is that of a place.                           *)
LEMMA PositionHasPlace ==
    ASSUME NEW q, QueueOK(q), NEW x \in 1 .. Len(Whole(q))
    PROVE  \E p \in Places(q) : Pos(q, p) = x
<1> DEFINE T == {k \in 0 .. Len(q) : x <= Len(Upto(q, k))}
<1>1. Len(q) \in Nat /\ Len(q) \in T /\ T \in SUBSET Nat
  BY DEF QueueOK, Whole
<1>2. PICK k \in T : \A y \in T : k <= y
  BY <1>1, Least
<1>3. k \in 1 .. Len(q) /\ x <= Len(Upto(q, k))
  <2>1. Len(Upto(q, 0)) = 0
    BY UptoNothing
  <2> QED BY <1>1, <1>2, <2>1
<1>4. ~(x <= Len(Upto(q, k - 1)))
  <2>1. k - 1 \in 0 .. Len(q) /\ ~(k <= k - 1)
    BY <1>1, <1>3
  <2> QED BY <1>2, <2>1
<1>5. /\ Len(Upto(q, k)) = Len(Upto(q, k - 1)) + StringLength(q[k])
      /\ Upto(q, k - 1) \in Seq(Bytes) /\ StringLength(q[k]) \in Nat
  BY <1>3, ChunkSpans, TextIs DEF QueueOK
<1>6. Len(Upto(q, k - 1)) \in Nat
  BY <1>5
<1> DEFINE i == x - Len(Upto(q, k - 1))
<1>7. i \in 1 .. StringLength(q[k]) /\ x = Len(Upto(q, k - 1)) + i
  BY <1>3, <1>4, <1>5, <1>6
<1> HIDE DEF i
<1>8. <<k, i>> \in Places(q) /\ Pos(q, <<k, i>>) = x
  BY <1>3, <1>7, IsPlace DEF Pos
<1> QED BY <1>8

-----------------------------------------------------------------------------
(* The search for the end of the head                                      *)

(* The next place is that of the next position; there is one but at the    *)
(* end of the text.                                                        *)
LEMMA NextIsNext ==
    ASSUME NEW q, QueueOK(q), NEW p \in Places(q)
    PROVE  /\ \A r \in NextPlace(q, p) : r \in Places(q) /\ Pos(q, r) = Pos(q, p) + 1
           /\ Pos(q, p) < Len(Whole(q)) => NextPlace(q, p) # {}
<1> DEFINE k == p[1]
           i == p[2]
           later == {c \in DOMAIN q : c > k /\ StringLength(q[c]) > 0}
<1>1. /\ k \in 1 .. Len(q) /\ i \in 1 .. StringLength(q[k]) /\ p = <<k, i>>
      /\ Len(q) \in Nat /\ StringLength(q[k]) \in Nat
  BY PlaceIs
<1>2. Pos(q, p) \in 1 .. Len(Whole(q)) /\ Len(Whole(q)) \in Nat
  BY PlaceHasPosition
<1>3. NextPlace(q, p) = IF i < StringLength(q[k]) THEN {<<k, i + 1>>}
                        ELSE {<<c, 1>> : c \in {d \in later : \A e \in later : d <= e}}
  BY DEF NextPlace
<1>4. later \in SUBSET Nat /\ DOMAIN q = 1 .. Len(q) /\ \A c \in later : <<c, 1>> \in Places(q)
  <2>1. DOMAIN q = 1 .. Len(q)
    BY DEF QueueOK
  <2>2. ASSUME NEW c \in later PROVE <<c, 1>> \in Places(q)
    <3>1. c \in 1 .. Len(q)
      BY <2>1
    <3>2. StringLength(q[c]) \in Nat
      BY <3>1, TextIs DEF QueueOK
    <3>3. 1 \in 1 .. StringLength(q[c])
      BY <3>2
    <3> QED BY <3>1, <3>3, IsPlace
  <2> QED BY <1>1, <2>1, <2>2
<1>5. CASE i < StringLength(q[k])
  <2>1. i + 1 \in 1 .. StringLength(q[k]) /\ <<k, i + 1>>[1] = k /\ <<k, i + 1>>[2] = i + 1
    BY <1>1, <1>5
  <2>2. <<k, i + 1>> \in Places(q)
    BY <1>1, <2>1, IsPlace
  <2>3. Pos(q, <<k, i + 1>>) = Pos(q, p) + 1
    <3>1. Len(Upto(q, k - 1)) \in Nat
      BY <1>1, UptoAdds
    <3> QED BY <1>1, <2>1, <3>1 DEF Pos
  <2> HIDE DEF k, i, later
  <2> QED BY <1>3, <1>5, <2>2, <2>3
<1>6. CASE ~(i < StringLength(q[k]))
  <2>1. ASSUME NEW r \in Places(q), Pos(q, p) < Pos(q, r)
        PROVE  r[1] \in later
    <3>1. ~Before(r, p)
      <4>1. Pos(q, r) \in Nat
        BY PlaceHasPosition
      <4> QED BY <1>2, <2>1, <4>1, OrderOfPlaces
    <3>2. /\ r[1] \in 1 .. Len(q) /\ r[2] \in 1 .. StringLength(q[r[1]])
          /\ StringLength(q[r[1]]) \in Nat
      BY PlaceIs
    <3>3. r[1] > k \/ (r[1] = k /\ r[2] > i)
      BY <1>1, <3>1, <3>2 DEF Before
    <3>4. ~(r[1] = k /\ r[2] > i)
      BY <1>1, <1>6, <3>2
    <3> QED BY <1>4, <3>2, <3>3, <3>4
  <2>2. ASSUME NEW c \in later, \A e \in later : c <= e
        PROVE  Pos(q, <<c, 1>>) = Pos(q, p) + 1
    <3> DEFINE r == <<c, 1>>
    <3>1. r \in Places(q) /\ r[1] = c /\ r[2] = 1 /\ c \in Nat /\ c > k
      BY <1>4
    <3> HIDE DEF r
    <3>2. Pos(q, r) \in 1 .. Len(Whole(q))
      BY <3>1, PlaceHasPosition
    <3>3. ~(Pos(q, r) <= Pos(q, p))
      <4>1. ~Before(r, p)
        BY <1>1, <3>1 DEF Before
      <4> QED BY <3>1, <4>1, OrderOfPlaces
    <3>4. Pos(q, p) + 1 \in 1 .. Len(Whole(q))
      BY <1>2, <3>2, <3>3
    <3>5. PICK t \in Places(q) : Pos(q, t) = Pos(q, p) + 1
      BY <3>4, PositionHasPlace
    <3>6. t[1] \in later /\ t[2] \in Nat \ {0}
      <4>1. Pos(q, p) < Pos(q, t)
        BY <1>2, <3>5
      <4>2. t[2] \in 1 .. StringLength(q[t[1]]) /\ StringLength(q[t[1]]) \in Nat
        BY PlaceIs
      <4> QED BY <2>1, <4>1, <4>2
    <3>7. Before(r, t)
      <4>1. c <= t[1] /\ t[1] \in Nat
        BY <1>4, <2>2, <3>6
      <4> QED BY <3>1, <3>6, <4>1 DEF Before
    <3>8. Pos(q, r) <= Pos(q, t)
      BY <3>1, <3>7, OrderOfPlaces
    <3>9. Pos(q, r) = Pos(q, p) + 1
      BY <1>2, <3>2, <3>3, <3>5, <3>8
    <3> QED BY <3>9 DEF r
  <2>3. ASSUME Pos(q, p) < Len(Whole(q)) PROVE later # {}
    <3>1. Pos(q, p) + 1 \in 1 .. Len(Whole(q))
      BY <1>2, <2>3
    <3>2. PICK t \in Places(q) : Pos(q, t) = Pos(q, p) + 1
      BY <3>1, PositionHasPlace
    <3>3. Pos(q, p) < Pos(q, t)
      BY <1>2, <3>2
    <3> QED BY <2>1, <3>3
  <2>4. later # {} => \E c \in later : \A e \in later : c <= e
    BY <1>4, Least
  <2> HIDE DEF k, i, later
  <2> QED BY <1>3, <1>4, <1>6, <2>2, <2>3, <2>4
<1> QED BY <1>5, <1>6

(* To go on from places to a byte is to find it at the positions behind    *)
(* theirs.                                                                 *)
After(w, N, m) == {y \in Nat : y - 1 \in N /\ w[y] = EndOfHead[m]}

(* Where a match goes on in the chunks it goes on in their text, across    *)
(* the borders of the chunks and past those that hold nothing.             *)
LEMMA MatchIs ==
    ASSUME NEW q, QueueOK(q), NEW P \in SUBSET Places(q), NEW N \in SUBSET (Nat \ {0}),
           \A p \in Places(q) : p \in P <=> Pos(q, p) \in N, NEW m
    PROVE  /\ Match(q, P, m) \in SUBSET Places(q)
           /\ \A r \in Places(q) :
                  r \in Match(q, P, m) <=> Pos(q, r) \in After(Whole(q), N, m)
<1>1. ASSUME NEW r \in Match(q, P, m)
      PROVE  r \in Places(q) /\ Pos(q, r) \in After(Whole(q), N, m)
  <2>1. PICK p \in P : r \in NextPlace(q, p) /\ q[r[1]].mem[r[2]] = EndOfHead[m]
    BY DEF Match
  <2>2. r \in Places(q) /\ Pos(q, r) = Pos(q, p) + 1 /\ Pos(q, p) \in N
    BY <2>1, NextIsNext
  <2>3. Whole(q)[Pos(q, r)] = q[r[1]].mem[r[2]]
    BY <2>2, PlaceHasPosition
  <2>4. Pos(q, r) \in Nat /\ Pos(q, r) - 1 = Pos(q, p)
    BY <2>2, PlaceHasPosition
  <2> QED BY <2>1, <2>2, <2>3, <2>4 DEF After
<1>2. ASSUME NEW r \in Places(q), Pos(q, r) \in After(Whole(q), N, m)
      PROVE  r \in Match(q, P, m)
  <2> DEFINE n == Pos(q, r) - 1
  <2>1. /\ Pos(q, r) \in 1 .. Len(Whole(q)) /\ Whole(q)[Pos(q, r)] = q[r[1]].mem[r[2]]
        /\ Len(Whole(q)) \in Nat
    BY PlaceHasPosition
  <2>2. n \in 1 .. Len(Whole(q)) /\ n < Len(Whole(q)) /\ n \in N /\ n + 1 = Pos(q, r)
    BY <1>2, <2>1 DEF After
  <2> HIDE DEF n
  <2>3. PICK p \in Places(q) : Pos(q, p) = n
    BY <2>2, PositionHasPlace
  <2>4. p \in P
    BY <2>2, <2>3
  <2>5. PICK t \in NextPlace(q, p) : t \in Places(q) /\ Pos(q, t) = n + 1
    BY <2>2, <2>3, NextIsNext
  <2>6. t = r
    BY <2>2, <2>5, OrderOfPlaces
  <2>7. q[r[1]].mem[r[2]] = EndOfHead[m]
    BY <1>2, <2>1 DEF After
  <2> QED BY <2>4, <2>5, <2>6, <2>7 DEF Match
<1> QED BY <1>1, <1>2

(* The bytes of w up to position y end a head.                             *)
EndsAt(w, y) ==
    /\ y \in 4 .. Len(w)
    /\ w[y - 3] = "cr" /\ w[y - 2] = "lf" /\ w[y - 1] = "cr" /\ w[y] = "lf"

(* The search from a CR ends at the fourth byte from there when the four   *)
(* are the end of a head, and nowhere otherwise.                           *)
LEMMA EndFromIs ==
    ASSUME NEW q, QueueOK(q), NEW p \in Places(q), q[p[1]].mem[p[2]] = "cr"
    PROVE  /\ EndFrom(q, p) \in SUBSET Places(q)
           /\ \A r \in Places(q) : r \in EndFrom(q, p) <=>
                  EndsAt(Whole(q), Pos(q, p) + 3) /\ Pos(q, r) = Pos(q, p) + 3
<1> DEFINE W == Whole(q)
           x == Pos(q, p)
           P2 == Match(q, {p}, 2)
           P3 == Match(q, P2, 3)
           P4 == Match(q, P3, 4)
           N2 == After(W, {x}, 2)
           N3 == After(W, N2, 3)
           N4 == After(W, N3, 4)
<1>1. x \in 1 .. Len(W) /\ Len(W) \in Nat /\ W[x] = "cr"
  BY PlaceHasPosition
<1>2. P2 \in SUBSET Places(q) /\ \A r \in Places(q) : r \in P2 <=> Pos(q, r) \in N2
  <2>1. \A r \in Places(q) : r \in {p} <=> Pos(q, r) \in {x}
    BY OrderOfPlaces
  <2>2. {p} \in SUBSET Places(q) /\ {x} \in SUBSET (Nat \ {0})
    BY <1>1
  <2> HIDE DEF x
  <2> QED BY <2>1, <2>2, MatchIs
<1>3. P3 \in SUBSET Places(q) /\ \A r \in Places(q) : r \in P3 <=> Pos(q, r) \in N3
  <2>1. N2 \in SUBSET (Nat \ {0})
    BY <1>1 DEF After
  <2> HIDE DEF P2, N2
  <2> QED BY <1>2, <2>1, MatchIs
<1>4. P4 \in SUBSET Places(q) /\ \A r \in Places(q) : r \in P4 <=> Pos(q, r) \in N4
  <2>1. N3 \in SUBSET (Nat \ {0})
    <3>1. N2 \in SUBSET (Nat \ {0})
      BY <1>1 DEF After
    <3> HIDE DEF N2
    <3> QED BY <3>1 DEF After
  <2> HIDE DEF P3, N3
  <2> QED BY <1>3, <2>1, MatchIs
<1>5. EndFrom(q, p) = P4
  BY DEF EndFrom
<1>6. ASSUME NEW y \in 1 .. Len(W) PROVE y \in N4 <=> EndsAt(W, x + 3) /\ y = x + 3
  <2> HIDE DEF W
  <2>1. y \in N4 <=> y - 1 \in N3 /\ W[y] = EndOfHead[4]
    <3> HIDE DEF N3
    <3> QED BY DEF After
  <2>2. y - 1 \in N3 <=> y - 1 \in Nat /\ y - 1 - 1 \in N2 /\ W[y - 1] = EndOfHead[3]
    <3> HIDE DEF N2
    <3> QED BY DEF After
  <2>3. y - 1 - 1 \in N2 <=> /\ y - 1 - 1 \in Nat /\ y - 1 - 1 - 1 = x
                             /\ W[y - 1 - 1] = EndOfHead[2]
    BY DEF After
  <2>4. y - 1 - 1 = y - 2 /\ y - 1 - 1 - 1 = y - 3
    BY <1>1
  <2> HIDE DEF N4, N3, N2, x
  <2>5. y \in N4 <=> /\ y - 1 \in Nat /\ y - 2 \in Nat /\ y - 3 = x
                     /\ W[y - 2] = "lf" /\ W[y - 1] = "cr" /\ W[y] = "lf"
    BY <2>1, <2>2, <2>3, <2>4 DEF EndOfHead
  <2>6. ASSUME y = x + 3
        PROVE  y - 3 = x /\ y \in 4 .. Len(W) /\ y - 1 \in Nat /\ y - 2 \in Nat
    BY <1>1, <2>6
  <2>7. y - 3 = x => y = x + 3
    BY <1>1
  <2> QED BY <1>1, <2>5, <2>6, <2>7 DEF EndsAt
<1>7. \A r \in Places(q) : Pos(q, r) \in 1 .. Len(W)
  BY PlaceHasPosition
<1> HIDE DEF P4, N4, x, W
<1>8. \A r \in Places(q) : r \in EndFrom(q, p) <=> EndsAt(W, x + 3) /\ Pos(q, r) = x + 3
  BY <1>4, <1>5, <1>6, <1>7
<1> QED BY <1>4, <1>5, <1>8 DEF x, W

(* The search finds the first end of a head there is in the text, however  *)
(* the text is cut into chunks, and nothing when there is none.            *)
LEMMA SearchIsExact ==
    ASSUME NEW q, QueueOK(q)
    PROVE  /\ \A e \in EndsOfHead(q) :
                 /\ e \in Places(q) /\ EndsAt(Whole(q), Pos(q, e))
                 /\ \A y \in Nat : EndsAt(Whole(q), y) => Pos(q, e) <= y
           /\ (\E y \in Nat : EndsAt(Whole(q), y)) => EndsOfHead(q) # {}
<1> DEFINE W == Whole(q)
           starts == {p \in Places(q) : q[p[1]].mem[p[2]] = "cr" /\ EndFrom(q, p) # {}}
           first1 == CHOOSE p \in starts : \A r \in starts : Before(p, r)
<1>1. EndsOfHead(q) = IF starts = {} THEN {} ELSE EndFrom(q, first1)
  BY DEF EndsOfHead
<1>2. ASSUME NEW p \in starts
      PROVE  EndsAt(W, Pos(q, p) + 3)
  BY EndFromIs
<1>3. ASSUME NEW y \in Nat, EndsAt(W, y)
      PROVE  \E p \in starts : Pos(q, p) + 3 = y
  <2>1. y \in 4 .. Len(W) /\ Len(W) \in Nat
    <3>1. Whole(q) \in Seq(Bytes)
      BY UptoGrows DEF QueueOK, Whole
    <3> QED BY <1>3, <3>1 DEF EndsAt
  <2>2. y - 3 \in 1 .. Len(W) /\ y \in 1 .. Len(W) /\ (y - 3) + 3 = y
    BY <2>1
  <2>3. PICK p \in Places(q) : Pos(q, p) = y - 3
    BY <2>2, PositionHasPlace
  <2>4. PICK r \in Places(q) : Pos(q, r) = y
    BY <2>2, PositionHasPlace
  <2>5. q[p[1]].mem[p[2]] = "cr"
    BY <1>3, <2>3, PlaceHasPosition DEF EndsAt
  <2>6. Pos(q, p) + 3 = y
    BY <2>2, <2>3
  <2>7. r \in EndFrom(q, p)
    BY <1>3, <2>4, <2>5, <2>6, EndFromIs
  <2> QED BY <2>5, <2>6, <2>7
<1> HIDE DEF W
<1>4. ASSUME starts # {}
      PROVE  first1 \in starts /\ \A r \in starts : Before(first1, r)
  <2> DEFINE T == {Pos(q, p) : p \in starts}
  <2>1. T \in SUBSET Nat /\ T # {}
    BY <1>4, PlaceHasPosition
  <2>2. PICK x \in T : \A y \in T : x <= y
    BY <2>1, Least
  <2>3. PICK p \in starts : Pos(q, p) = x
    BY <2>2
  <2>4. \A r \in starts : Before(p, r)
    BY <2>2, <2>3, OrderOfPlaces
  <2> HIDE DEF starts
  <2> QED BY <2>3, <2>4
<1>5. ASSUME NEW e \in EndsOfHead(q)
      PROVE  /\ e \in Places(q) /\ EndsAt(W, Pos(q, e))
             /\ \A y \in Nat : EndsAt(W, y) => Pos(q, e) <= y
  <2>1. /\ starts # {} /\ e \in EndFrom(q, first1)
        /\ first1 \in starts /\ \A r \in starts : Before(first1, r)
    BY <1>1, <1>4
  <2> HIDE DEF first1
  <2>2. e \in Places(q) /\ EndsAt(W, Pos(q, e)) /\ Pos(q, e) = Pos(q, first1) + 3
    BY <2>1, EndFromIs DEF W
  <2>3. ASSUME NEW y \in Nat, EndsAt(W, y) PROVE Pos(q, e) <= y
    <3>1. PICK p \in starts : Pos(q, p) + 3 = y
      BY <1>3, <2>3
    <3>2. Pos(q, first1) <= Pos(q, p)
      BY <2>1, <3>1, OrderOfPlaces
    <3>3. Pos(q, first1) \in Nat /\ Pos(q, p) \in Nat
      BY <2>1, PlaceHasPosition
    <3> QED BY <2>2, <3>1, <3>2, <3>3
  <2> QED BY <2>2, <2>3
<1>6. ASSUME NEW y \in Nat, EndsAt(W, y) PROVE EndsOfHead(q) # {}
  <2>1. starts # {}
    BY <1>3, <1>6
  <2>2. first1 \in starts
    BY <1>4, <2>1
  <2> QED BY <1>1, <2>1, <2>2
<1> QED BY <1>5, <1>6 DEF W

(* The head that is copied is the text up to the end that was found.       *)
LEMMA CopyIsPrefix ==
    ASSUME NEW q, QueueOK(q), NEW e \in Places(q)
    PROVE  CopyHead(q, e) = SubSeq(Whole(q), 1, Pos(q, e))
<1> DEFINE k == e[1]
           i == e[2]
           S == Seq(Bytes)
           u == Upto(q, k - 1)
           t == SubSeq(q[k].mem, 1, i)
           ts == TextsOf(q, k - 1)
<1>1. k \in 1 .. Len(q) /\ i \in 1 .. StringLength(q[k]) /\ Len(q) \in Nat
  BY PlaceIs
<1>2. q[k].mem \in Seq(Bytes) /\ Len(q[k].mem) = StringLength(q[k]) /\ StringLength(q[k]) \in Nat
  <2>1. q[k] \in ChunkRecord /\ Sound(q[k])
    BY <1>1 DEF QueueOK
  <2> HIDE DEF k
  <2> QED BY <2>1 DEF ChunkRecord, Sound, StringLength
<1>3. t \in S /\ Len(t) = i /\ \A j \in 1 .. i : t[j] = q[k].mem[j]
  <2> DEFINE mem == q[k].mem
  <2>1. mem \in Seq(Bytes) /\ i \in 1 .. Len(mem) /\ Len(mem) \in Nat
    BY <1>1, <1>2
  <2> HIDE DEF mem, i
  <2>2. SubSeq(mem, 1, i) \in Seq(Bytes) /\ Len(SubSeq(mem, 1, i)) = i
        /\ \A j \in 1 .. i : SubSeq(mem, 1, i)[j] = mem[j]
    BY <2>1
  <2> QED BY <2>2 DEF mem
<1>4. ts \in Seq(S) /\ Len(ts) = k - 1 /\ \A j \in 1 .. k - 1 : ts[j] = Text(q[j])
  <2>1. \A j \in 1 .. k - 1 : Text(q[j]) \in S
    BY <1>1, TextIs DEF QueueOK
  <2>2. k - 1 \in Nat
    BY <1>1
  <2> HIDE DEF S, k
  <2> QED BY <2>1, <2>2 DEF TextsOf
<1>5. [j \in 1 .. k |-> IF j = k THEN t ELSE Text(q[j])] = Append(ts, t)
  <2>1. k \in Nat /\ k - 1 \in Nat
    BY <1>1
  <2> HIDE DEF S, k, t, ts
  <2>2. Append(ts, t) = [j \in 1 .. k |-> IF j = k THEN t ELSE ts[j]]
    <3>1. t \in S /\ (k - 1) + 1 = k
      BY <1>3, <2>1
    <3>2. Append(ts, t) = [j \in 1 .. Len(ts) + 1 |-> IF j = Len(ts) + 1 THEN t ELSE ts[j]]
      BY <1>4, <3>1, AppendIs
    <3>3. Len(ts) + 1 = k
      BY <1>4, <3>1
    <3> QED BY <3>2, <3>3
  <2> QED BY <1>4, <2>1, <2>2
<1>6. CopyHead(q, e) = FlattenSeq([j \in 1 .. k |-> IF j = k THEN t ELSE Text(q[j])])
  BY DEF CopyHead
<1> HIDE DEF t, ts
<1>7. CopyHead(q, e) = FlattenSeq(ts) \o t
  BY <1>3, <1>4, <1>5, <1>6, FlattenAppend
<1>8. u \in S /\ FlattenSeq(ts) = u /\ Pos(q, e) = Len(u) + i
  BY <1>1, UptoAdds DEF Upto, ts, Pos
<1>9. /\ Whole(q) \in S /\ Len(u) + i <= Len(Whole(q))
      /\ \A x \in 1 .. Len(u) : Whole(q)[x] = u[x]
      /\ \A j \in 1 .. i : Whole(q)[Len(u) + j] = t[j]
  <2>1. /\ Whole(q) \in S /\ \A x \in 1 .. Len(u) : Whole(q)[x] = u[x]
    <3>1. Len(q) \in 0 .. Len(q) /\ k - 1 \in 0 .. Len(q)
      BY <1>1
    <3> QED BY <3>1, UptoGrows DEF Whole
  <2>2. \A j \in 1 .. StringLength(q[k]) : Whole(q)[Len(u) + j] = q[k].mem[j]
    <3> HIDE DEF k
    <3> QED BY <1>1, ChunkSpans
  <2>3. Pos(q, e) \in 1 .. Len(Whole(q))
    BY PlaceHasPosition
  <2> QED BY <1>1, <1>2, <1>3, <1>8, <2>1, <2>2, <2>3
<1> HIDE DEF u, k, i
<1>10. i \in Nat /\ Len(u) \in Nat /\ Len(u \o t) = Len(u) + i /\ u \o t \in S
       /\ \A x \in 1 .. Len(u) : (u \o t)[x] = u[x]
       /\ \A j \in 1 .. i : (u \o t)[Len(u) + j] = t[j]
  <2>1. u \in Seq(Bytes) /\ t \in Seq(Bytes) /\ Len(t) = i
    BY <1>3, <1>8
  <2>2. u \o t \in Seq(Bytes) /\ Len(u) \in Nat /\ i \in Nat
    BY <2>1
  <2>3. /\ Len(u \o t) = Len(u) + Len(t)
        /\ \A x \in 1 .. Len(u) : (u \o t)[x] = u[x]
        /\ \A j \in 1 .. Len(t) : (u \o t)[Len(u) + j] = t[j]
    <3>1. /\ Len(u \o t) = Len(u) + Len(t)
          /\ \A j \in 1 .. Len(u) : (u \o t)[j] = u[j]
          /\ \A j \in 1 .. Len(t) : (u \o t)[Len(u) + j] = t[j]
      BY <2>1
    <3> QED BY <3>1
  <2> QED BY <2>1, <2>2, <2>3
<1> DEFINE w == Whole(q)
           n == Len(u) + i
<1> HIDE DEF w
<1>11. \A x \in 1 .. n : (u \o t)[x] = w[x]
  <2>1. ASSUME NEW x \in 1 .. n PROVE (u \o t)[x] = w[x]
    <3>1. CASE x <= Len(u)
      <4>1. x \in 1 .. Len(u)
        BY <1>10, <3>1
      <4> QED BY <1>9, <1>10, <4>1 DEF w
    <3>2. CASE ~(x <= Len(u))
      <4>1. x - Len(u) \in 1 .. i /\ x = Len(u) + (x - Len(u))
        BY <1>10, <3>2
      <4> QED BY <1>9, <1>10, <4>1 DEF w
    <3> QED BY <3>1, <3>2
  <2> QED BY <2>1
<1>12. SubSeq(w, 1, n) = u \o t
  <2> DEFINE v == u \o t
  <2>1. v \in Seq(Bytes) /\ Len(v) = n /\ w \in Seq(Bytes) /\ n <= Len(w) /\ n \in Nat
        /\ \A x \in 1 .. n : v[x] = w[x]
    BY <1>9, <1>10, <1>11 DEF w
  <2> HIDE DEF v, n
  <2>2. SubSeq(w, 1, n) = [x \in 1 .. n |-> w[x]]
    BY <2>1
  <2>3. v = [x \in 1 .. n |-> v[x]]
    BY <2>1
  <2>4. SubSeq(w, 1, n) = v
    BY <2>1, <2>2, <2>3
  <2> QED BY <2>4 DEF v
<1> QED BY <1>7, <1>8, <1>12 DEF w

-----------------------------------------------------------------------------
(* The queue grows by what is read                                         *)

(* The last chunk takes b more.                                            *)
LEMMA LastReplaced ==
    ASSUME NEW q, QueueOK(q), q # <<>>, NEW c \in ChunkRecord, Sound(c), NEW b \in Seq(Bytes),
           Text(c) = Text(q[Len(q)]) \o b, NEW r, r = [q EXCEPT ![Len(q)] = c]
    PROVE  QueueOK(r) /\ Whole(r) = Whole(q) \o b
<1> DEFINE n == Len(q)
           u == Upto(q, n - 1)
           t == Text(q[n])
<1>1. n \in 1 .. n /\ n \in Nat /\ q \in Seq(ChunkRecord)
  BY DEF QueueOK
<1>2. /\ r \in Seq(ChunkRecord) /\ Len(r) = n /\ r[n] = c
      /\ \A k \in 1 .. n - 1 : r[k] = q[k]
  BY <1>1
<1>3. QueueOK(r)
  <2>1. ASSUME NEW k \in 1 .. Len(r) PROVE Sound(r[k])
    <3>1. CASE k = n
      BY <1>2, <3>1
    <3>2. CASE k # n
      <4>1. k \in 1 .. n - 1
        <5> HIDE DEF n
        <5> QED BY <1>1, <1>2, <3>2
      <4> QED BY <1>1, <1>2, <4>1 DEF QueueOK
    <3> QED BY <3>1, <3>2
  <2> QED BY <1>2, <2>1 DEF QueueOK
<1>4. Upto(r, n - 1) = u
  <2>1. TextsOf(r, n - 1) = TextsOf(q, n - 1)
    <3> HIDE DEF n
    <3> QED BY <1>2 DEF TextsOf
  <2> QED BY <2>1 DEF Upto
<1>5. u \in Seq(Bytes) /\ Whole(q) = u \o t
  BY <1>1, UptoAdds DEF Whole
<1>6. Whole(r) = u \o Text(c)
  <2>1. n \in 1 .. Len(r)
    BY <1>1, <1>2
  <2> HIDE DEF u
  <2> QED BY <1>2, <1>3, <1>4, <2>1, UptoAdds DEF Whole
<1>7. t \in Seq(Bytes)
  BY <1>1, TextIs DEF QueueOK
<1> HIDE DEF u, t
<1>8. u \o (t \o b) = (u \o t) \o b
  BY ONLY <1>5, <1>7, b \in Seq(Bytes), ConcatAssociative
<1> QED BY <1>3, <1>5, <1>6, <1>8 DEF t

(* A chunk without a text is added.                                        *)
LEMMA EmptyAdded ==
    ASSUME NEW q, QueueOK(q), NEW c \in ChunkRecord, Sound(c), c.used = 0,
           NEW r, r = Append(q, c)
    PROVE  QueueOK(r) /\ Whole(r) = Whole(q)
<1> DEFINE n == Len(q)
<1>1. n \in Nat /\ q \in Seq(ChunkRecord)
  BY DEF QueueOK
<1>2. /\ r \in Seq(ChunkRecord) /\ Len(r) = n + 1 /\ r[n + 1] = c
      /\ \A k \in 1 .. n : r[k] = q[k]
  BY <1>1
<1>3. QueueOK(r)
  BY <1>1, <1>2 DEF QueueOK
<1>4. Upto(r, n) = Whole(q)
  BY <1>2 DEF Upto, TextsOf, Whole
<1>5. Text(c) \in Seq(Bytes) /\ Len(Text(c)) = 0
  BY TextIs DEF StringLength
<1>6. Text(c) = <<>>
  BY <1>5
<1>7. Upto(r, n) \in Seq(Bytes) /\ Whole(r) = Upto(r, n) \o Text(c)
  <2>1. n + 1 \in 1 .. Len(r) /\ (n + 1) - 1 = n
    BY <1>1, <1>2
  <2> QED BY <1>2, <1>3, <2>1, UptoAdds DEF Whole
<1>8. Upto(r, n) \o <<>> = Upto(r, n)
  BY <1>7
<1> QED BY <1>3, <1>4, <1>6, <1>7, <1>8

(* Picking memory changes nothing of the text.                             *)
LEMMA PickingKeeps ==
    ASSUME QueueOK(chunks), NEW n \in Nat, chunks' = GetMemory(n)
    PROVE  Whole(chunks') = Whole(chunks)
<1> DEFINE c == IF LastChunk.used = 0 THEN AllocSize(LastChunk, n) ELSE LastChunk
           new == AllocSize(Unallocated, n)
<1>1. CASE chunks # <<>> /\ RemainingBytes(c) >= n
  <2>1. LastChunk \in ChunkRecord /\ Sound(LastChunk) /\ LastChunk = chunks[Len(chunks)]
    BY <1>1, LastIsSound DEF QueueOK, ChunksFit, LastChunk
  <2>2. c \in ChunkRecord /\ Sound(c) /\ ((LastChunk.used = 0 /\ c.used = 0) \/ c = LastChunk)
    BY <2>1, Allocated
  <2>3. chunks' = [chunks EXCEPT ![Len(chunks)] = c]
    BY <1>1 DEF GetMemory
  <2> HIDE DEF c
  <2>4. Text(c) = Text(LastChunk)
    <3>1. ASSUME LastChunk.used = 0, c.used = 0 PROVE Text(c) = Text(LastChunk)
      <4>1. StringLength(c) = 0 /\ StringLength(LastChunk) = 0
        BY <3>1 DEF StringLength
      <4>2. /\ Text(c) \in Seq(Bytes) /\ Len(Text(c)) = 0
            /\ Text(LastChunk) \in Seq(Bytes) /\ Len(Text(LastChunk)) = 0
        BY <2>1, <2>2, <4>1, TextIs
      <4> QED BY <4>2
    <3> QED BY <2>2, <3>1
  <2>5. Text(LastChunk) \in Seq(Bytes)
    BY <2>1, TextIs
  <2>6. Text(c) = Text(LastChunk) \o <<>> /\ <<>> \in Seq(Bytes)
    BY <2>4, <2>5
  <2>7. Whole(chunks') = Whole(chunks) \o <<>>
    BY <1>1, <2>1, <2>2, <2>3, <2>6, LastReplaced
  <2>8. Whole(chunks) \in Seq(Bytes)
    BY UptoGrows DEF QueueOK, Whole
  <2> QED BY <2>7, <2>8
<1>2. CASE ~(chunks # <<>> /\ RemainingBytes(c) >= n)
  <2>1. Unallocated \in ChunkRecord /\ Unallocated.used = 0 /\ Sound(Unallocated)
    BY DEF Unallocated, ChunkRecord, Sound, StringLength
  <2>2. new \in ChunkRecord /\ new.used = 0 /\ Sound(new)
    BY <2>1, Allocated
  <2>3. chunks' = Append(chunks, new)
    BY <1>2 DEF GetMemory
  <2> HIDE DEF new
  <2> QED BY <2>2, <2>3, EmptyAdded
<1> QED BY <1>1, <1>2

(* What is stored in the last chunk is added to the text.                  *)
LEMMA StoringAdds ==
    ASSUME QueueOK(chunks), chunks # <<>>, NEW b \in Seq(Bytes), Len(b) > 0,
           StringLength(LastChunk) + Len(b) <= LastChunk.size,
           chunks' = [chunks EXCEPT ![Len(chunks)] = Store(LastChunk, b)]
    PROVE  QueueOK(chunks') /\ Whole(chunks') = Whole(chunks) \o b
<1> DEFINE c == Store(LastChunk, b)
<1>1. LastChunk \in ChunkRecord /\ Sound(LastChunk) /\ LastChunk = chunks[Len(chunks)]
  BY LastIsSound DEF QueueOK, ChunksFit, LastChunk
<1>2. c \in ChunkRecord /\ Sound(c)
  BY <1>1, StoredFits
<1>3. Text(c) = Text(LastChunk) \o b
  <2>1. c.mem = Text(LastChunk) \o b
    BY <1>1 DEF Store, ChunkRecord
  <2> HIDE DEF c
  <2> QED BY <1>2, <2>1, TextIs
<1> HIDE DEF c
<1>4. chunks' = [chunks EXCEPT ![Len(chunks)] = c]
  BY DEF c
<1>5. Text(c) = Text(chunks[Len(chunks)]) \o b
  BY <1>1, <1>3
<1> QED BY <1>2, <1>4, <1>5, LastReplaced

(* The length of a queue is that of its text.                              *)
LEMMA LengthIsOfText ==
    ASSUME NEW q, QueueOK(q)
    PROVE  QueueLength(q) = Len(Whole(q))
<1> DEFINE n == Len(q)
           item == [i \in 1 .. n |-> [v \in Nat |-> v + StringLength(q[i])]]
           Rec(f) == f = [s \in SUBSET (DOMAIN q) |->
                            IF s = {} THEN 0
                            ELSE LET x == Max(s) IN f[s \ {x}] + StringLength(q[x])]
           f0 == CHOOSE f : Rec(f)
<1>1. n \in Nat /\ DOMAIN q = 1 .. n /\ \A i \in 1 .. n : StringLength(q[i]) \in Nat
  BY TextIs DEF QueueOK
<1>2. /\ item \in [1 .. n -> [Nat -> Nat]]
      /\ \A i \in 1 .. n : \A v \in Nat : item[i][v] = v + StringLength(q[i])
  BY <1>1
<1> HIDE DEF item, n
<1>3. PICK h : IsSetFold(h, n, Nat, 0, item)
  BY <1>1, <1>2, SetFold
<1>4. Rec(h)
  <2>1. ASSUME NEW s \in SUBSET (1 .. n)
        PROVE  h[s] = IF s = {} THEN 0 ELSE h[s \ {Max(s)}] + StringLength(q[Max(s)])
    <3>1. s = {} => h[s] = 0
      BY <1>3 DEF IsSetFold
    <3>2. ASSUME s # {} PROVE h[s] = h[s \ {Max(s)}] + StringLength(q[Max(s)])
      <4>1. Max(s) \in 1 .. n
        BY <1>1, <3>2, Highest
      <4>2. h[s] = item[Max(s)][h[s \ {Max(s)}]] /\ h[s \ {Max(s)}] \in Nat
        BY <1>3, <3>2 DEF IsSetFold
      <4> QED BY <1>2, <4>1, <4>2
    <3> QED BY <3>1, <3>2
  <2>2. h = [s \in SUBSET (1 .. n) |-> h[s]]
    BY <1>3 DEF IsSetFold
  <2> QED BY <1>1, <2>1, <2>2
<1>5. Rec(f0)
  BY <1>4
<1>6. QueueLength(q) = f0[DOMAIN q]
  BY DEF QueueLength, FoldLeft, MapThenFoldSet
<1> HIDE DEF f0
<1>7. \A s \in SUBSET (1 .. n) :
         f0[s] = IF s = {} THEN 0 ELSE f0[s \ {Max(s)}] + StringLength(q[Max(s)])
  BY <1>1, <1>5
<1> DEFINE S == {i \in Nat : i <= n => f0[1 .. i] = Len(Upto(q, i))}
<1>8. 0 \in S
  <2>1. 1 .. 0 = {} /\ {} \in SUBSET (1 .. n)
    OBVIOUS
  <2>2. Len(Upto(q, 0)) = 0
    BY UptoNothing
  <2> QED BY <1>7, <2>1, <2>2
<1>9. ASSUME NEW m \in Nat, m \in S, m + 1 <= n PROVE f0[1 .. m + 1] = Len(Upto(q, m + 1))
  <2> DEFINE i == m + 1
  <2>1. /\ i \in Nat \ {0} /\ i \in 1 .. n /\ 1 .. i \in SUBSET (1 .. n) /\ i - 1 = m
    BY <1>1, <1>9
  <2> HIDE DEF i
  <2>2. 1 .. i # {} /\ Max(1 .. i) = i /\ (1 .. i) \ {i} = 1 .. (i - 1)
    BY <2>1, UpTo
  <2>3. f0[1 .. i] = f0[1 .. m] + StringLength(q[i])
    BY <1>7, <2>1, <2>2
  <2>4. f0[1 .. m] = Len(Upto(q, m))
    BY <1>1, <1>9
  <2>5. Len(Upto(q, i)) = Len(Upto(q, i - 1)) + StringLength(q[i])
    BY <2>1, ChunkSpans DEF n
  <2>6. f0[1 .. i] = Len(Upto(q, i))
    BY <2>1, <2>3, <2>4, <2>5
  <2> QED BY <2>6 DEF i
<1>10. \A m \in Nat : m \in S => m + 1 \in S
  BY <1>1, <1>9
<1>11. Nat \subseteq S
  <2> HIDE DEF S
  <2> QED BY <1>8, <1>10, Induction
<1>12. f0[1 .. n] = Len(Upto(q, n))
  BY <1>1, <1>11
<1> QED BY <1>1, <1>6, <1>12 DEF Whole, n

-----------------------------------------------------------------------------
(* What the abstract reader sees in the bytes received                     *)

(* The first elements of a sequence.                                       *)
LEMMA Taken ==
    ASSUME NEW T, NEW s \in Seq(T), NEW n \in 0 .. Len(s)
    PROVE  /\ SubSeq(s, 1, n) \in Seq(T) /\ Len(SubSeq(s, 1, n)) = n
           /\ \A i \in 1 .. n : SubSeq(s, 1, n)[i] = s[i]
  OBVIOUS

(* A beginning of the text is a head when it ends as a head does.          *)
LEMMA HeadEnds ==
    ASSUME NEW w \in Seq(Bytes), NEW y \in 0 .. Len(w)
    PROVE  IsSuffix(EndOfHead, SubSeq(w, 1, y)) <=> EndsAt(w, y)
<1> DEFINE v == SubSeq(w, 1, y)
           rv == Reverse(v)
           re == Reverse(EndOfHead)
<1>1. v \in Seq(Bytes) /\ Len(v) = y /\ y \in Nat /\ \A i \in 1 .. y : v[i] = w[i]
  OBVIOUS
<1> HIDE DEF v
<1>2. rv = [i \in 1 .. y |-> v[y - i + 1]] /\ rv \in Seq(Bytes) /\ Len(rv) = y
  <2>1. rv = [i \in 1 .. y |-> v[y - i + 1]]
    BY <1>1 DEF Reverse
  <2>2. \A i \in 1 .. y : v[y - i + 1] \in Bytes
    BY <1>1
  <2> HIDE DEF rv
  <2> QED BY <1>1, <2>1, <2>2
<1>3. /\ re \in Seq(Bytes) /\ Len(re) = 4
      /\ re[1] = "lf" /\ re[2] = "cr" /\ re[3] = "lf" /\ re[4] = "cr"
  <2>1. /\ EndOfHead[1] = "cr" /\ EndOfHead[2] = "lf" /\ EndOfHead[3] = "cr"
        /\ EndOfHead[4] = "lf" /\ Len(EndOfHead) = 4
    BY DEF EndOfHead
  <2>2. re = [i \in 1 .. 4 |-> EndOfHead[4 - i + 1]]
    BY <2>1 DEF Reverse
  <2>3. \A i \in 1 .. 4 : re[i] = EndOfHead[4 - i + 1]
    BY <2>2
  <2>4. /\ 1 \in 1 .. 4 /\ 2 \in 1 .. 4 /\ 3 \in 1 .. 4 /\ 4 \in 1 .. 4
        /\ 4 - 1 + 1 = 4 /\ 4 - 2 + 1 = 3 /\ 4 - 3 + 1 = 2 /\ 4 - 4 + 1 = 1
    OBVIOUS
  <2>5. re[1] = "lf" /\ re[2] = "cr" /\ re[3] = "lf" /\ re[4] = "cr"
    BY <2>1, <2>3, <2>4
  <2>6. \A i \in 1 .. 4 : EndOfHead[4 - i + 1] \in Bytes
    <3>1. \A i \in 1 .. 4 : i = 1 \/ i = 2 \/ i = 3 \/ i = 4
      OBVIOUS
    <3> QED BY <2>1, <2>4, <3>1 DEF Bytes
  <2> HIDE DEF re
  <2> QED BY <2>2, <2>5, <2>6
<1> HIDE DEF rv, re
<1>4. IsSuffix(EndOfHead, v) <=> 4 <= y /\ SubSeq(re, 1, 4) = SubSeq(rv, 1, 4)
  BY <1>2, <1>3 DEF IsSuffix, IsPrefix, rv, re
<1>5. ASSUME 4 <= y
      PROVE  SubSeq(re, 1, 4) = SubSeq(rv, 1, 4) <=>
                /\ v[y - 3] = "cr" /\ v[y - 2] = "lf" /\ v[y - 1] = "cr" /\ v[y] = "lf"
  <2> DEFINE a == SubSeq(re, 1, 4)
             b == SubSeq(rv, 1, 4)
  <2>1. /\ a \in Seq(Bytes) /\ Len(a) = 4 /\ \A i \in 1 .. 4 : a[i] = re[i]
        /\ b \in Seq(Bytes) /\ Len(b) = 4 /\ \A i \in 1 .. 4 : b[i] = rv[i]
    <3>1. 4 \in 0 .. Len(re) /\ 4 \in 0 .. Len(rv)
      BY <1>1, <1>2, <1>3, <1>5
    <3> QED BY <1>2, <1>3, <3>1, Taken
  <2> HIDE DEF a, b
  <2>2. a = b <=> \A i \in 1 .. 4 : a[i] = b[i]
    <3>1. a = [i \in 1 .. 4 |-> a[i]] /\ b = [i \in 1 .. 4 |-> b[i]]
      BY <2>1
    <3> QED BY <3>1
  <2>3. rv[1] = v[y] /\ rv[2] = v[y - 1] /\ rv[3] = v[y - 2] /\ rv[4] = v[y - 3]
    <3>1. y - 1 + 1 = y /\ y - 2 + 1 = y - 1 /\ y - 3 + 1 = y - 2 /\ y - 4 + 1 = y - 3
      BY <1>1
    <3>2. 1 \in 1 .. y /\ 2 \in 1 .. y /\ 3 \in 1 .. y /\ 4 \in 1 .. y
      BY <1>1, <1>5
    <3> QED BY <1>2, <3>1, <3>2
  <2>4. (\A i \in 1 .. 4 : a[i] = b[i]) <=>
            a[1] = b[1] /\ a[2] = b[2] /\ a[3] = b[3] /\ a[4] = b[4]
    <3>1. \A i \in 1 .. 4 : i = 1 \/ i = 2 \/ i = 3 \/ i = 4
      OBVIOUS
    <3>2. 1 \in 1 .. 4 /\ 2 \in 1 .. 4 /\ 3 \in 1 .. 4 /\ 4 \in 1 .. 4
      OBVIOUS
    <3> QED BY <3>1, <3>2
  <2>5. 1 \in 1 .. 4 /\ 2 \in 1 .. 4 /\ 3 \in 1 .. 4 /\ 4 \in 1 .. 4
    OBVIOUS
  <2>6. a = b <=> /\ v[y - 3] = "cr" /\ v[y - 2] = "lf" /\ v[y - 1] = "cr" /\ v[y] = "lf"
    BY <1>3, <2>1, <2>2, <2>3, <2>4, <2>5
  <2> QED BY <2>6 DEF a, b
<1>6. ASSUME 4 <= y
      PROVE  v[y - 3] = w[y - 3] /\ v[y - 2] = w[y - 2] /\ v[y - 1] = w[y - 1] /\ v[y] = w[y]
  BY <1>1, <1>6
<1>7. y \in 4 .. Len(w) <=> 4 <= y
  OBVIOUS
<1>8. IsSuffix(EndOfHead, v) <=> EndsAt(w, y)
  BY <1>4, <1>5, <1>6, <1>7 DEF EndsAt
<1> QED BY <1>8 DEF v

(* The abstract reader sees the head that ends first.                      *)
LEMMA HeadsAre ==
    ASSUME NEW w \in Seq(Bytes)
    PROVE  /\ Reader!Heads(w) # {} <=> \E y \in Nat : EndsAt(w, y)
           /\ \A y \in Nat : EndsAt(w, y) /\ (\A z \in Nat : EndsAt(w, z) => y <= z)
                => Reader!FirstHead(w) = SubSeq(w, 1, y)
<1> DEFINE H == Reader!Heads(w)
<1>0. Len(w) \in Nat /\ \A y \in Nat : EndsAt(w, y) => y \in 0 .. Len(w)
  BY DEF EndsAt
<1>1. \A h : h \in H <=> \E y \in 0 .. Len(w) : h = SubSeq(w, 1, y) /\ EndsAt(w, y)
  <2>1. \A h : h \in H <=> \E y \in 0 .. Len(w) :
                              h = SubSeq(w, 1, y) /\ IsSuffix(EndOfHead, SubSeq(w, 1, y))
    <3>1. \A h : Reader!IsSuffix(EndOfHead, h) <=> IsSuffix(EndOfHead, h)
      BY DEF Reader!IsSuffix, Reader!IsPrefix, Reader!Reverse, IsSuffix, IsPrefix, Reverse
    <3>2. \A h : h \in Reader!Prefixes(w) <=> \E y \in 0 .. Len(w) : h = SubSeq(w, 1, y)
      BY DEF Reader!Prefixes
    <3>3. \A h : h \in H <=> h \in Reader!Prefixes(w) /\ Reader!IsSuffix(EndOfHead, h)
      BY DEF Reader!Heads
    <3> HIDE DEF H
    <3> QED BY <3>1, <3>2, <3>3
  <2> HIDE DEF H
  <2> QED BY <2>1, HeadEnds
<1>2. \A y \in 0 .. Len(w) : Len(SubSeq(w, 1, y)) = y
  OBVIOUS
<1>3. ASSUME NEW y \in Nat, EndsAt(w, y), \A z \in Nat : EndsAt(w, z) => y <= z
      PROVE  Reader!FirstHead(w) = SubSeq(w, 1, y)
  <2> DEFINE h == SubSeq(w, 1, y)
             Shortest(x) == x \in H /\ \A g \in H : Len(x) <= Len(g)
  <2>1. y \in 0 .. Len(w)
    BY <1>0, <1>3
  <2>2. h \in H /\ Len(h) = y
    BY <1>1, <1>2, <1>3, <2>1
  <2>3. ASSUME NEW g \in H PROVE Len(h) <= Len(g) /\ (Len(g) <= Len(h) => g = h)
    <3>1. PICK z \in 0 .. Len(w) : g = SubSeq(w, 1, z) /\ EndsAt(w, z)
      BY <1>1, <2>3
    <3>2. Len(g) = z /\ y <= z
      BY <1>2, <1>3, <3>1
    <3>3. z <= y => z = y
      BY <3>2
    <3> QED BY <2>2, <3>1, <3>2, <3>3
  <2>4. Reader!FirstHead(w) = CHOOSE x \in H : \A g \in H : Len(x) <= Len(g)
    BY DEF Reader!FirstHead
  <2> HIDE DEF h, H
  <2>5. (CHOOSE x \in H : \A g \in H : Len(x) <= Len(g)) = h
    BY <2>2, <2>3
  <2>6. Reader!FirstHead(w) = h
    BY <2>4, <2>5
  <2> QED BY <2>6 DEF h
<1>4. Reader!Heads(w) # {} <=> \E y \in Nat : EndsAt(w, y)
  <2> HIDE DEF H
  <2>1. ASSUME H # {} PROVE \E y \in Nat : EndsAt(w, y)
    <3>1. PICK h : h \in H
      BY <2>1
    <3>2. PICK y \in 0 .. Len(w) : h = SubSeq(w, 1, y) /\ EndsAt(w, y)
      BY <1>1, <3>1
    <3>3. y \in Nat
      BY <1>0
    <3> QED BY <3>2, <3>3
  <2>2. ASSUME NEW y \in Nat, EndsAt(w, y) PROVE H # {}
    <3>1. SubSeq(w, 1, y) \in H
      BY <1>0, <1>1, <2>2
    <3> QED BY <3>1
  <2>3. H # {} <=> \E y \in Nat : EndsAt(w, y)
    BY <2>1, <2>2
  <2> QED BY <2>3 DEF H
<1> QED BY <1>3, <1>4

-----------------------------------------------------------------------------
(* The text of the queue is what was received                              *)

Typed ==
    /\ Len(inbox) <= BufCap /\ toSend \in 0 .. MaxText
    /\ need \in 0 .. MinRead + BufCap /\ (pc = "reading" => need >= MinRead)
    /\ pc \in {"await", "reading", "head", "refused", "overwritten"}
    /\ content \in Seq(Bytes) /\ received \in Seq(Bytes)

TextInv == Typed /\ Whole(chunks) = received

(* Nothing is received and nothing held to begin with.                     *)
LEMMA TextInitially == Init => TextInv
<1> SUFFICES ASSUME Init PROVE TextInv
  OBVIOUS
<1>1. chunks = <<>> /\ Len(chunks) = 0
  BY DEF Init
<1>2. Whole(chunks) = <<>>
  BY <1>1, UptoNothing DEF Whole
<1>3. <<>> \in Seq(Bytes) /\ Len(<<>>) = 0
  OBVIOUS
<1> QED BY <1>2, <1>3, ReadSizes DEF Init, TextInv, Typed

(* What a read adds to the text, it adds to what was received.             *)
LEMMA ReadingAdds ==
    ASSUME IInv, TextInv, ReadData
    PROVE  /\ QueueOK(chunks') /\ Whole(chunks') = received' /\ received' \in Seq(Bytes)
           /\ IsStrictPrefix(received, received')
           /\ Len(inbox') <= BufCap
<1>1. PICK n \in 1 .. Len(inbox) :
          /\ StringLength(LastChunk) + n <= LastChunk.size
          /\ chunks' = [chunks EXCEPT ![Len(chunks)] = Store(@, SubSeq(inbox, 1, n))]
          /\ received' = received \o SubSeq(inbox, 1, n)
          /\ inbox' = SubSeq(inbox, n + 1, Len(inbox))
  BY DEF ReadData
<1>2. inbox \in Seq(Bytes) /\ Len(inbox) \in Nat /\ received \in Seq(Bytes)
      /\ Len(inbox) <= BufCap /\ Whole(chunks) = received
      /\ QueueOK(chunks) /\ chunks # <<>>
  BY DEF IInv, ReadFits, ChunksFit, QueueOK, TextInv, Typed, ReadData
<1> DEFINE b == SubSeq(inbox, 1, n)
<1>3. b \in Seq(Bytes) /\ Len(b) = n /\ Len(b) > 0
  BY <1>2
<1> HIDE DEF b
<1>4. chunks' = [chunks EXCEPT ![Len(chunks)] = Store(LastChunk, b)] /\ received' = received \o b
  <2>1. Len(chunks) \in 1 .. Len(chunks) /\ chunks \in Seq(ChunkRecord)
    BY <1>2 DEF QueueOK
  <2> QED BY <1>1, <2>1 DEF b, LastChunk
<1>5. StringLength(LastChunk) + Len(b) <= LastChunk.size
  BY <1>1, <1>3
<1>6. QueueOK(chunks') /\ Whole(chunks') = Whole(chunks) \o b
  BY <1>2, <1>3, <1>4, <1>5, StoringAdds
<1>7. received' \in Seq(Bytes) /\ IsStrictPrefix(received, received')
  <2> DEFINE w == received \o b
  <2>1. /\ w \in Seq(Bytes) /\ Len(w) = Len(received) + Len(b) /\ Len(received) \in Nat
        /\ \A i \in 1 .. Len(received) : w[i] = received[i]
    BY <1>2, <1>3
  <2> HIDE DEF w
  <2>2. Len(received) \in 0 .. Len(w) /\ Len(received) <= Len(w) /\ received # w
    BY <1>3, <2>1
  <2>3. SubSeq(received, 1, Len(received)) = SubSeq(w, 1, Len(received))
    <3> DEFINE m == Len(received)
               c == SubSeq(received, 1, m)
               d == SubSeq(w, 1, m)
    <3>1. m \in 0 .. Len(received)
      BY <2>1
    <3>2. c \in Seq(Bytes) /\ Len(c) = m /\ \A i \in 1 .. m : c[i] = received[i]
      BY <1>2, <3>1, Taken
    <3>3. d \in Seq(Bytes) /\ Len(d) = m /\ \A i \in 1 .. m : d[i] = w[i]
      BY <2>1, <2>2, Taken
    <3> HIDE DEF c, d
    <3>4. c = [i \in 1 .. m |-> c[i]] /\ d = [i \in 1 .. m |-> d[i]]
      BY <3>2, <3>3
    <3>5. c = d
      BY <2>1, <3>2, <3>3, <3>4
    <3> QED BY <3>5 DEF c, d
  <2>4. IsStrictPrefix(received, w)
    BY <2>2, <2>3 DEF IsStrictPrefix, IsPrefix
  <2> QED BY <1>4, <2>1, <2>4 DEF w
<1>8. Len(inbox') <= BufCap
  <2>1. Len(inbox') = Len(inbox) - n
    BY <1>1, <1>2
  <2> QED BY <1>2, <2>1, ReadSizes
<1> QED BY <1>2, <1>4, <1>6, <1>7, <1>8

(* What the search decides of the chunks, it decides of the bytes.         *)
LEMMA ScanIsExact ==
    ASSUME QueueOK(chunks'), Whole(chunks') = received', received' \in Seq(Bytes), Scan
    PROVE  \/ /\ pc' = "head" /\ Reader!Heads(received') # {}
              /\ content' = Reader!FirstHead(received') /\ content' \in Seq(Bytes)
           \/ /\ pc' = (IF Len(received') > MaxHead THEN "refused" ELSE "await")
              /\ Reader!Heads(received') = {} /\ content' = content
<1> DEFINE q == chunks'
           w == received'
<1>1. /\ \A e \in EndsOfHead(q) :
            /\ e \in Places(q) /\ EndsAt(Whole(q), Pos(q, e))
            /\ \A y \in Nat : EndsAt(Whole(q), y) => Pos(q, e) <= y
      /\ (\E y \in Nat : EndsAt(Whole(q), y)) => EndsOfHead(q) # {}
  BY SearchIsExact
<1>2. /\ Reader!Heads(w) # {} <=> \E y \in Nat : EndsAt(w, y)
      /\ \A y \in Nat : EndsAt(w, y) /\ (\A z \in Nat : EndsAt(w, z) => y <= z)
           => Reader!FirstHead(w) = SubSeq(w, 1, y)
  BY HeadsAre
<1>3. QueueLength(q) = Len(w)
  BY LengthIsOfText
<1>4. ASSUME NEW e \in EndsOfHead(q), pc' = "head", content' = CopyHead(q, e)
      PROVE  /\ Reader!Heads(w) # {} /\ content' = Reader!FirstHead(w)
             /\ content' \in Seq(Bytes)
  <2>1. e \in Places(q) /\ Pos(q, e) \in 1 .. Len(w) /\ Len(w) \in Nat
    BY <1>1, PlaceHasPosition
  <2>2. EndsAt(w, Pos(q, e)) /\ \A z \in Nat : EndsAt(w, z) => Pos(q, e) <= z
    BY <1>1
  <2>3. content' = SubSeq(w, 1, Pos(q, e))
    BY <1>4, <2>1, CopyIsPrefix
  <2> DEFINE y == Pos(q, e)
  <2>4. y \in Nat /\ y \in 0 .. Len(w)
    BY <2>1
  <2> HIDE DEF y, q, w
  <2>5. Reader!FirstHead(w) = SubSeq(w, 1, y) /\ Reader!Heads(w) # {}
    BY <1>2, <2>2, <2>4 DEF y
  <2>6. SubSeq(w, 1, y) \in Seq(Bytes)
    BY <2>4, Taken DEF w
  <2> QED BY <2>3, <2>5, <2>6 DEF y
<1>5. EndsOfHead(q) = {} => Reader!Heads(w) = {}
  BY <1>1, <1>2
<1>6. CASE \E e \in EndsOfHead(q) : pc' = "head" /\ content' = CopyHead(q, e)
  BY <1>4, <1>6
<1>7. CASE EndsOfHead(q) = {} /\ QueueLength(q) > MaxHead /\ pc' = "refused" /\ UNCHANGED content
  BY <1>3, <1>5, <1>7
<1>8. CASE EndsOfHead(q) = {} /\ QueueLength(q) <= MaxHead /\ pc' = "await" /\ UNCHANGED content
  <2>1. Len(w) \in Nat
    OBVIOUS
  <2> QED BY <1>3, <1>5, <1>8, <2>1, ReadSizes
<1> QED BY <1>6, <1>7, <1>8 DEF Scan

(* Every step keeps the text of the chunks what was received.              *)
LEMMA TextInductive == IInv /\ TextInv /\ [Next]_vars => TextInv'
<1> SUFFICES ASSUME IInv, TextInv, [Next]_vars PROVE TextInv'
  OBVIOUS
<1>t. /\ inbox \in Seq(Bytes) /\ Len(inbox) \in Nat /\ need \in Nat /\ QueueOK(chunks)
      /\ Typed /\ Whole(chunks) = received
  BY DEF IInv, ReadFits, ChunksFit, QueueOK, TextInv
<1>1. CASE PickMemory
  <2>1. need' \in Nat /\ need' >= MinRead /\ need' <= MinRead + BufCap /\ chunks' = GetMemory(need')
    BY <1>1, <1>t, ReadSizes DEF PickMemory, NeedBytes, Typed
  <2>2. Whole(chunks') = Whole(chunks)
    BY <1>t, <2>1, PickingKeeps
  <2>3. need' \in 0 .. MinRead + BufCap
    BY <2>1, ReadSizes
  <2>4. Typed'
    BY <1>1, <1>t, <2>1, <2>3 DEF PickMemory, Typed
  <2> QED BY <1>1, <1>t, <2>2, <2>4 DEF PickMemory, TextInv
<1>2. CASE ReadNothing
  BY <1>2, <1>t, ReadSizes DEF ReadNothing, TextInv, Typed
<1>3. CASE ReadData
  <2>1. /\ QueueOK(chunks') /\ Whole(chunks') = received' /\ received' \in Seq(Bytes)
        /\ Len(inbox') <= BufCap
    BY <1>3, ReadingAdds
  <2>2. pc' \in {"head", "refused", "await"} /\ content' \in Seq(Bytes)
    BY <1>3, <1>t, <2>1, ScanIsExact DEF ReadData, Typed
  <2>3. need' = 0 /\ toSend' = toSend
    BY <1>3 DEF ReadData
  <2>4. Typed'
    BY <1>t, <2>1, <2>2, <2>3, ReadSizes DEF Typed
  <2> QED BY <2>1, <2>4 DEF TextInv
<1>4. CASE ReadOutside
  BY <1>4, <1>t DEF ReadOutside, TextInv, Typed
<1>5. CASE Reset
  <2>1. Whole(chunks') = <<>> /\ <<>> \in Seq(Bytes)
    BY <1>5, UptoNothing DEF Reset, Whole
  <2> QED BY <1>5, <1>t, <2>1 DEF Reset, TextInv, Typed
<1>6. CASE ClientSend
  <2>1. PICK x \in Bytes : inbox' = Append(inbox, x)
    BY <1>6 DEF ClientSend
  <2>2. Len(inbox') = Len(inbox) + 1
    BY <1>t, <2>1
  <2>3. Len(inbox') <= BufCap /\ toSend' \in 0 .. MaxText
    BY <1>6, <1>t, <2>2, ReadSizes DEF ClientSend, Typed
  <2> QED BY <1>6, <1>t, <2>3 DEF ClientSend, TextInv, Typed
<1>7. CASE UNCHANGED vars
  BY <1>7, <1>t DEF vars, TextInv, Typed
<1> QED BY <1>1, <1>2, <1>3, <1>4, <1>5, <1>6, <1>7 DEF Next

-----------------------------------------------------------------------------
(* The properties of the runs                                              *)

(* Every count and text has its type; a read has memory to go to, and is   *)
(* never asked for less than the least.                                    *)
THEOREM ReadTypes == Spec => []TypeOK
<1>1. IInv /\ TextInv => TypeOK
  <2> SUFFICES ASSUME IInv, TextInv PROVE TypeOK
    OBVIOUS
  <2>1. \A k \in DOMAIN chunks : ChunkOK(chunks[k])
    <3>1. \A k \in DOMAIN chunks : chunks[k] \in ChunkRecord
      BY DEF IInv, ChunksFit
    <3> QED BY <3>1 DEF ChunkRecord, ChunkOK
  <2> QED BY <2>1 DEF IInv, ReadFits, TextInv, Typed, TypeOK
<1> QED BY Initially, Inductive, TextInitially, TextInductive, <1>1, PTL DEF Spec

(* The texts of the chunks are the bytes received, none lost, none twice,  *)
(* however they are cut into reads and whichever chunks they go to.        *)
THEOREM TextIsReceived == Spec => []ReadsPreserved
<1>1. IInv /\ TextInv => ReadsPreserved
  <2> SUFFICES ASSUME IInv, TextInv PROVE ReadsPreserved
    OBVIOUS
  <2>1. DOMAIN chunks = 1 .. Len(chunks)
    BY DEF IInv, ChunksFit
  <2> QED BY <2>1 DEF TextInv, Whole, Upto, TextsOf, ReadsPreserved
<1> QED BY Initially, Inductive, TextInitially, TextInductive, <1>1, PTL DEF Spec

(* The search for the head over chunks implements the reader of bytes:     *)
(* the head is found with the byte that completes it, copied whole and     *)
(* without what follows, and refused exactly when it is too long.          *)
THEOREM SearchImplementsReader == Spec => ImplementsHeadReader
<1>1. Init => Reader!Init
  BY DEF Init, Reader!Init, HeadPhase
<1>2. ASSUME IInv, TextInv, [Next]_vars
      PROVE  [Reader!Next]_(Reader!vars)
  <2> DEFINE Kept == UNCHANGED <<received, HeadPhase, content>>
  <2>1. CASE PickMemory
    BY <2>1 DEF PickMemory, HeadPhase, Reader!vars
  <2>2. CASE ReadNothing
    BY <2>2 DEF ReadNothing, HeadPhase, Reader!vars
  <2>3. CASE ReadData
    <3>1. /\ QueueOK(chunks') /\ Whole(chunks') = received' /\ received' \in Seq(Bytes)
          /\ IsStrictPrefix(received, received')
      BY <1>2, <2>3, ReadingAdds
    <3>2. \/ /\ pc' = "head" /\ Reader!Heads(received') # {}
             /\ content' = Reader!FirstHead(received')
          \/ /\ pc' = (IF Len(received') > MaxHead THEN "refused" ELSE "await")
             /\ Reader!Heads(received') = {} /\ content' = content
      BY <2>3, <3>1, ScanIsExact DEF ReadData
    <3>3. HeadPhase = "await"
      BY <2>3 DEF ReadData, HeadPhase
    <3>4. Reader!IsStrictPrefix(received, received')
      BY <3>1 DEF Reader!IsStrictPrefix, Reader!IsPrefix, IsStrictPrefix, IsPrefix
    <3>5. /\ HeadPhase' = IF Reader!Heads(received') # {} THEN "head"
                          ELSE IF Len(received') > MaxHead THEN "refused" ELSE "await"
          /\ content' = IF HeadPhase' = "head" THEN Reader!FirstHead(received') ELSE content
      <4>1. CASE /\ pc' = "head" /\ Reader!Heads(received') # {}
                 /\ content' = Reader!FirstHead(received')
        BY <4>1 DEF HeadPhase
      <4>2. CASE /\ pc' = (IF Len(received') > MaxHead THEN "refused" ELSE "await")
                 /\ Reader!Heads(received') = {} /\ content' = content
        BY <4>2 DEF HeadPhase
      <4> QED BY <3>2, <4>1, <4>2
    <3>6. Reader!Receive
      BY <3>3, <3>4, <3>5 DEF Reader!Receive
    <3> QED BY <3>6 DEF Reader!Next
  <2>4. CASE ReadOutside
    BY <2>4 DEF ReadOutside, HeadPhase, Reader!vars
  <2>5. CASE Reset
    <3>1. Reader!AwaitNext
      BY <2>5 DEF Reset, HeadPhase, Reader!AwaitNext
    <3> QED BY <3>1 DEF Reader!Next
  <2>6. CASE ClientSend
    BY <2>6 DEF ClientSend, HeadPhase, Reader!vars
  <2>7. CASE UNCHANGED vars
    BY <2>7 DEF vars, HeadPhase, Reader!vars
  <2> QED BY <1>2, <2>1, <2>2, <2>3, <2>4, <2>5, <2>6, <2>7 DEF Next
<1> QED BY Initially, Inductive, TextInitially, TextInductive, <1>1, <1>2, PTL
        DEF Spec, Reader!Spec, ImplementsHeadReader

================================================================================
