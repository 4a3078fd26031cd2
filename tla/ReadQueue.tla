------------------------------- MODULE ReadQueue -------------------------------
(***************************************************************************)
(* The read queue of a connection, byte by byte: connection_handle_read()  *)
(* asks for memory, reads into it and commits what it has read             *)
(* (chunk.cpp, buffer.cpp), and connection_handle_read_state() searches    *)
(* the chunks for the end of a head, copies the head or refuses it.        *)
(*                                                                         *)
(* A chunk is what its buffer is: `size' bytes allocated, `used' bytes     *)
(* counted (used_bytes, with the terminating NUL), and the bytes stored.   *)
(* Only three bytes are told apart, CR, LF and any other.  The idle list   *)
(* is left out: a recycled chunk is as good as new (WriteQueue has both).  *)
(*                                                                         *)
(* Filling a chunk to its last byte stores the NUL one byte outside.  The  *)
(* heap of this build (glibc, sizes that are multiples of 64) has padding  *)
(* there, so that nothing happens; but a read into memory that does not    *)
(* belong to the chunk ends the model in `overwritten'.                    *)
(***************************************************************************)
EXTENDS Integers, Sequences, SequencesExt

CONSTANTS
    Align,          \* fixed_chunk_size of buffer_align_size(): 64
    MinRead,        \* the least that is asked of read(): 1024
    Word,           \* one more than the largest uint32_t
    MaxHead,        \* max_http_head_size
    BufCap,         \* bytes the kernel's receive buffer holds
    MaxText         \* bound: bytes the client sends in all

ASSUME ReadSizes ==
    /\ Align \in Nat \ {0} /\ MinRead \in Nat \ {0}
    /\ MaxHead \in Nat /\ BufCap \in Nat /\ MaxText \in Nat

(* No size in use comes near the width of a word.                          *)
ASSUME WordIsWide == Word \in Nat /\ MinRead + BufCap + Align < Word

VARIABLES
    inbox,          \* bytes in the kernel's receive buffer
    toSend,         \* bytes the client may still send
    chunks,         \* readqueue, first to last
    need,           \* need_read_bytes of the read() about to be called
    pc,             \* await | reading | head | refused | overwritten
    content,        \* request_content
    received        \* history: bytes read since the queue was last empty

vars == <<inbox, toSend, chunks, need, pc, content, received>>

Bytes == {"cr", "lf", "other"}

EndOfHead == <<"cr", "lf", "cr", "lf">>

-----------------------------------------------------------------------------
(* Buffers                                                                 *)

StringLength(c) == IF c.used > 0 THEN c.used - 1 ELSE 0

Text(c) == SubSeq(c.mem, 1, StringLength(c))

(* buffer_remaining_bytes(), in unsigned arithmetic.                       *)
RemainingBytes(c) == IF c.used > 0 THEN (c.size - c.used) % Word ELSE c.size

AlignSize(n) == ((n + Align - 1) \div Align) * Align

Unallocated == [size |-> 0, used |-> 0, mem |-> <<>>]

(* MUTANT the size is rounded down. *)
AllocSizeShort(c, n) ==
    IF c.size >= n THEN c
    ELSE [size |-> (n \div Align) * Align, used |-> 0, mem |-> <<>>]

AllocSize(c, n) ==
    IF c.size >= n THEN c ELSE [size |-> AlignSize(n), used |-> 0, mem |-> <<>>]

(* read() stores bytes at the end of the string, chunk_commit_memory()     *)
(* counts them, and the NUL once.                                          *)
Store(c, bytes) ==
    [c EXCEPT !.mem = Text(c) \o bytes,
              !.used = IF StringLength(c) = 0 THEN Len(bytes) + 1 ELSE @ + Len(bytes)]

LastChunk == chunks[Len(chunks)]

(* MUTANT a chunk is allocated anew whether or not it is empty. *)
GetMemoryAnew(n) ==
    LET c == AllocSize(LastChunk, n)
    IN  IF chunks # <<>> /\ RemainingBytes(c) >= n
        THEN [chunks EXCEPT ![Len(chunks)] = c]
        ELSE Append(chunks, AllocSize(Unallocated, n))

(* chunk_get_memory(): the last chunk, allocated anew if it is empty and   *)
(* too small, or a further chunk when that one has no room.                *)
GetMemory(n) ==
    LET c == IF LastChunk.used = 0 THEN AllocSize(LastChunk, n) ELSE LastChunk
    IN  IF chunks # <<>> /\ RemainingBytes(c) >= n
        THEN [chunks EXCEPT ![Len(chunks)] = c]
        ELSE Append(chunks, AllocSize(Unallocated, n))

-----------------------------------------------------------------------------
(* The search for the end of the head (connection.cpp:449-483)             *)

(* MUTANT the index is kept when the search goes on to the next chunk. *)
NextPlaceKeepsIndex(q, p) ==
    LET later == {c \in DOMAIN q : c > p[1] /\ StringLength(q[c]) > p[2]}
    IN  IF p[2] < StringLength(q[p[1]]) THEN {<<p[1], p[2] + 1>>}
        ELSE {<<c, p[2] + 1>> : c \in {d \in later : \A e \in later : d <= e}}

(* Where the byte behind the one at index p[2] of chunk p[1] is, if there  *)
(* is one: in the same chunk, or at the start of the next one with a text. *)
NextPlace(q, p) ==
    LET later == {c \in DOMAIN q : c > p[1] /\ StringLength(q[c]) > 0}
    IN  IF p[2] < StringLength(q[p[1]]) THEN {<<p[1], p[2] + 1>>}
        ELSE {<<c, 1>> : c \in {d \in later : \A e \in later : d <= e}}

(* Going on from the places P to a byte that is number m of EndOfHead.     *)
Match(q, P, m) ==
    {r \in UNION {NextPlace(q, p) : p \in P} : q[r[1]].mem[r[2]] = EndOfHead[m]}

(* Where the end that begins with the CR at p is complete (last_chunk,     *)
(* last_chunk_index), if it is.                                            *)
EndFrom(q, p) == Match(q, Match(q, Match(q, {p}, 2), 3), 4)

Places(q) == UNION {{k} \X (1 .. StringLength(q[k])) : k \in DOMAIN q}

Before(p, r) == p[1] < r[1] \/ (p[1] = r[1] /\ p[2] <= r[2])

(* Starting points are tried in order; the first that matches ends it.     *)
EndsOfHead(q) ==
    LET starts == {p \in Places(q) : q[p[1]].mem[p[2]] = "cr" /\ EndFrom(q, p) # {}}
        first  == CHOOSE p \in starts : \A r \in starts : Before(p, r)
    IN  IF starts = {} THEN {} ELSE EndFrom(q, first)

(* request_content: all chunks up to the last, that one up to the index.   *)
CopyHead(q, end) ==
    FlattenSeq([k \in 1 .. end[1] |->
                    IF k = end[1] THEN SubSeq(q[k].mem, 1, end[2]) ELSE Text(q[k])])

(* chunkqueue_length()                                                     *)
QueueLength(q) == FoldLeft(LAMBDA n, c : n + StringLength(c), 0, q)

-----------------------------------------------------------------------------
Init ==
    /\ inbox = <<>> /\ toSend = MaxText
    /\ chunks = <<>> /\ need = 0 /\ pc = "await"
    /\ content = <<>> /\ received = <<>>

(* MUTANT what FIONREAD says is taken as it is. *)
NeedBytesUnbounded == {MinRead, Len(inbox)}

(* The least, also when the ioctl fails.                                   *)
NeedBytes == {MinRead, IF Len(inbox) < MinRead THEN MinRead ELSE Len(inbox)}

(* FIONREAD tells how much to ask for, and memory is picked for it.  More  *)
(* may arrive before read() is called.                                     *)
PickMemory ==
    /\ pc = "await"
    /\ need' \in NeedBytes
    /\ chunks' = GetMemory(need')
    /\ pc' = "reading"
    /\ UNCHANGED <<inbox, toSend, content, received>>

(* EAGAIN or EINTR: the memory stays for the next time.                    *)
ReadNothing ==
    /\ pc = "reading"
    /\ need' = 0 /\ pc' = "await"
    /\ UNCHANGED <<inbox, toSend, chunks, content, received>>

(* What has been read makes a complete head, too long a one, or neither.   *)
Scan ==
    \/ \E end \in EndsOfHead(chunks') :
        pc' = "head" /\ content' = CopyHead(chunks', end)
    \/ /\ EndsOfHead(chunks') = {} /\ QueueLength(chunks') > MaxHead
       /\ pc' = "refused" /\ UNCHANGED content
    \/ /\ EndsOfHead(chunks') = {} /\ QueueLength(chunks') <= MaxHead
       /\ pc' = "await" /\ UNCHANGED content

(* read() takes n bytes, which are committed and looked through.           *)
ReadData ==
    /\ pc = "reading"
    /\ \E n \in 1 .. Len(inbox) :
        /\ n <= need
        /\ StringLength(LastChunk) + n <= LastChunk.size
        /\ chunks' = [chunks EXCEPT ![Len(chunks)] = Store(@, SubSeq(inbox, 1, n))]
        /\ received' = received \o SubSeq(inbox, 1, n)
        /\ inbox' = SubSeq(inbox, n + 1, Len(inbox))
    /\ Scan
    /\ need' = 0
    /\ UNCHANGED toSend

(* The n bytes do not fit into the chunk they are read into.               *)
ReadOutside ==
    /\ pc = "reading"
    /\ \E n \in 1 .. Len(inbox) :
        n <= need /\ StringLength(LastChunk) + n > LastChunk.size
    /\ pc' = "overwritten"
    /\ UNCHANGED <<inbox, toSend, chunks, need, content, received>>

(* connection_reset() on a kept-alive connection.                          *)
Reset ==
    /\ pc = "head"
    /\ chunks' = <<>> /\ received' = <<>> /\ content' = <<>>
    /\ pc' = "await"
    /\ UNCHANGED <<inbox, toSend, need>>

ClientSend ==
    /\ toSend > 0 /\ Len(inbox) < BufCap
    /\ \E b \in Bytes : inbox' = Append(inbox, b)
    /\ toSend' = toSend - 1
    /\ UNCHANGED <<chunks, need, pc, content, received>>

Next == PickMemory \/ ReadNothing \/ ReadData \/ ReadOutside \/ Reset \/ ClientSend

Spec == Init /\ [][Next]_vars

-----------------------------------------------------------------------------
(* Properties                                                              *)

ChunkOK(c) ==
    /\ c.size \in Nat /\ c.used \in Nat
    /\ c.mem \in Seq(Bytes)

(* Every count and text has its type, and a read has memory to go to and   *)
(* never less to ask for than the least (connection.cpp:393-402).          *)
TypeOK ==
    /\ inbox \in Seq(Bytes) /\ Len(inbox) <= BufCap
    /\ toSend \in 0 .. MaxText
    /\ \A k \in DOMAIN chunks : ChunkOK(chunks[k])
    /\ need \in 0 .. MinRead + BufCap
    /\ pc = "reading" => need >= MinRead /\ chunks # <<>>
    /\ pc \in {"await", "reading", "head", "refused", "overwritten"}
    /\ content \in Seq(Bytes) /\ received \in Seq(Bytes)

(* The texts of the chunks are the bytes received, in order, none lost and *)
(* none twice: across chunks that are reused, allocated anew or added, and *)
(* reads that fail after memory was picked (chunk.cpp:219-271).            *)
ReadsPreserved ==
    FlattenSeq([k \in DOMAIN chunks |-> Text(chunks[k])]) = received

(* No text is longer than its chunk, and a read goes outside a chunk only  *)
(* when an earlier one has filled that chunk to its last byte, so that     *)
(* its used_bytes is one more than its size (chunk.cpp:264, buffer.cpp:45).*)
OutsideOnlyWhenFull ==
    /\ \A k \in DOMAIN chunks : StringLength(chunks[k]) <= chunks[k].size
    /\ pc = "overwritten" => LastChunk.used = LastChunk.size + 1

HeadPhase == IF pc \in {"head", "refused"} THEN pc ELSE "await"

Reader == INSTANCE HeadReader WITH phase <- HeadPhase

(* However the bytes of a head are cut into reads and chunks, the head is  *)
(* found with the byte that completes it, is copied whole and without what *)
(* follows it, and is refused exactly when it has not ended within the     *)
(* limit (connection.cpp:449-517).                                         *)
ImplementsHeadReader == Reader!Spec

-----------------------------------------------------------------------------
(* What the source says and the code does not do                           *)

(* chunk.cpp:237: "we have enough memory in current chunk" for all that    *)
(* read() has been asked for.                                              *)
EnoughMemory == pc = "reading" => StringLength(LastChunk) + need <= LastChunk.size
===============================================================================
