------------------------------- MODULE WriteQueue -------------------------------
(***************************************************************************)
(* The write queue of a connection, down to its list of chunks: a body in  *)
(* memory or in a file is appended, the head is put in front of it, and    *)
(* connection_handle_write() hands the chunks to the kernel, a file        *)
(* through a window of mapped pages (chunk.cpp, connection.cpp:665-836).   *)
(*                                                                         *)
(* Chunks are addresses, linked by `next' as in the code, taken from and   *)
(* returned to an idle list or the heap.  Lengths and offsets are 32-bit   *)
(* words (Word = 2^32).  A byte is known by the part of the response it    *)
(* comes from and its position there; `wire' is what the kernel has taken. *)
(*                                                                         *)
(* A loop over chunks is one step per chunk: `marking' is                  *)
(* chunkqueue_mark_written(), `reset' and `closing' are chunkqueue_reset() *)
(* on a connection that is kept or given up.  The environment may truncate *)
(* a file that is being sent.                                              *)
(***************************************************************************)
EXTENDS Integers, FiniteSets, Sequences, SequencesExt

CONSTANTS
    Chunk,          \* addresses malloc() may return for a chunk
    Null,
    IdleMax,        \* chunks allocated at once, and kept idle: 4
    MaxIov,         \* MAX_CHUNKS of connection_writev_mem_chunk(): 16
    Page,           \* 4096
    WindowPages,    \* 64
    Word,           \* 2^32
    HeadLen,        \* bytes of a response head
    MaxBody,        \* bytes of the longest error body or listing
    FileSizes       \* what stat() may find

ASSUME ChunkAssumption ==
    /\ IsFiniteSet(Chunk) /\ Null \notin Chunk
    /\ IdleMax \in Nat \ {0} /\ MaxIov \in Nat \ {0}

ASSUME WordAssumption ==
    /\ Page \in Nat \ {0} /\ WindowPages \in Nat \ {0}
    /\ Word \in Nat \ {0} /\ Page * WindowPages < Word /\ Word % Page = 0
    /\ HeadLen \in Nat \ {0} /\ MaxBody \in Nat \ {0} /\ HeadLen + MaxBody < Word
    /\ FileSizes \subseteq Nat

VARIABLES
    first, last,        \* the ends of the queue
    idle,               \* the idle list, from its head
    allocated,          \* chunks malloc() has returned and free() has not taken
    chunk,              \* what each chunk holds
    pc,                 \* handle | head | write | marking | finished | reset | closing | freed
    to_mark,            \* bytes mark_written still has to account for
    content_length,
    announced,          \* the number in the Content-Length line, or 0 for no such line
    body,               \* history: the part the body comes from
    file_size,          \* bytes the file has now
    truncated,          \* history: it had more
    wire                \* history: the bytes of this response the kernel has

listVars == <<first, last, idle, allocated, chunk>>
responseVars == <<content_length, announced, body>>
fileVars == <<file_size, truncated>>
vars == <<listVars, pc, to_mark, responseVars, fileVars, wire>>

-----------------------------------------------------------------------------
(* Words and lists                                                         *)

Min2(a, b) == IF a < b THEN a ELSE b

Add(a, b) == (a + b) % Word

Elements(s) == {s[i] : i \in DOMAIN s}

(* The chunks that are in use.                                             *)
Held == allocated \ Elements(idle)

IdleHead == IF idle = <<>> THEN Null ELSE Head(idle)

(* MUTANT the descriptor survives the reset. *)
ClearedButOpen(c) ==
    [kind |-> "file", part |-> "none", length |-> 0, offset |-> 0, open |-> chunk[c].open,
     mapped |-> FALSE, map_offset |-> 0, map_len |-> 0, next |-> IdleHead]

(* chunk_reset(): the file is closed and unmapped; then next = queue->idle. *)
Cleared(c) ==
    [kind |-> "file", part |-> "none", length |-> 0, offset |-> 0, open |-> FALSE,
     mapped |-> FALSE, map_offset |-> 0, map_len |-> 0, next |-> IdleHead]

(* chunk_remaining_len()                                                   *)
RemainingLen(c) == chunk[c].length - chunk[c].offset

(* The chunks from c on, in the order of their links.                      *)
Path(c) ==
    LET go[steps \in Nat] ==
            [x \in Chunk \cup {Null} |->
                IF x = Null \/ steps = 0 THEN <<>> ELSE <<x>> \o go[steps - 1][chunk[x].next]]
    IN  go[Cardinality(Chunk)][c]

Queue == Path(first)

(* MUTANT only the chunks in memory are counted. *)
QueueLengthMemory ==
    LET Counted(n, c) == IF chunk[c].kind = "mem" THEN Add(n, chunk[c].length) ELSE n
    IN  FoldLeft(Counted, 0, Queue)

(* chunkqueue_length(), whatever has been sent of the chunks.              *)
QueueLength == FoldLeft(LAMBDA n, c : Add(n, chunk[c].length), 0, Queue)

(* What chunkqueue_get_unused_chunk() may give: the head of the idle list, *)
(* which is refilled with IdleMax new chunks when it is empty.             *)
Unused ==
    IF idle # <<>>
    THEN {[c |-> Head(idle), rest |-> Tail(idle), taken |-> allocated]}
    ELSE {[c |-> new[1], rest |-> Tail(new), taken |-> allocated \cup Elements(new)] :
            new \in Injection(1 .. IdleMax, Chunk \ allocated)}

-----------------------------------------------------------------------------
Init ==
    /\ first = Null /\ last = Null /\ idle = <<>> /\ allocated = {}
    /\ chunk = [c \in Chunk |->
                  [kind |-> "mem", part |-> "none", length |-> 0, offset |-> 0, open |-> FALSE,
                   mapped |-> FALSE, map_offset |-> 0, map_len |-> 0, next |-> Null]]
    /\ pc = "handle" /\ to_mark = 0
    /\ content_length = 0 /\ announced = 0 /\ body = "none"
    /\ file_size = 0 /\ truncated = FALSE /\ wire = <<>>

-----------------------------------------------------------------------------
(* Filling the queue                                                       *)

(* chunkqueue_append_chunk() with these contents.                          *)
AppendChunk(kind, part, length) ==
    \E u \in Unused :
        /\ idle' = u.rest /\ allocated' = u.taken
        /\ chunk' = [x \in Chunk |->
                        IF x = u.c THEN [chunk[x] EXCEPT !.kind = kind, !.part = part,
                                                         !.length = length, !.next = Null]
                        ELSE IF x = last THEN [chunk[x] EXCEPT !.next = u.c]
                        ELSE chunk[x]]
        /\ last' = u.c
        /\ first' = IF first = Null THEN u.c ELSE first

(* An error body or a directory listing.                                   *)
QueueBuffer ==
    /\ pc = "handle"
    /\ \E n \in 1 .. MaxBody : AppendChunk("mem", "body", n)
    /\ body' = "body"
    /\ pc' = "head"
    /\ UNCHANGED <<to_mark, content_length, announced, fileVars, wire>>

(* A file; one whose length is 0 as a word is not queued.                  *)
QueueFile ==
    /\ pc = "handle"
    /\ \E size \in FileSizes :
        /\ file_size' = size
        /\ IF size % Word = 0 THEN UNCHANGED listVars
                              ELSE AppendChunk("file", "file", size % Word)
    /\ truncated' = FALSE
    /\ body' = "file"
    /\ pc' = "head"
    /\ UNCHANGED <<to_mark, content_length, announced, wire>>

(* snprintf("%d") of an unsigned word.                                     *)
AsSigned(n) == IF 2 * n < Word THEN n ELSE n - Word

(* MUTANT the length is taken with the head in the queue. *)
AnnouncedWithHead == AsSigned(Add(QueueLength, HeadLen))

(* The Content-Length line, which is left out for an empty body.           *)
Announced == IF QueueLength > 0 THEN AsSigned(QueueLength) ELSE 0

(* The length of the body is taken, and announced, before the head is put  *)
(* in front: chunkqueue_prepend_buffer().                                  *)
PrependHead ==
    /\ pc = "head"
    /\ content_length' = QueueLength
    /\ announced' = Announced
    /\ \E u \in Unused :
        /\ idle' = u.rest /\ allocated' = u.taken
        /\ chunk' = [chunk EXCEPT ![u.c].kind = "mem", ![u.c].part = "head",
                                  ![u.c].length = HeadLen, ![u.c].next = first]
        /\ first' = u.c
        /\ last' = IF last = Null THEN u.c ELSE last
    /\ pc' = "write"
    /\ UNCHANGED <<to_mark, body, fileVars, wire>>

-----------------------------------------------------------------------------
(* Writing                                                                 *)

(* n bytes of the part that chunk c holds, from its position on.           *)
Piece(c, n) == [i \in 1 .. n |-> <<chunk[c].part, chunk[c].offset + i>>]

(* Where in the queue the chunks are that one writev() takes: those in     *)
(* memory before the first file that are not written in full, MaxIov of    *)
(* them at most.                                                           *)
Iov ==
    LET unsent == {i \in DOMAIN Queue :
                      /\ \A j \in 1 .. i : chunk[Queue[j]].kind = "mem"
                      /\ RemainingLen(Queue[i]) > 0}
    IN  {i \in unsent : Cardinality({j \in unsent : j <= i}) <= MaxIov}

(* The bytes it is given.                                                  *)
Given ==
    FlattenSeq([i \in DOMAIN Queue |->
                    IF i \in Iov THEN Piece(Queue[i], RemainingLen(Queue[i])) ELSE <<>>])

(* The state WRITE of the connection: something is queued, so it seems.    *)
Writing(kind) ==
    /\ pc = "write" /\ QueueLength # 0
    /\ first # Null /\ chunk[first].kind = kind

(* connection_writev_mem_chunk(): the kernel takes n of the bytes.         *)
WriteMem ==
    /\ Writing("mem")
    /\ \E n \in 1 .. Len(Given) :
        /\ wire' = wire \o SubSeq(Given, 1, n)
        /\ to_mark' = n
    /\ pc' = "marking"
    /\ UNCHANGED <<listVars, responseVars, fileVars>>

(* MUTANT the end of the window is taken to be in it. *)
InWindowInclusive(c) ==
    /\ chunk[c].mapped
    /\ chunk[c].map_offset <= chunk[c].offset
    /\ chunk[c].offset <= Add(chunk[c].map_offset, chunk[c].map_len)

(* The offset lies in the pages that are mapped.                           *)
InWindow(c) ==
    /\ chunk[c].mapped
    /\ chunk[c].map_offset <= chunk[c].offset
    /\ chunk[c].offset < Add(chunk[c].map_offset, chunk[c].map_len)

(* mmap_len of a window that starts at this page.                          *)
WindowLen(start, length) ==
    IF Add(start, WindowPages * Page) > length THEN length - start ELSE WindowPages * Page

PageStart(n) == n - (n % Page)

(* The chunk when its file is open and the window around its offset.       *)
Opened(c) ==
    LET start == PageStart(chunk[c].offset)
    IN  IF InWindow(c) THEN chunk[c]
        ELSE [chunk[c] EXCEPT !.open = TRUE, !.mapped = TRUE, !.map_offset = start,
                              !.map_len = WindowLen(start, chunk[c].length)]

(* What is given to write(): the rest of the file or of the window.        *)
SendLen(c, w) == Min2(RemainingLen(c), w.map_len - (w.offset - w.map_offset))

(* Bytes of a mapping exist up to the end of the last page of the file,    *)
(* with zeros behind the end of the file.                                  *)
PagesEnd == ((file_size + Page - 1) \div Page) * Page

FilePiece(c, n) ==
    [i \in 1 .. n |-> IF chunk[c].offset + i <= file_size THEN Piece(c, n)[i] ELSE <<"zero", 0>>]

(* connection_send_file_chunk(): write() takes n bytes, which have to      *)
(* exist for it to take any.                                               *)
SendFile ==
    /\ Writing("file")
    /\ chunk' = [chunk EXCEPT ![first] = Opened(first)]
    /\ \E n \in 1 .. SendLen(first, Opened(first)) :
        /\ chunk[first].offset + n <= PagesEnd
        /\ wire' = wire \o FilePiece(first, n)
        /\ to_mark' = n
    /\ pc' = "marking"
    /\ UNCHANGED <<first, last, idle, allocated, responseVars, fileVars>>

(* -1: write() gives EAGAIN or EINTR, or mmap() fails.  When open() fails  *)
(* nothing changes at all.                                                 *)
FileNotSent ==
    /\ Writing("file")
    /\ \/ chunk' = [chunk EXCEPT ![first] = Opened(first)]
       \/ /\ ~InWindow(first)
          /\ chunk' = [chunk EXCEPT ![first] = [Opened(first) EXCEPT !.mapped = FALSE]]
    /\ UNCHANGED <<first, last, idle, allocated, pc, to_mark, responseVars, fileVars, wire>>

-----------------------------------------------------------------------------
(* Emptying the queue                                                      *)

(* MUTANT the last chunk is forgotten only in a queue of one. *)
LastAfterPopKept == last

LastAfterPop == IF last = first THEN Null ELSE last

(* The first chunk is unlinked and given to chunkqueue_push_unused_chunk().*)
Pop ==
    /\ first' = chunk[first].next
    /\ last' = LastAfterPop
    /\ chunk' = [chunk EXCEPT ![first] = Cleared(first)]
    /\ IF Len(idle) >= IdleMax
       THEN allocated' = allocated \ {first} /\ UNCHANGED idle
       ELSE idle' = <<first>> \o idle /\ UNCHANGED allocated

(* MUTANT the offset starts again with every write. *)
AdvanceAnew == to_mark

Advance == chunk[first].offset + to_mark

(* MUTANT what has been sent of the chunk before is not considered. *)
WrittenInOne(c) == to_mark >= chunk[c].length

WrittenInFull(c) == to_mark >= RemainingLen(c)

(* One iteration of chunkqueue_mark_written(): a chunk that has been       *)
(* written in full leaves the queue, even an empty one; the last of it is  *)
(* accounted for in the chunk it ends in.                                  *)
MarkChunk ==
    /\ pc = "marking" /\ first # Null
    /\ ~(to_mark = 0 /\ RemainingLen(first) > 0)
    /\ IF WrittenInFull(first)
       THEN Pop /\ to_mark' = to_mark - RemainingLen(first)
       ELSE /\ chunk' = [chunk EXCEPT ![first].offset = Advance]
            /\ to_mark' = 0
            /\ UNCHANGED <<first, last, idle, allocated>>
    /\ UNCHANGED <<pc, responseVars, fileVars, wire>>

(* It returns; the rest of the queue is for the next write.                *)
Marked ==
    /\ pc = "marking"
    /\ first # Null => to_mark = 0 /\ RemainingLen(first) > 0
    /\ pc' = "write"
    /\ UNCHANGED <<listVars, to_mark, responseVars, fileVars, wire>>

(* "we have send all writequeue data": RESPONSE_END.                       *)
Finish ==
    /\ pc = "write" /\ QueueLength = 0
    /\ pc' = "finished"
    /\ UNCHANGED <<listVars, to_mark, responseVars, fileVars, wire>>

(* connection_reset(), after a response, which may be the last one, or     *)
(* after an error in one or between two, which ends the connection.        *)
Reset ==
    /\ \/ pc = "finished" /\ pc' \in {"reset", "closing"}
       \/ pc \in {"handle", "write"} /\ pc' = "closing"
    /\ UNCHANGED <<listVars, to_mark, responseVars, fileVars, wire>>

(* One iteration of chunkqueue_reset(), which clears the ends of the queue *)
(* behind its loop; nothing looks at them before.                          *)
ResetChunk ==
    /\ pc \in {"reset", "closing"} /\ first # Null
    /\ Pop
    /\ UNCHANGED <<pc, to_mark, responseVars, fileVars, wire>>

WasReset ==
    /\ pc = "reset" /\ first = Null
    /\ pc' = "handle"
    /\ content_length' = 0 /\ announced' = 0 /\ body' = "none"
    /\ file_size' = 0 /\ truncated' = FALSE /\ wire' = <<>>
    /\ UNCHANGED <<listVars, to_mark>>

(* chunkqueue_free() with the connection: only idle chunks are left.       *)
Free ==
    /\ pc = "closing" /\ first = Null
    /\ allocated' = allocated \ Elements(idle) /\ idle' = <<>>
    /\ pc' = "freed"
    /\ UNCHANGED <<first, last, chunk, to_mark, responseVars, fileVars, wire>>

TruncateFile ==
    /\ body = "file"
    /\ file_size' \in 0 .. file_size - 1
    /\ truncated' = TRUE
    /\ UNCHANGED <<listVars, pc, to_mark, responseVars, wire>>

Next ==
    \/ QueueBuffer \/ QueueFile \/ PrependHead
    \/ WriteMem \/ SendFile \/ FileNotSent
    \/ MarkChunk \/ Marked \/ Finish
    \/ Reset \/ ResetChunk \/ WasReset \/ Free
    \/ TruncateFile

Spec == Init /\ [][Next]_vars

-----------------------------------------------------------------------------
(* Properties                                                              *)

ChunkType ==
    [kind : {"mem", "file"}, part : {"none", "head", "body", "file"},
     length : 0 .. Word - 1, offset : 0 .. Word - 1, open : BOOLEAN, mapped : BOOLEAN,
     map_offset : 0 .. Word - 1, map_len : 0 .. Word - 1, next : Chunk \cup {Null}]

(* Every word stays a word: in particular no offset passes the length of   *)
(* its chunk, where the unsigned difference would be huge (chunk.cpp:298). *)
TypeOK ==
    /\ {first, last} \subseteq Chunk \cup {Null}
    /\ idle \in Seq(Chunk) /\ allocated \subseteq Chunk
    /\ chunk \in [Chunk -> ChunkType]
    /\ \A c \in Chunk : chunk[c].offset <= chunk[c].length
    /\ pc \in {"handle", "head", "write", "marking", "finished", "reset", "closing",
              "freed"}
    /\ to_mark \in 0 .. Word - 1
    /\ content_length \in 0 .. Word - 1 /\ announced \in Int
    /\ body \in {"none", "body", "file"}
    /\ file_size \in Nat /\ truncated \in BOOLEAN

(* The queue runs from first to last; no chunk is in it twice, or in it    *)
(* and idle; and every allocated chunk is in one of the two lists, so that *)
(* none leaks and none is used after it was freed (chunk.cpp:84-215).      *)
ListsSound ==
    /\ IF first = Null THEN last = Null
       ELSE Queue[Len(Queue)] = last /\ chunk[last].next = Null
    /\ IsInjective(Queue) /\ IsInjective(idle)
    /\ Elements(Queue) \cap Elements(idle) = {}
    /\ Elements(Queue) \cup Elements(idle) = allocated
    /\ Len(idle) <= IdleMax

(* A chunk that is idle, or was freed, holds no file open: the descriptor  *)
(* is closed when the file has been sent, and when the response is given   *)
(* up, before the chunk is used again (chunk.cpp:35-56, 144-155).          *)
FilesOfQueued == \A c \in Chunk : chunk[c].open => c \in Held

(* What connection_send_file_chunk() gives to write() is never empty, and  *)
(* lies within the chunk and within the pages that are mapped, from a page *)
(* boundary on, also where the end of the window wraps around a word       *)
(* (connection.cpp:742-776): the worker neither spins on nothing to send   *)
(* nor reads outside the mapping.                                          *)
WindowSound ==
    first # Null /\ chunk[first].kind = "file" /\ RemainingLen(first) > 0 =>
        LET w == Opened(first)
            n == SendLen(first, w)
        IN  /\ n > 0 /\ w.offset + n <= w.length
            /\ w.map_offset % Page = 0 /\ w.map_offset <= w.offset
            /\ w.offset + n <= w.map_offset + w.map_len

Response(i) == IF i <= HeadLen THEN <<"head", i>> ELSE <<body, i - HeadLen>>

(* The kernel gets the head and then the body, every byte in its place and *)
(* none twice, through partial writes, several chunks and windows; only a  *)
(* file truncated meanwhile has zeros where its bytes were.                *)
WireInOrder ==
    /\ Len(wire) <= HeadLen + content_length
    /\ \A i \in DOMAIN wire : wire[i] = Response(i) \/ (truncated /\ wire[i] = <<"zero", 0>>)

(* mark_written accounts for all that was written, which connection.cpp:710*)
(* asserts, and a response over has been sent in full: the queue is empty  *)
(* when its length is 0.  The exception is a length that is 0 only as a    *)
(* word, of a file of nearly 4 GiB.                                        *)
AllSent ==
    /\ pc = "marking" /\ first = Null => to_mark = 0
    /\ pc = "finished" /\ HeadLen + content_length # Word =>
            first = Null /\ Len(wire) = HeadLen + content_length

(* A client that takes the announced number of bytes behind the head, none *)
(* when none is announced, has the response and nothing else: its next     *)
(* request and answer begin there.  Content-Length is printed as a signed  *)
(* number, so this is for bodies of less than 2 GiB (connection.cpp:623).  *)
BodyAsAnnounced ==
    pc = "finished" /\ 2 * (HeadLen + content_length) < Word =>
        Len(wire) = HeadLen + announced

===============================================================================
