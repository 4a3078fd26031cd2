--------------------------- MODULE WriteQueueProofs ---------------------------
(***************************************************************************)
(* Theorems about WriteQueue, for every size of words, pages, windows,     *)
(* heads and files and every number of chunks.  The queue is followed by   *)
(* its links here: it has at most two chunks, a head and a body.           *)
(***************************************************************************)
EXTENDS WriteQueue, SequenceLemmas, FiniteSetTheorems

Phases == {"handle", "head", "write", "marking", "finished", "reset", "closing", "freed"}

ListTypes ==
    /\ first \in Chunk \cup {Null} /\ last \in Chunk \cup {Null}
    /\ idle \in Seq(Chunk) /\ allocated \subseteq Chunk
    /\ pc \in Phases /\ to_mark \in Nat

ChunkTypes ==
    /\ chunk \in [Chunk -> ChunkType]
    /\ \A c \in Chunk : chunk[c].offset <= chunk[c].length

Distinct(s) == \A i, j \in 1 .. Len(s) : s[i] = s[j] => i = j

IdleSound == Distinct(idle) /\ Elements(idle) \subseteq allocated

One == first \in Held /\ last = first /\ chunk[first].next = Null

Two ==
    /\ first \in Held /\ last \in Held /\ first # last
    /\ chunk[first].next = last /\ chunk[last].next = Null

(* The queue is empty before a body is queued, has the body at most before *)
(* the head is put in front, and never more than the two of them.          *)
QueueShape ==
    \/ first = Null /\ last = Null
    \/ One /\ pc # "handle"
    \/ Two /\ pc \notin {"handle", "head"}

(* What is idle or free is as chunk_reset() leaves it.                     *)
FreeIsClear ==
    \A c \in Chunk : c \notin Held => ~chunk[c].open /\ ~chunk[c].mapped /\ chunk[c].offset = 0

WindowsAligned == \A c \in Chunk : chunk[c].mapped => chunk[c].map_offset % Page = 0

IInv == ListTypes /\ ChunkTypes /\ IdleSound /\ QueueShape /\ FreeIsClear /\ WindowsAligned

-----------------------------------------------------------------------------
(* Arithmetic of pages and words                                           *)

(* A remainder is below its divisor, and no more than the number.          *)
LEMMA Remainder ==
    ASSUME NEW n \in Nat, NEW d \in Nat \ {0}
    PROVE  n % d \in 0 .. d - 1 /\ n % d <= n
  OBVIOUS

(* A page begins at or before each position in it, less than a page before.*)
LEMMA Pages ==
    ASSUME NEW n \in Nat
    PROVE  /\ PageStart(n) \in Nat /\ PageStart(n) <= n /\ n - PageStart(n) < Page
           /\ PageStart(n) % Page = 0
<1> USE WordAssumption
<1>1. n % Page \in 0 .. Page - 1 /\ n % Page <= n
  BY Remainder
<1>2. n = Page * (n \div Page) + (n % Page) /\ n \div Page \in Nat
  OBVIOUS
<1>3. \A q \in Nat : (Page * q) % Page = 0
  OBVIOUS
<1>4. PageStart(n) = Page * (n \div Page)
  BY <1>1, <1>2 DEF PageStart
<1>5. PageStart(n) % Page = 0
  BY <1>2, <1>3, <1>4
<1>6. PageStart(n) = n - (n % Page)
  BY DEF PageStart
<1> QED BY <1>1, <1>5, <1>6

(* A window holds at least a byte of what it is opened for.                *)
LEMMA Windows ==
    ASSUME NEW n \in 0 .. Word - 1, NEW length \in 0 .. Word - 1, n <= length
    PROVE  LET start == PageStart(n)
           IN  /\ WindowLen(start, length) \in 0 .. Word - 1
               /\ n < length => n < start + WindowLen(start, length)
<1> USE WordAssumption
<1> DEFINE start == PageStart(n)
<1>1. start \in Nat /\ start <= n /\ n - start < Page
  BY Pages
<1>2. WindowPages * Page \in Nat /\ Page <= WindowPages * Page /\ WindowPages * Page < Word
  OBVIOUS
<1>3. WindowLen(start, length) = length - start \/ WindowLen(start, length) = WindowPages * Page
  BY DEF WindowLen
<1> QED BY <1>1, <1>2, <1>3

-----------------------------------------------------------------------------
(* Lists                                                                   *)

(* The elements of a list are the first one and those of the rest.         *)
LEMMA HeadAndTail ==
    ASSUME NEW S, NEW s \in Seq(S), s # <<>>
    PROVE  Elements(s) = {Head(s)} \cup Elements(Tail(s))
<1>1. /\ Len(s) \in Nat /\ Len(s) >= 1 /\ DOMAIN s = 1 .. Len(s) /\ Head(s) = s[1]
      /\ DOMAIN Tail(s) = 1 .. Len(s) - 1 /\ \A j \in 1 .. Len(s) - 1 : Tail(s)[j] = s[j + 1]
  OBVIOUS
<1>2. \A i \in 1 .. Len(s) : i = 1 \/ (i - 1 \in 1 .. Len(s) - 1 /\ Tail(s)[i - 1] = s[i])
  BY <1>1
<1>3. \A j \in 1 .. Len(s) - 1 : j + 1 \in 1 .. Len(s)
  BY <1>1
<1>4. ASSUME NEW i \in DOMAIN s PROVE s[i] \in {Head(s)} \cup Elements(Tail(s))
  <2>1. CASE i = 1 BY <1>1, <2>1
  <2>2. CASE i - 1 \in DOMAIN Tail(s) /\ Tail(s)[i - 1] = s[i] BY <2>2 DEF Elements
  <2> QED BY <1>1, <1>2, <2>1, <2>2
<1>5. {Head(s)} \cup Elements(Tail(s)) \subseteq Elements(s)
  BY <1>1, <1>3 DEF Elements
<1> QED BY <1>4, <1>5 DEF Elements

(* An unused chunk is clear, and becomes the one chunk more that is held.  *)
LEMMA UnusedChunk ==
    ASSUME ListTypes, IdleSound, NEW u \in Unused
    PROVE  /\ u.c \in Chunk /\ u.c \notin Held
           /\ u.rest \in Seq(Chunk) /\ u.taken \subseteq Chunk
           /\ Distinct(u.rest) /\ Elements(u.rest) \subseteq u.taken
           /\ u.taken \ Elements(u.rest) = Held \cup {u.c}
<1>1. CASE idle # <<>>
  <2>1. u.c = Head(idle) /\ u.rest = Tail(idle) /\ u.taken = allocated
    BY <1>1 DEF Unused
  <2>2. Elements(idle) = {Head(idle)} \cup Elements(Tail(idle))
    BY <1>1, HeadAndTail DEF ListTypes
  <2>3. Head(idle) \notin Elements(Tail(idle)) /\ Distinct(Tail(idle))
    BY <1>1 DEF ListTypes, IdleSound, Distinct, Elements
  <2> QED BY <1>1, <2>1, <2>2, <2>3 DEF ListTypes, IdleSound, Held
<1>2. CASE idle = <<>>
  <2>1. PICK new \in Injection(1 .. IdleMax, Chunk \ allocated) :
            u = [c |-> new[1], rest |-> Tail(new), taken |-> allocated \cup Elements(new)]
    BY <1>2 DEF Unused
  <2>2. /\ new \in [1 .. IdleMax -> Chunk \ allocated]
        /\ \A i, j \in 1 .. IdleMax : new[i] = new[j] => i = j
    BY <2>1 DEF Injection, IsInjective
  <2>3. new \in Seq(Chunk \ allocated) /\ Len(new) = IdleMax /\ new # <<>>
    BY <2>2, ChunkAssumption
  <2>4. Elements(new) = {new[1]} \cup Elements(Tail(new))
    BY <2>3, HeadAndTail
  <2>5. new[1] \notin Elements(Tail(new)) /\ Distinct(Tail(new))
    BY <2>2, <2>3 DEF Elements, Distinct
  <2>6. Elements(new) \subseteq Chunk \ allocated /\ Elements(idle) = {}
    BY <1>2, <2>3 DEF Elements
  <2> QED BY <2>1, <2>3, <2>4, <2>5, <2>6 DEF ListTypes, Held
<1> QED BY <1>1, <1>2

(* What is added to the queue keeps the chunks sound: c, which was unused, *)
(* is now one chunk of a kind and length, linked somewhere.                *)
ChunkTaken(c) ==
    /\ chunk' \in [Chunk -> ChunkType]
    /\ \A x \in Chunk \ {c} : chunk'[x] = [chunk[x] EXCEPT !.next = chunk'[x].next]
    /\ ~chunk'[c].open /\ ~chunk'[c].mapped /\ chunk'[c].offset = 0

(* Taking a chunk, from the idle ones or a new one, adds it to those that  *)
(* are held, and keeps chunks and idle list sound.                         *)
LEMMA TakingIsSound ==
    ASSUME IInv, NEW u \in Unused, idle' = u.rest, allocated' = u.taken, ChunkTaken(u.c)
    PROVE  ChunkTypes' /\ IdleSound' /\ FreeIsClear' /\ WindowsAligned' /\ Held' = Held \cup {u.c}
<1>1. /\ u.c \in Chunk /\ Distinct(u.rest) /\ Elements(u.rest) \subseteq u.taken
      /\ u.taken \ Elements(u.rest) = Held \cup {u.c}
  BY UnusedChunk DEF IInv
<1>2. Held' = Held \cup {u.c}
  BY <1>1 DEF Held, Elements
<1>3. IdleSound'
  BY <1>1 DEF IdleSound, Distinct, Elements
<1>4. \A x \in Chunk \ {u.c} :
          /\ chunk'[x].open = chunk[x].open /\ chunk'[x].mapped = chunk[x].mapped
          /\ chunk'[x].offset = chunk[x].offset /\ chunk'[x].length = chunk[x].length
          /\ chunk'[x].map_offset = chunk[x].map_offset
  BY DEF IInv, ChunkTypes, ChunkTaken, ChunkType
<1>5. ChunkTypes'
  BY <1>1, <1>4 DEF IInv, ChunkTypes, ChunkTaken, ChunkType
<1>6. FreeIsClear' /\ WindowsAligned'
  BY <1>1, <1>2, <1>4 DEF IInv, FreeIsClear, WindowsAligned, ChunkTaken
<1> QED BY <1>2, <1>3, <1>5, <1>6

(* The first chunk is cleared, and is idle or free.                        *)
LEMMA PopFrees ==
    ASSUME IInv, first # Null, Pop
    PROVE  /\ first \in Held /\ first \in Chunk
           /\ chunk'[first] = Cleared(first) /\ Cleared(first) \in ChunkType
           /\ \A c \in Chunk \ {first} : chunk'[c] = chunk[c]
           /\ chunk' \in [Chunk -> ChunkType]
           /\ idle' \in Seq(Chunk) /\ allocated' \subseteq Chunk /\ IdleSound'
           /\ Held' = Held \ {first}
           /\ Len(idle) <= IdleMax => Len(idle') <= IdleMax
<1> USE ChunkAssumption DEF IInv
<1>1. first \in Held /\ first \in Chunk /\ first \notin Elements(idle)
  BY DEF QueueShape, One, Two, Held, ListTypes
<1>2. chunk' = [chunk EXCEPT ![first] = Cleared(first)]
  BY DEF Pop
<1>3. Cleared(first) \in ChunkType
  BY WordAssumption DEF Cleared, ChunkType, IdleHead, ListTypes
<1>4. chunk'[first] = Cleared(first) /\ \A c \in Chunk \ {first} : chunk'[c] = chunk[c]
  BY <1>1, <1>2 DEF ChunkTypes
<1>5. chunk' \in [Chunk -> ChunkType]
  BY <1>1, <1>2, <1>3 DEF ChunkTypes
<1>6. /\ idle' \in Seq(Chunk) /\ allocated' \subseteq Chunk /\ IdleSound'
      /\ Held' = Held \ {first}
  <2>1. CASE allocated' = allocated \ {first} /\ UNCHANGED idle
    BY <1>1, <2>1 DEF ListTypes, IdleSound, Held, Distinct, Elements
  <2>2. CASE idle' = <<first>> \o idle /\ UNCHANGED allocated
    <3>1. /\ idle' \in Seq(Chunk) /\ idle' # <<>>
          /\ Head(idle') = first /\ Tail(idle') = idle
      BY <1>1, <2>2 DEF ListTypes
    <3>2. Elements(idle') = {first} \cup Elements(idle)
      BY <3>1, HeadAndTail
    <3>3. Distinct(idle')
      <4>1. /\ Len(idle') = Len(idle) + 1 /\ Len(idle) \in Nat /\ idle'[1] = first
            /\ \A i \in 2 .. Len(idle') : i - 1 \in 1 .. Len(idle) /\ idle'[i] = idle[i - 1]
        BY <1>1, <2>2 DEF ListTypes
      <4>2. \A i \in 1 .. Len(idle) : idle[i] # first
        BY <1>1 DEF Elements, ListTypes
      <4> QED BY <4>1, <4>2 DEF IdleSound, Distinct
    <3>4. Elements(idle)' = Elements(idle')
      BY DEF Elements
    <3>5. Held' = Held \ {first}
      BY <2>2, <3>2, <3>4 DEF Held
    <3>6. IdleSound'
      <4>1. Elements(idle') \subseteq allocated'
        BY <1>1, <2>2, <3>2 DEF IdleSound, Held
      <4> QED BY <3>3, <3>4, <4>1 DEF IdleSound, Distinct
    <3> QED BY <2>2, <3>1, <3>5, <3>6 DEF ListTypes
  <2> QED BY <2>1, <2>2 DEF Pop
<1>7. ASSUME Len(idle) <= IdleMax PROVE Len(idle') <= IdleMax
  <2>1. CASE idle' = <<first>> \o idle /\ ~(Len(idle) >= IdleMax)
    <3>1. Len(idle) \in Nat /\ Len(idle') = Len(idle) + 1
      BY <1>1, <2>1 DEF ListTypes
    <3> QED BY <2>1, <3>1
  <2> QED BY <1>7, <2>1 DEF Pop
<1> QED BY <1>1, <1>3, <1>4, <1>5, <1>6, <1>7

(* Popping the first chunk leaves the rest of the queue.                   *)
LEMMA PopIsSound ==
    ASSUME IInv, first # Null, Pop, pc' \in Phases, to_mark' \in Nat,
           pc' \notin {"handle", "head"}
    PROVE  IInv'
<1> USE ChunkAssumption DEF IInv
<1>1. first \in Held /\ first \in Chunk
  BY PopFrees
<1>2. first' = chunk[first].next /\ last' = IF last = first THEN Null ELSE last
  BY DEF Pop, LastAfterPop
<1>3. Cleared(first) \in ChunkType /\ chunk' \in [Chunk -> ChunkType]
  BY PopFrees
<1>4. chunk'[first] = Cleared(first) /\ \A c \in Chunk \ {first} : chunk'[c] = chunk[c]
  BY PopFrees
<1>5. ChunkTypes' /\ WindowsAligned'
  BY <1>1, <1>3, <1>4 DEF ChunkTypes, WindowsAligned, Cleared
<1>6. /\ idle' \in Seq(Chunk) /\ allocated' \subseteq Chunk /\ IdleSound'
      /\ Held' = Held \ {first}
  BY PopFrees
<1>7. FreeIsClear'
  BY <1>1, <1>4, <1>6 DEF FreeIsClear, Cleared
<1>8. QueueShape' /\ first' \in Chunk \cup {Null} /\ last' \in Chunk \cup {Null}
  <2>1. CASE One
    BY <1>2, <2>1 DEF One, QueueShape
  <2>2. CASE Two
    <3>1. first' = last /\ last' = last /\ last \in Held' /\ last \in Chunk
      BY <1>2, <1>6, <2>2 DEF Two, Held, ListTypes
    <3>2. chunk'[last].next = Null
      BY <1>4, <2>2, <3>1 DEF Two
    <3> QED BY <3>1, <3>2 DEF QueueShape, One
  <2> QED BY <2>1, <2>2 DEF QueueShape
<1> QED BY <1>5, <1>6, <1>7, <1>8 DEF ListTypes

-----------------------------------------------------------------------------
(* There are no chunks to begin with.                                      *)
LEMMA Initially == Init => IInv
<1> SUFFICES ASSUME Init PROVE IInv OBVIOUS
<1> USE ChunkAssumption, WordAssumption DEF Init
<1>1. ListTypes
  BY DEF ListTypes, Phases
<1>2. ChunkTypes
  BY DEF ChunkTypes, ChunkType
<1>3. IdleSound
  BY DEF IdleSound, Distinct, Elements
<1> QED BY <1>1, <1>2, <1>3 DEF IInv, QueueShape, FreeIsClear, WindowsAligned

(* A body is appended to the empty queue.                                  *)
LEMMA AppendIsSound ==
    ASSUME IInv, pc = "handle", NEW kind \in {"mem", "file"}, NEW part \in {"body", "file"},
           NEW length \in 0 .. Word - 1, AppendChunk(kind, part, length), pc' = "head",
           to_mark' = to_mark
    PROVE  IInv'
<1> USE ChunkAssumption
<1>1. first = Null /\ last = Null
  BY DEF IInv, QueueShape, One, Two
<1>2. PICK u \in Unused :
        /\ idle' = u.rest /\ allocated' = u.taken
        /\ chunk' = [x \in Chunk |->
                        IF x = u.c THEN [chunk[x] EXCEPT !.kind = kind, !.part = part,
                                                         !.length = length, !.next = Null]
                        ELSE IF x = last THEN [chunk[x] EXCEPT !.next = u.c]
                        ELSE chunk[x]]
        /\ last' = u.c
        /\ first' = IF first = Null THEN u.c ELSE first
  BY DEF AppendChunk
<1>3. u.c \in Chunk /\ u.c \notin Held /\ u.rest \in Seq(Chunk) /\ u.taken \subseteq Chunk
  BY UnusedChunk DEF IInv
<1>4. /\ chunk'[u.c] = [chunk[u.c] EXCEPT !.kind = kind, !.part = part,
                                          !.length = length, !.next = Null]
      /\ \A x \in Chunk \ {u.c} : chunk'[x] = chunk[x]
  BY <1>1, <1>2, <1>3
<1>5. chunk'[u.c] \in ChunkType /\ chunk'[u.c].next = Null
  <2>1. chunk[u.c] \in ChunkType
    BY <1>3 DEF IInv, ChunkTypes
  <2> QED BY <1>4, <2>1 DEF ChunkType
<1>6. ChunkTaken(u.c)
  <2>1. chunk' \in [Chunk -> ChunkType]
    BY <1>2, <1>3, <1>4, <1>5 DEF IInv, ChunkTypes
  <2>2. \A x \in Chunk \ {u.c} : chunk'[x] = [chunk[x] EXCEPT !.next = chunk'[x].next]
    BY <1>4 DEF IInv, ChunkTypes, ChunkType
  <2>3. ~chunk'[u.c].open /\ ~chunk'[u.c].mapped /\ chunk'[u.c].offset = 0
    BY <1>3, <1>4 DEF IInv, FreeIsClear, ChunkTypes, ChunkType
  <2> QED BY <2>1, <2>2, <2>3 DEF ChunkTaken
<1>7. ChunkTypes' /\ IdleSound' /\ FreeIsClear' /\ WindowsAligned' /\ Held' = Held \cup {u.c}
  BY <1>2, <1>6, TakingIsSound
<1>8. QueueShape'
  BY <1>1, <1>2, <1>5, <1>7 DEF QueueShape, One
<1>9. ListTypes'
  BY <1>1, <1>2, <1>3 DEF IInv, ListTypes, Phases
<1> QED BY <1>7, <1>8, <1>9 DEF IInv

(* The head is put in front of what is queued, if anything is.             *)
LEMMA PrependIsSound == ASSUME IInv, PrependHead PROVE IInv'
<1> USE ChunkAssumption
<1>1. (first = Null /\ last = Null) \/ One
  BY DEF IInv, QueueShape, PrependHead
<1>2. PICK u \in Unused :
        /\ idle' = u.rest /\ allocated' = u.taken
        /\ chunk' = [chunk EXCEPT ![u.c].kind = "mem", ![u.c].part = "head",
                                  ![u.c].length = HeadLen, ![u.c].next = first]
        /\ first' = u.c
        /\ last' = IF last = Null THEN u.c ELSE last
  BY DEF PrependHead
<1>3. u.c \in Chunk /\ u.c \notin Held /\ u.rest \in Seq(Chunk) /\ u.taken \subseteq Chunk
  BY UnusedChunk DEF IInv
<1>4. /\ chunk'[u.c] = [chunk[u.c] EXCEPT !.kind = "mem", !.part = "head",
                                          !.length = HeadLen, !.next = first]
      /\ \A x \in Chunk \ {u.c} : chunk'[x] = chunk[x]
  BY <1>2, <1>3 DEF IInv, ChunkTypes, ChunkType
<1>5. chunk'[u.c] \in ChunkType /\ chunk'[u.c].next = first
  <2>1. chunk[u.c] \in ChunkType /\ first \in Chunk \cup {Null}
    BY <1>3 DEF IInv, ChunkTypes, ListTypes
  <2>2. HeadLen \in 0 .. Word - 1
    BY WordAssumption
  <2> QED BY <1>4, <2>1, <2>2 DEF ChunkType
<1>6. ChunkTaken(u.c)
  <2>1. chunk' \in [Chunk -> ChunkType]
    BY <1>2, <1>3, <1>4, <1>5 DEF IInv, ChunkTypes
  <2>2. \A x \in Chunk \ {u.c} : chunk'[x] = [chunk[x] EXCEPT !.next = chunk'[x].next]
    BY <1>4 DEF IInv, ChunkTypes, ChunkType
  <2>3. ~chunk'[u.c].open /\ ~chunk'[u.c].mapped /\ chunk'[u.c].offset = 0
    BY <1>3, <1>4 DEF IInv, FreeIsClear, ChunkTypes, ChunkType
  <2> QED BY <2>1, <2>2, <2>3 DEF ChunkTaken
<1>7. ChunkTypes' /\ IdleSound' /\ FreeIsClear' /\ WindowsAligned' /\ Held' = Held \cup {u.c}
  BY <1>2, <1>6, TakingIsSound
<1>8. QueueShape'
  <2>1. CASE first = Null /\ last = Null
    BY <1>2, <1>5, <1>7, <2>1 DEF QueueShape, One, PrependHead
  <2>2. CASE One
    <3>1. last \in Held /\ last # u.c /\ last \in Chunk /\ last # Null /\ last = first
      BY <1>3, <2>2 DEF One, Held, IInv, ListTypes
    <3>2. chunk'[last].next = Null
      BY <1>4, <2>2, <3>1 DEF One
    <3> QED BY <1>2, <1>5, <1>7, <3>1, <3>2 DEF QueueShape, Two, PrependHead
  <2> QED BY <1>1, <2>1, <2>2
<1>9. ListTypes'
  BY <1>2, <1>3 DEF IInv, ListTypes, Phases, PrependHead
<1> QED BY <1>7, <1>8, <1>9 DEF IInv

(* The chunk whose file is sent, when it is open and mapped.               *)
LEMMA OpenedIsSound ==
    ASSUME IInv, NEW c \in Chunk
    PROVE  /\ Opened(c) \in ChunkType /\ Opened(c).offset = chunk[c].offset
           /\ Opened(c).length = chunk[c].length /\ Opened(c).next = chunk[c].next
           /\ Opened(c).mapped /\ Opened(c).map_offset % Page = 0
           /\ Opened(c).map_offset <= Opened(c).offset
           /\ RemainingLen(c) > 0 =>
                Opened(c).offset < Opened(c).map_offset + Opened(c).map_len
<1> DEFINE n == chunk[c].offset
           length == chunk[c].length
           start == PageStart(n)
<1>1. /\ chunk[c] \in ChunkType /\ n \in 0 .. Word - 1 /\ length \in 0 .. Word - 1 /\ n <= length
      /\ chunk[c].map_offset \in 0 .. Word - 1 /\ chunk[c].map_len \in 0 .. Word - 1
  BY DEF IInv, ChunkTypes, ChunkType
<1>2. CASE InWindow(c)
  <2>1. chunk[c].map_offset + chunk[c].map_len \in Nat
    BY <1>1, WordAssumption
  <2>2. Add(chunk[c].map_offset, chunk[c].map_len) <= chunk[c].map_offset + chunk[c].map_len
    BY <2>1, Remainder, WordAssumption DEF Add
  <2>3. Add(chunk[c].map_offset, chunk[c].map_len) \in 0 .. Word - 1
    <3>1. Word \in Nat \ {0}
      BY WordAssumption
    <3>2. (chunk[c].map_offset + chunk[c].map_len) % Word \in 0 .. Word - 1
      BY ONLY <2>1, <3>1, Remainder
    <3> QED BY <3>2 DEF Add
  <2>4. chunk[c].map_offset % Page = 0 /\ Opened(c) = chunk[c]
    BY <1>2 DEF Opened, InWindow, IInv, WindowsAligned
  <2> QED BY <1>1, <1>2, <2>1, <2>2, <2>3, <2>4, WordAssumption DEF InWindow
<1>3. CASE ~InWindow(c)
  <2>1. Opened(c) = [chunk[c] EXCEPT !.open = TRUE, !.mapped = TRUE, !.map_offset = start,
                                     !.map_len = WindowLen(start, length)]
    BY <1>3 DEF Opened
  <2>2. start \in 0 .. Word - 1 /\ start <= n /\ start % Page = 0
    BY <1>1, Pages, WordAssumption
  <2>3. /\ WindowLen(start, length) \in 0 .. Word - 1
        /\ n < length => n < start + WindowLen(start, length)
    BY <1>1, Windows
  <2>4. RemainingLen(c) > 0 => n < length
    BY <1>1, WordAssumption DEF RemainingLen
  <2> HIDE DEF start
  <2>5. Opened(c) \in ChunkType
    BY <1>1, <2>1, <2>2, <2>3 DEF ChunkType
  <2>6. /\ Opened(c).offset = n /\ Opened(c).length = length
        /\ Opened(c).next = chunk[c].next /\ Opened(c).mapped
        /\ Opened(c).map_offset = start /\ Opened(c).map_len = WindowLen(start, length)
    BY <1>1, <2>1 DEF ChunkType
  <2> QED BY <2>2, <2>3, <2>4, <2>5, <2>6
<1> QED BY <1>2, <1>3

(* A file is opened or mapped in a chunk of the queue.                     *)
LEMMA OpeningIsSound ==
    ASSUME IInv, first # Null, NEW c \in ChunkType, chunk' = [chunk EXCEPT ![first] = c],
           c.offset = chunk[first].offset, c.length = chunk[first].length,
           c.next = chunk[first].next, c.mapped => c.map_offset % Page = 0,
           UNCHANGED <<first, last, idle, allocated>>, pc' \in Phases,
           pc' \notin {"handle", "head"}, to_mark' \in Nat
    PROVE  IInv'
<1>1. first \in Chunk /\ first \in Held
  BY DEF IInv, ListTypes, QueueShape, One, Two
<1>2. chunk'[first] = c /\ \A x \in Chunk \ {first} : chunk'[x] = chunk[x]
  BY <1>1 DEF IInv, ChunkTypes
<1>3. ChunkTypes' /\ WindowsAligned'
  BY <1>1, <1>2 DEF IInv, ChunkTypes, WindowsAligned
<1>4. IdleSound' /\ Held' = Held /\ ListTypes'
  BY DEF IInv, IdleSound, Distinct, Elements, Held, ListTypes
<1>5. FreeIsClear'
  BY <1>1, <1>2, <1>4 DEF IInv, FreeIsClear
<1>6. \A x \in Chunk : chunk'[x].next = chunk[x].next
  BY <1>2
<1>7. QueueShape'
  BY <1>1, <1>4, <1>6 DEF IInv, QueueShape, One, Two, Held
<1> QED BY <1>3, <1>4, <1>5, <1>7 DEF IInv

(* Steps that leave the lists and chunks as they are.                      *)
LEMMA Unlisted ==
    ASSUME IInv, UNCHANGED listVars, to_mark' \in Nat, pc' \in Phases,
           pc' \in {"handle"} => first = Null,
           pc = "handle" => pc' \in {"handle", "head", "closing"},
           pc' = "head" => pc \in {"handle", "head"}
    PROVE  IInv'
<1>1. Held' = Held
  BY DEF Held, Elements, listVars
<1>2. ListTypes' /\ ChunkTypes' /\ IdleSound' /\ FreeIsClear' /\ WindowsAligned'
  BY <1>1 DEF IInv, ListTypes, ChunkTypes, IdleSound, Distinct, Elements, FreeIsClear,
      WindowsAligned, listVars
<1>3. QueueShape'
  BY <1>1, ChunkAssumption DEF IInv, QueueShape, One, Two, listVars, ListTypes, Held
<1> QED BY <1>2, <1>3 DEF IInv

-----------------------------------------------------------------------------
(* Every step keeps the windows, the lists and the queue of two sound.     *)
LEMMA Inductive == IInv /\ [Next]_vars => IInv'
<1> SUFFICES ASSUME IInv, [Next]_vars PROVE IInv' OBVIOUS
<1>t. to_mark \in Nat /\ pc \in Phases
  BY DEF IInv, ListTypes
<1>e. pc = "handle" => first = Null
  BY DEF IInv, QueueShape
<1>1. CASE QueueBuffer
  <2>1. PICK n \in 1 .. MaxBody : AppendChunk("mem", "body", n)
    BY <1>1 DEF QueueBuffer
  <2>2. n \in 0 .. Word - 1
    BY WordAssumption
  <2> QED BY <1>1, <2>1, <2>2, AppendIsSound DEF QueueBuffer
<1>2. CASE QueueFile
  <2>1. PICK size \in FileSizes :
            IF size % Word = 0 THEN UNCHANGED listVars ELSE AppendChunk("file", "file", size % Word)
    BY <1>2 DEF QueueFile
  <2>2. CASE size % Word = 0
    BY <1>2, <1>t, <2>1, <2>2, Unlisted DEF QueueFile, Phases
  <2>3. CASE size % Word # 0
    <3>1. size % Word \in 0 .. Word - 1
      BY WordAssumption, Remainder
    <3> QED BY <1>2, <2>1, <2>3, <3>1, AppendIsSound DEF QueueFile
  <2> QED BY <2>2, <2>3
<1>3. CASE PrependHead
  BY <1>3, PrependIsSound
<1>4. CASE WriteMem
  BY <1>4, Unlisted DEF WriteMem, Writing, Phases
<1>5. CASE SendFile
  <2>1. first \in Chunk /\ first # Null
    BY <1>5 DEF SendFile, Writing, IInv, ListTypes
  <2>2. to_mark' \in Nat
    BY <1>5 DEF SendFile
  <2> QED BY <1>5, <2>1, <2>2, OpenedIsSound, OpeningIsSound DEF SendFile, Phases
<1>6. CASE FileNotSent
  <2>1. first \in Chunk /\ first # Null /\ pc = "write"
    BY <1>6 DEF FileNotSent, Writing, IInv, ListTypes
  <2>2. CASE chunk' = [chunk EXCEPT ![first] = Opened(first)]
    BY <1>6, <1>t, <2>1, <2>2, OpenedIsSound, OpeningIsSound DEF FileNotSent, Phases
  <2>3. CASE chunk' = [chunk EXCEPT ![first] = [Opened(first) EXCEPT !.mapped = FALSE]]
    <3> DEFINE c == [Opened(first) EXCEPT !.mapped = FALSE]
    <3>1. /\ c \in ChunkType /\ c.offset = chunk[first].offset
          /\ c.length = chunk[first].length /\ c.next = chunk[first].next /\ ~c.mapped
      BY <2>1, OpenedIsSound DEF ChunkType
    <3> HIDE DEF c
    <3> QED BY <1>6, <1>t, <2>1, <2>3, <3>1, OpeningIsSound DEF FileNotSent, Phases, c
  <2> QED BY <1>6, <2>2, <2>3 DEF FileNotSent
<1>7. CASE MarkChunk
  <2>1. first \in Chunk /\ first # Null /\ pc' = "marking"
    BY <1>7 DEF MarkChunk, IInv, ListTypes
  <2>2. /\ chunk[first] \in ChunkType /\ chunk[first].offset \in Nat
        /\ chunk[first].length \in 0 .. Word - 1 /\ chunk[first].offset <= chunk[first].length
    BY <2>1 DEF IInv, ChunkTypes, ChunkType
  <2>3. CASE WrittenInFull(first)
    <3>1. to_mark' \in Nat
      BY <1>7, <1>t, <2>2, <2>3, WordAssumption DEF MarkChunk, WrittenInFull, RemainingLen
    <3> QED BY <1>7, <2>1, <2>3, <3>1, PopIsSound DEF MarkChunk, Phases
  <2>4. CASE ~WrittenInFull(first)
    <3> DEFINE c == [chunk[first] EXCEPT !.offset = Advance]
    <3>1. Advance \in 0 .. Word - 1 /\ Advance <= chunk[first].length
      BY <1>t, <2>2, <2>4, WordAssumption DEF Advance, WrittenInFull, RemainingLen
    <3>2. c \in ChunkType /\ c.offset = Advance /\ c.length = chunk[first].length
      BY <2>2, <3>1 DEF ChunkType
    <3>3. /\ c.next = chunk[first].next /\ c.open = chunk[first].open
          /\ c.mapped = chunk[first].mapped /\ c.map_offset = chunk[first].map_offset
      BY <2>2 DEF ChunkType
    <3>4. chunk' = [chunk EXCEPT ![first] = c] /\ UNCHANGED <<first, last, idle, allocated, pc>>
      BY <1>7, <2>2, <2>4 DEF MarkChunk, ChunkType
    <3>5. to_mark' = 0
      BY <1>7, <2>4 DEF MarkChunk
    <3> HIDE DEF c
    <3>6. first \in Held
      BY <2>1 DEF IInv, QueueShape, One, Two
    <3>7. chunk'[first] = c /\ \A x \in Chunk \ {first} : chunk'[x] = chunk[x]
      BY <2>1, <3>4 DEF IInv, ChunkTypes
    <3>8. ChunkTypes' /\ WindowsAligned'
      BY <2>1, <3>1, <3>2, <3>3, <3>4, <3>7 DEF IInv, ChunkTypes, WindowsAligned
    <3>9. IdleSound' /\ Held' = Held /\ ListTypes'
      BY <3>4, <3>5 DEF IInv, IdleSound, Distinct, Elements, Held, ListTypes
    <3>10. FreeIsClear'
      BY <3>6, <3>7, <3>9 DEF IInv, FreeIsClear
    <3>11. \A x \in Chunk : chunk'[x].next = chunk[x].next
      BY <3>3, <3>7
    <3>12. QueueShape'
      BY <3>4, <3>9, <3>11 DEF IInv, QueueShape, One, Two, Held, ListTypes
    <3> QED BY <3>8, <3>9, <3>10, <3>12 DEF IInv
  <2> QED BY <2>3, <2>4
<1>8. CASE Marked
  BY <1>8, <1>t, Unlisted DEF Marked, Phases
<1>9. CASE Finish
  BY <1>9, <1>t, Unlisted DEF Finish, Phases
<1>10. CASE Reset
  BY <1>10, <1>t, Unlisted DEF Reset, Phases
<1>11. CASE ResetChunk
  BY <1>11, <1>t, PopIsSound DEF ResetChunk
<1>12. CASE WasReset
  BY <1>12, <1>t, Unlisted DEF WasReset, Phases
<1>13. CASE Free
  <2>1. allocated \subseteq Chunk /\ idle \in Seq(Chunk) /\ first = Null
    BY <1>13 DEF Free, IInv, ListTypes
  <2>2. Elements(<<>>) = {}
    BY DEF Elements
  <2>3. Held' = Held
    BY <1>13, <2>2 DEF Free, Held
  <2>4. ListTypes' /\ ChunkTypes' /\ WindowsAligned'
    BY <1>13, <1>t, <2>1 DEF Free, IInv, ListTypes, ChunkTypes, WindowsAligned, Phases
  <2>5. IdleSound' /\ FreeIsClear'
    BY <1>13, <2>2, <2>3 DEF Free, IInv, IdleSound, Distinct, FreeIsClear
  <2>6. QueueShape'
    BY <1>13, <2>1, ChunkAssumption
    DEF Free, IInv, QueueShape, One, Two, Held
  <2> QED BY <2>4, <2>5, <2>6 DEF IInv
<1>14. CASE TruncateFile
  BY <1>14, <1>t, <1>e, Unlisted DEF TruncateFile
<1>15. CASE UNCHANGED vars
  BY <1>15, <1>t, <1>e, Unlisted DEF vars, listVars
<1> QED
  BY <1>1, <1>2, <1>3, <1>4, <1>5, <1>6, <1>7, <1>8, <1>9, <1>10, <1>11, <1>12, <1>13,
     <1>14, <1>15 DEF Next

-----------------------------------------------------------------------------
(* The queue is empty, a head or a body, or a head and a body, and each of *)
(* them is a chunk of its own that is neither idle nor freed.              *)
THEOREM QueueOfTwo == Spec => []QueueShape
<1>1. IInv => QueueShape BY DEF IInv
<1> QED BY Initially, Inductive, <1>1, PTL DEF Spec

(* Whatever is sent, given up or recycled: a chunk that is idle or freed   *)
(* holds no file open.                                                     *)
THEOREM NoFileForgotten == Spec => []FilesOfQueued
<1>1. IInv => FilesOfQueued BY DEF IInv, FreeIsClear, FilesOfQueued
<1> QED BY Initially, Inductive, <1>1, PTL DEF Spec

(* What is given to write() of a file is never empty, and never lies       *)
(* outside the file or its mapped pages, for every length, offset and size *)
(* of page and window, and where their sum wraps around a word.            *)
THEOREM WindowsAreSound == Spec => []WindowSound
<1>1. IInv => WindowSound
  <2> SUFFICES ASSUME IInv, first # Null, chunk[first].kind = "file", RemainingLen(first) > 0
               PROVE  LET w == Opened(first)
                          n == SendLen(first, w)
                      IN  /\ n > 0 /\ w.offset + n <= w.length
                          /\ w.map_offset % Page = 0 /\ w.map_offset <= w.offset
                          /\ w.offset + n <= w.map_offset + w.map_len
    BY DEF WindowSound
  <2>1. first \in Chunk
    BY DEF IInv, ListTypes
  <2>2. /\ Opened(first) \in ChunkType /\ Opened(first).offset = chunk[first].offset
        /\ Opened(first).length = chunk[first].length
        /\ Opened(first).map_offset % Page = 0 /\ Opened(first).map_offset <= Opened(first).offset
        /\ Opened(first).offset < Opened(first).map_offset + Opened(first).map_len
    BY <2>1, OpenedIsSound
  <2>3. /\ Opened(first).offset \in Nat /\ Opened(first).length \in Nat
        /\ Opened(first).map_offset \in Nat /\ Opened(first).map_len \in Nat
    BY <2>2, WordAssumption DEF ChunkType
  <2> QED BY <2>2, <2>3 DEF SendLen, Min2, RemainingLen
<1> QED BY Initially, Inductive, <1>1, PTL DEF Spec

-----------------------------------------------------------------------------
(* What the queue holds of the response                                    *)

NothingLeaks == Held = {first, last} \ {Null} /\ Len(idle) <= IdleMax

(* A chunk in the queue has something left to send.                        *)
Unsent == \A c \in Held : chunk[c].offset < chunk[c].length

HeadChunk(c) == chunk[c].kind = "mem" /\ chunk[c].part = "head" /\ chunk[c].length = HeadLen

BodyChunk(c) ==
    /\ chunk[c].kind = (IF body = "file" THEN "file" ELSE "mem") /\ chunk[c].part = body
    /\ body = "body" => chunk[c].length <= MaxBody
    /\ body = "file" /\ ~truncated => file_size % Word = chunk[c].length

ResponseTypes ==
    /\ content_length \in 0 .. Word - 1 /\ announced = AsSigned(content_length)
    /\ body \in {"none", "body", "file"}
    /\ file_size \in Nat /\ truncated \in BOOLEAN
    /\ wire \in Seq({"head", "body", "file", "zero"} \X Nat)
    /\ to_mark \in 0 .. Word - 1 /\ (pc # "marking" => to_mark = 0)

(* Before there is a head.                                                 *)
BodyQueued ==
    /\ pc \in {"handle", "head"} => wire = <<>> /\ content_length = 0
    /\ pc = "head" => /\ body # "none"
                      /\ first # Null => BodyChunk(first) /\ chunk[first].offset = 0
                      /\ first = Null => body = "file" /\ (truncated \/ file_size % Word = 0)

(* Where the part begins in the response that chunk c holds.               *)
Base(c) == IF chunk[c].part = "head" THEN 0 ELSE HeadLen

(* While it is written, the queue holds the head, or what is left of it,   *)
(* and the body, or what is left of that.                                  *)
Remains ==
    pc \in {"write", "marking", "finished"} =>
        /\ body # "none"
        /\ body = "body" => content_length <= MaxBody
        /\ body = "file" /\ ~truncated => file_size % Word = content_length
        /\ One => \/ HeadChunk(first) /\ content_length = 0
                  \/ BodyChunk(first) /\ chunk[first].length = content_length
        /\ Two => /\ HeadChunk(first)
                  /\ BodyChunk(last) /\ chunk[last].offset = 0
                  /\ chunk[last].length = content_length

(* What the kernel has ends where the first chunk goes on, to_mark apart.  *)
Accounted ==
    pc \in {"write", "marking", "finished"} =>
        IF first = Null THEN Len(wire) = HeadLen + content_length /\ to_mark = 0
        ELSE Len(wire) = Base(first) + chunk[first].offset + to_mark

Finished ==
    pc = "finished" => first = Null \/ HeadLen + content_length = Word

WInv ==
    /\ NothingLeaks /\ Unsent /\ ResponseTypes /\ BodyQueued /\ Remains /\ Accounted
    /\ WireInOrder /\ Finished

-----------------------------------------------------------------------------
(* The queue, its length and what writev() is given                        *)

(* The recursive function in Path().                                       *)
PathStep(go) ==
    [steps \in Nat |->
        [x \in Chunk \cup {Null} |->
            IF x = Null \/ steps = 0 THEN <<>> ELSE <<x>> \o go[steps - 1][chunk[x].next]]]

(* It can be unfolded: the links of the chunks lead to chunks or to Null.  *)
LEMMA PathUnfolds ==
    ASSUME ChunkTypes
    PROVE  \E go : /\ \A c : Path(c) = go[Cardinality(Chunk)][c]
                   /\ \A x \in Chunk \cup {Null} : go[0][x] = <<>>
                   /\ \A n \in Nat : go[n][Null] = <<>>
                   /\ \A n \in Nat : \A x \in Chunk :
                          go[n + 1][x] = <<x>> \o go[n][chunk[x].next]
<1> DEFINE A == Chunk \cup {Null}
           V == [A -> Seq(Chunk)]
           none == [x \in A |-> <<>>]
           longer(v) == [x \in A |-> IF x = Null THEN <<>> ELSE <<x>> \o v[chunk[x].next]]
           step == [n \in Nat |-> [v \in V |-> longer(v)]]
<1>1. \A x \in Chunk : chunk[x].next \in A
  BY DEF ChunkTypes, ChunkType
<1>2. none \in V
  <2> <<>> \in Seq(Chunk)
    OBVIOUS
  <2> QED OBVIOUS
<1>3. ASSUME NEW v \in V PROVE longer(v) \in V
  <2>1. ASSUME NEW x \in A
        PROVE  (IF x = Null THEN <<>> ELSE <<x>> \o v[chunk[x].next]) \in Seq(Chunk)
    <3>1. CASE x = Null
      BY <3>1
    <3>2. CASE x # Null
      <4>1. x \in Chunk /\ v[chunk[x].next] \in Seq(Chunk)
        BY <1>1, <3>2
      <4>2. <<x>> \in Seq(Chunk)
        BY <4>1
      <4> QED BY <3>2, <4>1, <4>2
    <3> QED BY <3>1, <3>2
  <2> QED BY <2>1
<1>4. /\ \A n \in Nat : \A v \in V : step[n][v] = longer(v)
      /\ \A v \in V : \A x \in A :
             longer(v)[x] = IF x = Null THEN <<>> ELSE <<x>> \o v[chunk[x].next]
      /\ \A x \in A : none[x] = <<>>
  OBVIOUS
<1> HIDE DEF longer, none, V
<1>5. step \in [Nat -> [V -> V]]
  BY <1>3
<1> HIDE DEF step
<1>6. PICK g : IsFold(g, V, none, step)
  BY <1>2, <1>5, PrimRec
<1>7. g \in [Nat -> V] /\ g[0] = none /\ \A n \in Nat : g[n + 1] = longer(g[n])
  BY <1>4, <1>6 DEF IsFold
<1>8. g = PathStep(g)
  <2>1. ASSUME NEW n \in Nat
        PROVE  g[n] = [x \in A |->
                 IF x = Null \/ n = 0 THEN <<>> ELSE <<x>> \o g[n - 1][chunk[x].next]]
    <3>1. g[n] \in V /\ g[n] = [x \in A |-> g[n][x]]
      BY <1>7 DEF V
    <3>2. ASSUME NEW x \in A
          PROVE  g[n][x] = IF x = Null \/ n = 0 THEN <<>> ELSE <<x>> \o g[n - 1][chunk[x].next]
      <4>1. CASE n = 0
        BY <1>4, <1>7, <4>1
      <4>2. CASE n # 0
        <5>1. n - 1 \in Nat /\ (n - 1) + 1 = n
          BY <4>2
        <5>2. g[n] = longer(g[n - 1]) /\ g[n - 1] \in V
          BY <1>7, <5>1
        <5> QED BY <1>4, <4>2, <5>2
      <4> QED BY <4>1, <4>2
    <3> QED BY <3>1, <3>2
  <2>2. g = [n \in Nat |-> g[n]]
    BY <1>7
  <2> QED BY <2>1, <2>2 DEF PathStep
<1> DEFINE f0 == CHOOSE go : go = PathStep(go)
<1>9. f0 = PathStep(f0)
  BY <1>8
<1>10. \A c : Path(c) = f0[Cardinality(Chunk)][c]
  BY DEF Path, PathStep
<1> HIDE DEF f0
<1>11. \A n \in Nat : \A x \in A :
          f0[n][x] = IF x = Null \/ n = 0 THEN <<>> ELSE <<x>> \o f0[n - 1][chunk[x].next]
  <2>1. ASSUME NEW n \in Nat
        PROVE  f0[n] = [x \in A |-> IF x = Null \/ n = 0 THEN <<>>
                                    ELSE <<x>> \o f0[n - 1][chunk[x].next]]
    BY <1>9 DEF PathStep
  <2> QED BY <2>1
<1>12. \A x \in A : f0[0][x] = <<>>
  BY <1>11
<1>13. \A n \in Nat : f0[n][Null] = <<>>
  BY <1>11
<1>14. ASSUME NEW n \in Nat, NEW x \in Chunk PROVE f0[n + 1][x] = <<x>> \o f0[n][chunk[x].next]
  <2>1. n + 1 \in Nat /\ n + 1 # 0 /\ (n + 1) - 1 = n /\ x \in A /\ x # Null
    BY ChunkAssumption
  <2> QED BY <1>11, <2>1
<1> QED BY <1>10, <1>12, <1>13, <1>14

(* The queue as it is followed by its links.                               *)
LEMMA QueueIs ==
    ASSUME IInv
    PROVE  /\ first = Null => Queue = <<>>
           /\ One => Queue = <<first>>
           /\ Two => Queue = <<first, last>>
<1>1. PICK go : /\ \A c : Path(c) = go[Cardinality(Chunk)][c]
                /\ \A x \in Chunk \cup {Null} : go[0][x] = <<>>
                /\ \A n \in Nat : go[n][Null] = <<>>
                /\ \A n \in Nat : \A x \in Chunk :
                          go[n + 1][x] = <<x>> \o go[n][chunk[x].next]
  BY PathUnfolds DEF IInv
<1> DEFINE n == Cardinality(Chunk)
<1>2. n \in Nat
  BY ChunkAssumption, FS_CardinalityType
<1>3. first \in Chunk => n >= 1
  BY ChunkAssumption, FS_EmptySet, <1>2
<1>4. first \in Chunk /\ last \in Chunk /\ first # last => n >= 2
  <2> SUFFICES ASSUME first \in Chunk, last \in Chunk, first # last PROVE n >= 2
    OBVIOUS
  <2>1. Cardinality({first}) = 1 /\ IsFiniteSet({first})
    BY FS_Singleton
  <2>2. Cardinality({first} \cup {last}) = 2
    BY <2>1, FS_AddElement
  <2>3. {first} \cup {last} \in SUBSET Chunk
    OBVIOUS
  <2>4. Cardinality({first} \cup {last}) <= n
    BY <2>3, ChunkAssumption, FS_Subset
  <2> QED BY <2>2, <2>4, <1>2
<1> HIDE DEF n
<1>5. Queue = go[n][first]
  BY <1>1 DEF Queue, n
<1>6. first = Null => Queue = <<>>
  BY <1>1, <1>2, <1>5
<1>7. ASSUME One PROVE Queue = <<first>>
  <2>1. first \in Chunk /\ chunk[first].next = Null
    BY <1>7 DEF One, Held, IInv, ListTypes
  <2>2. n - 1 \in Nat /\ (n - 1) + 1 = n
    BY <1>2, <1>3, <2>1
  <2>3. go[n][first] = <<first>> \o go[n - 1][chunk[first].next]
    BY <1>1, <2>1, <2>2
  <2>4. go[n - 1][Null] = <<>>
    BY <1>1, <2>2
  <2>5. <<first>> \o <<>> = <<first>>
    BY <2>1
  <2> QED BY <1>5, <2>1, <2>3, <2>4, <2>5
<1>8. ASSUME Two PROVE Queue = <<first, last>>
  <2>1. /\ first \in Chunk /\ chunk[first].next = last
        /\ last \in Chunk /\ chunk[last].next = Null /\ first # last
    BY <1>8 DEF Two, Held, IInv, ListTypes
  <2>2. n - 2 \in Nat /\ n - 1 \in Nat /\ (n - 1) + 1 = n /\ (n - 2) + 1 = n - 1
    BY <1>2, <1>4, <2>1
  <2>3. go[n][first] = <<first>> \o go[n - 1][last]
    BY <1>1, <2>1, <2>2
  <2>4. go[n - 1][last] = <<last>> \o go[n - 2][Null]
    BY <1>1, <2>1, <2>2
  <2>5. go[n - 2][Null] = <<>>
    BY <1>1, <2>2
  <2>6. go[n - 1][last] = <<last>>
    BY <2>1, <2>4, <2>5
  <2>7. <<first>> \o <<last>> = <<first, last>>
    BY <2>1, Pair
  <2> QED BY <1>5, <2>3, <2>6, <2>7
<1> QED BY <1>6, <1>7, <1>8

(* chunkqueue_length() adds up the lengths of the chunks, as words.        *)
LEMMA LengthsAdded ==
    ASSUME ChunkTypes, Queue \in Seq(Chunk)
    PROVE  \E f : /\ QueueLength = f[Len(Queue)] /\ f[0] = 0
                  /\ \A i \in 1 .. Len(Queue) : f[i] = Add(f[i - 1], chunk[Queue[i]].length)
<1> DEFINE n == Len(Queue)
           W == 0 .. Word - 1
           item == [i \in 1 .. n |-> [v \in W |-> Add(v, chunk[Queue[i]].length)]]
           Rec(f) == f = [s \in SUBSET (DOMAIN Queue) |->
                            IF s = {} THEN 0
                            ELSE LET x == Max(s) IN Add(f[s \ {x}], chunk[Queue[x]].length)]
           f0 == CHOOSE f : Rec(f)
<1>1. n \in Nat /\ DOMAIN Queue = 1 .. n /\ \A i \in 1 .. n : chunk[Queue[i]].length \in W
  BY DEF ChunkTypes, ChunkType
<1>2. \A v \in W : \A w \in W : Add(v, w) \in W
  <2>1. ASSUME NEW v \in W, NEW w \in W PROVE Add(v, w) \in W
    <3>1. v + w \in Nat /\ Word \in Nat \ {0}
      BY WordAssumption
    <3> QED BY ONLY <3>1, Remainder DEF Add
  <2> QED BY <2>1
<1>3. 0 \in W
  BY WordAssumption
<1>4. /\ item \in [1 .. n -> [W -> W]]
      /\ \A i \in 1 .. n : \A v \in W : item[i][v] = Add(v, chunk[Queue[i]].length)
  BY <1>1, <1>2
<1> HIDE DEF item, n, W
<1>5. PICK h : IsSetFold(h, n, W, 0, item)
  BY <1>1, <1>3, <1>4, SetFold
<1>6. Rec(h)
  <2>1. ASSUME NEW s \in SUBSET (1 .. n)
        PROVE  h[s] = IF s = {} THEN 0 ELSE Add(h[s \ {Max(s)}], chunk[Queue[Max(s)]].length)
    <3>1. s = {} => h[s] = 0
      BY <1>5 DEF IsSetFold
    <3>2. ASSUME s # {} PROVE h[s] = Add(h[s \ {Max(s)}], chunk[Queue[Max(s)]].length)
      <4>1. Max(s) \in 1 .. n
        BY <1>1, <3>2, Highest
      <4>2. h[s] = item[Max(s)][h[s \ {Max(s)}]] /\ h[s \ {Max(s)}] \in W
        BY <1>5, <3>2 DEF IsSetFold
      <4> QED BY <1>4, <4>1, <4>2
    <3> QED BY <3>1, <3>2
  <2>2. h = [s \in SUBSET (1 .. n) |-> h[s]]
    BY <1>5 DEF IsSetFold
  <2> QED BY <1>1, <2>1, <2>2
<1>7. Rec(f0)
  BY <1>6
<1>8. QueueLength = f0[DOMAIN Queue]
  BY DEF QueueLength, FoldLeft, MapThenFoldSet
<1> HIDE DEF f0
<1>9. \A s \in SUBSET (1 .. n) :
         f0[s] = IF s = {} THEN 0 ELSE Add(f0[s \ {Max(s)}], chunk[Queue[Max(s)]].length)
  BY <1>1, <1>7
<1> DEFINE f == [i \in Nat |-> f0[1 .. i]]
<1>10. QueueLength = f[n] /\ f[0] = 0
  <2>1. 1 .. 0 = {} /\ {} \in SUBSET (1 .. n)
    OBVIOUS
  <2>2. f0[{}] = 0
    BY <1>9, <2>1
  <2> QED BY <1>1, <1>8, <2>1, <2>2
<1>11. ASSUME NEW i \in 1 .. n PROVE f[i] = Add(f[i - 1], chunk[Queue[i]].length)
  <2>1. /\ i \in Nat \ {0} /\ i - 1 \in Nat /\ 1 .. i \in SUBSET (1 .. n)
        /\ 1 .. i # {} /\ Max(1 .. i) = i /\ (1 .. i) \ {i} = 1 .. (i - 1)
    <3>1. i \in Nat \ {0} /\ i - 1 \in Nat /\ 1 .. i \in SUBSET (1 .. n)
      BY <1>1
    <3> QED BY <3>1, UpTo
  <2>2. f0[1 .. i] = Add(f0[1 .. (i - 1)], chunk[Queue[i]].length)
    BY <1>9, <2>1
  <2> QED BY <2>1, <2>2
<1> HIDE DEF f
<1> QED BY <1>10, <1>11 DEF n

(* The length of the queue, and its bounds.                                *)
LEMMA QueueLengthIs ==
    ASSUME IInv
    PROVE  /\ QueueLength \in 0 .. Word - 1
           /\ first = Null => QueueLength = 0
           /\ One => QueueLength = chunk[first].length
           /\ Two => QueueLength = Add(chunk[first].length, chunk[last].length)
<1> USE WordAssumption
<1>0. /\ first = Null \/ One \/ Two
      /\ One => first \in Chunk
      /\ Two => first \in Chunk /\ last \in Chunk
      /\ \A c \in Chunk : chunk[c].length \in 0 .. Word - 1
  BY DEF IInv, ListTypes, ChunkTypes, ChunkType, QueueShape, One, Two, Held
<1>a. \A v \in 0 .. Word - 1 : Add(0, v) = v
  BY DEF Add
<1>b. ASSUME NEW v \in 0 .. Word - 1, NEW w \in 0 .. Word - 1 PROVE Add(v, w) \in 0 .. Word - 1
  <2>1. v + w \in Nat /\ Word \in Nat \ {0}
    OBVIOUS
  <2> QED BY ONLY <2>1, Remainder DEF Add
<1>1. CASE first = Null
  <2>1. Queue = <<>> /\ Queue \in Seq(Chunk) /\ Len(Queue) = 0
    BY <1>1, QueueIs
  <2>2. QueueLength = 0
    BY <2>1, LengthsAdded DEF IInv
  <2>3. ~One /\ ~Two
    BY <1>0, <1>1, ChunkAssumption
  <2> QED BY <2>2, <2>3
<1>2. CASE One
  <2>1. Queue = <<first>> /\ Queue \in Seq(Chunk) /\ Len(Queue) = 1 /\ Queue[1] = first
    <3>1. Queue = <<first>>
      BY <1>2, QueueIs
    <3> QED BY <1>0, <1>2, <3>1
  <2>2. QueueLength = Add(0, chunk[first].length)
    <3>1. PICK f : /\ QueueLength = f[Len(Queue)] /\ f[0] = 0
                   /\ \A i \in 1 .. Len(Queue) : f[i] = Add(f[i - 1], chunk[Queue[i]].length)
      BY <2>1, LengthsAdded DEF IInv
    <3>2. 1 \in 1 .. Len(Queue) /\ 1 - 1 = 0
      BY <2>1
    <3> QED BY <2>1, <3>1, <3>2
  <2>3. ~Two /\ first # Null
    BY <1>0, <1>2, ChunkAssumption DEF One, Two
  <2>4. QueueLength = chunk[first].length /\ QueueLength \in 0 .. Word - 1
    BY <1>0, <1>2, <1>a, <2>2
  <2> QED BY <2>3, <2>4
<1>3. CASE Two
  <2>1. /\ Queue = <<first, last>> /\ Queue \in Seq(Chunk) /\ Len(Queue) = 2
        /\ Queue[1] = first /\ Queue[2] = last
    <3>1. Queue = <<first, last>>
      BY <1>3, QueueIs
    <3> QED BY <1>0, <1>3, <3>1
  <2>2. QueueLength = Add(Add(0, chunk[first].length), chunk[last].length)
    <3>1. PICK f : /\ QueueLength = f[Len(Queue)] /\ f[0] = 0
                   /\ \A i \in 1 .. Len(Queue) : f[i] = Add(f[i - 1], chunk[Queue[i]].length)
      BY <2>1, LengthsAdded DEF IInv
    <3>2. 1 \in 1 .. Len(Queue) /\ 2 \in 1 .. Len(Queue) /\ 1 - 1 = 0 /\ 2 - 1 = 1
      BY <2>1
    <3> QED BY <2>1, <3>1, <3>2
  <2>3. ~One /\ first # Null
    BY <1>0, <1>3, ChunkAssumption DEF One, Two
  <2>4. QueueLength = Add(chunk[first].length, chunk[last].length)
    BY <1>0, <1>3, <1>a, <2>2
  <2>5. QueueLength \in 0 .. Word - 1
    BY <1>0, <1>3, <1>b, <2>4
  <2> QED BY <2>3, <2>4, <2>5
<1> QED BY <1>0, <1>1, <1>2, <1>3

Rest(c) == Piece(c, RemainingLen(c))

(* A piece of n bytes has their parts and positions.                       *)
LEMMA PieceIs ==
    ASSUME ChunkTypes, NEW c \in Chunk, NEW n \in Nat
    PROVE  /\ Piece(c, n) \in Seq({"none", "head", "body", "file"} \X Nat)
           /\ Len(Piece(c, n)) = n
           /\ \A i \in 1 .. n : Piece(c, n)[i] = <<chunk[c].part, chunk[c].offset + i>>
<1>1. chunk[c].part \in {"none", "head", "body", "file"} /\ chunk[c].offset \in Nat
  BY DEF ChunkTypes, ChunkType
<1>2. \A i \in 1 .. n : chunk[c].offset + i \in Nat
  BY <1>1
<1> QED BY <1>1, <1>2 DEF Piece

(* What is left of the first chunk is given to writev(), and what the      *)
(* second has, when that is in memory too and there is room for two.       *)
LEMMA GivenIs ==
    ASSUME IInv, Unsent, first # Null, chunk[first].kind = "mem"
    PROVE  \/ Given = Rest(first)
           \/ Two /\ chunk[last].kind = "mem" /\ Given = Rest(first) \o Rest(last)
<1> DEFINE unsent == {i \in DOMAIN Queue :
                        /\ \A j \in 1 .. i : chunk[Queue[j]].kind = "mem"
                        /\ RemainingLen(Queue[i]) > 0}
           pieces == [i \in DOMAIN Queue |->
                        IF i \in Iov THEN Piece(Queue[i], RemainingLen(Queue[i])) ELSE <<>>]
           T == {"none", "head", "body", "file"} \X Nat
<1>0. Iov = {i \in unsent : Cardinality({j \in unsent : j <= i}) <= MaxIov}
  BY DEF Iov
<1>1. Given = FlattenSeq(pieces)
  BY DEF Given
<1>2. (One \/ Two) /\ first \in Held /\ first \in Chunk
  BY DEF IInv, QueueShape, One, Two, Held, ListTypes
<1>3. RemainingLen(first) \in Nat /\ RemainingLen(first) > 0
  BY <1>2 DEF Unsent, RemainingLen, IInv, ChunkTypes, ChunkType
<1>4. Rest(first) \in Seq(T)
  BY <1>2, <1>3, PieceIs DEF IInv, Rest
<1>5. ASSUME 1 \in DOMAIN Queue, Queue[1] = first PROVE 1 \in Iov
  <2>1. 1 \in unsent
    BY <1>3, <1>5
  <2>2. {j \in unsent : j <= 1} = {1}
    <3>1. DOMAIN Queue \subseteq Nat \ {0}
      BY <1>2, QueueIs
    <3> QED BY <2>1, <3>1
  <2>3. Cardinality({j \in unsent : j <= 1}) = 1
    BY <2>2, FS_Singleton
  <2> QED BY <1>0, <2>1, <2>3, ChunkAssumption
<1> HIDE DEF unsent
<1>6. CASE One
  <2>1. Queue = <<first>> /\ DOMAIN Queue = {1} /\ Queue[1] = first
    <3>1. Queue = <<first>>
      BY <1>6, QueueIs
    <3> QED BY <3>1
  <2>2. 1 \in Iov
    BY <1>5, <2>1
  <2>3. pieces = <<Rest(first)>>
    <3>1. DOMAIN pieces = {1} /\ pieces[1] = Rest(first)
      BY <2>1, <2>2 DEF Rest
    <3> QED BY <2>1, <2>2 DEF Rest
  <2> QED BY <1>1, <1>4, <2>3, FlattenOne
<1>7. CASE Two
  <2>1. /\ Queue = <<first, last>> /\ DOMAIN Queue = 1 .. 2 /\ Queue[1] = first
        /\ Queue[2] = last /\ last \in Held /\ last \in Chunk
    <3>1. Queue = <<first, last>>
      BY <1>7, QueueIs
    <3> QED BY <1>7, <3>1 DEF Two, Held, IInv, ListTypes
  <2>2. 1 \in Iov
    BY <1>5, <2>1
  <2>3. RemainingLen(last) \in Nat /\ Rest(last) \in Seq(T)
    <3>1. RemainingLen(last) \in Nat
      BY <2>1 DEF Unsent, RemainingLen, IInv, ChunkTypes, ChunkType
    <3> QED BY <2>1, <3>1, PieceIs DEF IInv, Rest
  <2>4. CASE 2 \in Iov
    <3>1. chunk[last].kind = "mem"
      <4>1. 2 \in unsent /\ 2 \in 1 .. 2
        BY <1>0, <2>4
      <4> QED BY <2>1, <4>1 DEF unsent
    <3>2. pieces = <<Rest(first), Rest(last)>>
      BY <2>1, <2>2, <2>4 DEF Rest
    <3> QED BY <1>1, <1>4, <1>7, <2>3, <3>1, <3>2, FlattenTwo
  <2>5. CASE 2 \notin Iov
    <3>1. pieces = <<Rest(first), <<>>>>
      BY <2>1, <2>2, <2>5 DEF Rest
    <3>2. <<>> \in Seq(T) /\ Rest(first) \o <<>> = Rest(first)
      <4> HIDE DEF T
      <4> QED BY <1>4
    <3> QED BY <1>1, <1>4, <3>1, <3>2, FlattenTwo
  <2> QED BY <2>4, <2>5
<1> QED BY <1>2, <1>6, <1>7

-----------------------------------------------------------------------------
(* The response in the queue and on the wire                               *)

(* Nothing is queued or sent to begin with.                                *)
LEMMA ResponseInitially == Init => WInv
<1> SUFFICES ASSUME Init PROVE WInv OBVIOUS
<1> USE ChunkAssumption, WordAssumption DEF Init
<1>1. Elements(idle) = {} /\ Held = {} /\ Len(idle) = 0
  BY DEF Elements, Held
<1>2. NothingLeaks /\ Unsent
  BY <1>1 DEF NothingLeaks, Unsent
<1>3. AsSigned(0) = 0
  BY DEF AsSigned
<1>4. ResponseTypes
  <2>1. wire \in Seq({"head", "body", "file", "zero"} \X Nat)
    OBVIOUS
  <2>2. content_length \in 0 .. Word - 1 /\ announced = AsSigned(content_length)
    BY <1>3
  <2> QED BY <2>1, <2>2 DEF ResponseTypes
<1>5. BodyQueued /\ Remains /\ Accounted /\ Finished
  BY DEF BodyQueued, Remains, Accounted, Finished
<1>6. WireInOrder
  BY DEF WireInOrder
<1> QED BY <1>2, <1>4, <1>5, <1>6 DEF WInv

(* An unused chunk joins those that are held.                              *)
LEMMA OneMoreHeld ==
    ASSUME IInv, NothingLeaks, NEW u \in Unused, idle' = u.rest, allocated' = u.taken
    PROVE  /\ u.c \in Chunk /\ u.c \notin Held /\ Held' = Held \cup {u.c}
           /\ Len(idle') <= IdleMax /\ chunk[u.c].offset = 0
<1>1. /\ u.c \in Chunk /\ u.c \notin Held /\ u.taken \ Elements(u.rest) = Held \cup {u.c}
  BY UnusedChunk DEF IInv
<1>2. Held' = Held \cup {u.c}
  BY <1>1 DEF Held, Elements
<1>3. Len(u.rest) <= IdleMax
  <2>1. CASE idle # <<>>
    <3>1. u.rest = Tail(idle) /\ idle \in Seq(Chunk) /\ Len(idle) <= IdleMax
      BY <2>1 DEF Unused, NothingLeaks, IInv, ListTypes
    <3> QED BY <2>1, <3>1, ChunkAssumption
  <2>2. CASE idle = <<>>
    <3>1. PICK new \in Injection(1 .. IdleMax, Chunk \ allocated) :
              u = [c |-> new[1], rest |-> Tail(new), taken |-> allocated \cup Elements(new)]
      BY <2>2 DEF Unused
    <3>2. new \in Seq(Chunk \ allocated) /\ Len(new) = IdleMax /\ new # <<>>
      BY <3>1, ChunkAssumption DEF Injection
    <3> QED BY <3>1, <3>2, ChunkAssumption
  <2> QED BY <2>1, <2>2
<1>4. chunk[u.c].offset = 0
  BY <1>1 DEF IInv, FreeIsClear
<1> QED BY <1>1, <1>2, <1>3, <1>4

(* A body is all that the queue holds.                                     *)
LEMMA AppendingHolds ==
    ASSUME IInv, WInv, pc = "handle", NEW kind, NEW part, NEW length \in 1 .. Word - 1,
           \/ kind = "mem" /\ part = "body" /\ length <= MaxBody
           \/ kind = "file" /\ part = "file" /\ file_size' % Word = length,
           AppendChunk(kind, part, length), body' = part, pc' = "head",
           UNCHANGED <<to_mark, content_length, announced, wire>>,
           file_size' \in Nat, truncated' \in BOOLEAN
    PROVE  WInv'
<1> USE ChunkAssumption, WordAssumption
<1>1. first = Null /\ last = Null /\ Held = {}
  BY DEF IInv, QueueShape, One, Two, WInv, NothingLeaks
<1>2. PICK u \in Unused :
        /\ idle' = u.rest /\ allocated' = u.taken
        /\ chunk' = [x \in Chunk |->
                        IF x = u.c THEN [chunk[x] EXCEPT !.kind = kind, !.part = part,
                                                         !.length = length, !.next = Null]
                        ELSE IF x = last THEN [chunk[x] EXCEPT !.next = u.c]
                        ELSE chunk[x]]
        /\ last' = u.c
        /\ first' = IF first = Null THEN u.c ELSE first
  BY DEF AppendChunk
<1>3. u.c \in Chunk /\ Held' = {u.c} /\ Len(idle') <= IdleMax /\ chunk[u.c].offset = 0
  BY <1>1, <1>2, OneMoreHeld DEF WInv
<1>4. first' = u.c /\ last' = u.c /\ u.c # Null
  BY <1>1, <1>2, <1>3
<1>5. /\ chunk'[u.c].kind = kind /\ chunk'[u.c].part = part
      /\ chunk'[u.c].length = length /\ chunk'[u.c].offset = 0
  <2>1. chunk'[u.c] = [chunk[u.c] EXCEPT !.kind = kind, !.part = part,
                                         !.length = length, !.next = Null]
    BY <1>2, <1>3
  <2>2. chunk[u.c] \in ChunkType
    BY <1>3 DEF IInv, ChunkTypes
  <2> QED BY <1>3, <2>1, <2>2 DEF ChunkType
<1>6. NothingLeaks' /\ Unsent'
  BY <1>3, <1>4, <1>5 DEF NothingLeaks, Unsent
<1>7. wire = <<>> /\ content_length = 0
  BY DEF WInv, BodyQueued
<1>8. ResponseTypes'
  BY DEF WInv, ResponseTypes, AsSigned
<1>9. BodyQueued'
  BY <1>4, <1>5, <1>7 DEF BodyQueued, BodyChunk
<1>10. Remains' /\ Accounted' /\ Finished'
  BY DEF Remains, Accounted, Finished
<1>11. WireInOrder'
  BY <1>7 DEF WireInOrder
<1> QED BY <1>6, <1>8, <1>9, <1>10, <1>11 DEF WInv

(* The head stands in front of the body, whose length has been taken.      *)
LEMMA PrependingHolds == ASSUME IInv, WInv, PrependHead PROVE WInv'
<1> USE ChunkAssumption, WordAssumption
<1>1. /\ pc = "head" /\ wire = <<>> /\ content_length = 0 /\ to_mark = 0 /\ body # "none"
      /\ first # Null => BodyChunk(first) /\ chunk[first].offset = 0
      /\ first = Null => body = "file" /\ (truncated \/ file_size % Word = 0)
  BY DEF PrependHead, WInv, BodyQueued, ResponseTypes
<1>2. (first = Null /\ last = Null) \/ (One /\ first \in Chunk)
  BY <1>1 DEF IInv, QueueShape, One, Held, ListTypes
<1>3. PICK u \in Unused :
        /\ idle' = u.rest /\ allocated' = u.taken
        /\ chunk' = [chunk EXCEPT ![u.c].kind = "mem", ![u.c].part = "head",
                                  ![u.c].length = HeadLen, ![u.c].next = first]
        /\ first' = u.c
        /\ last' = IF last = Null THEN u.c ELSE last
  BY DEF PrependHead
<1>4. /\ u.c \in Chunk /\ u.c \notin Held /\ Held' = Held \cup {u.c}
      /\ Len(idle') <= IdleMax /\ chunk[u.c].offset = 0
  BY <1>3, OneMoreHeld DEF WInv
<1>5. /\ chunk'[u.c].kind = "mem" /\ chunk'[u.c].part = "head"
      /\ chunk'[u.c].length = HeadLen /\ chunk'[u.c].offset = 0
      /\ \A x \in Chunk \ {u.c} : chunk'[x] = chunk[x]
  <2>1. /\ chunk'[u.c] = [chunk[u.c] EXCEPT !.kind = "mem", !.part = "head",
                                            !.length = HeadLen, !.next = first]
        /\ \A x \in Chunk \ {u.c} : chunk'[x] = chunk[x]
    BY <1>3, <1>4 DEF IInv, ChunkTypes, ChunkType
  <2>2. chunk[u.c] \in ChunkType
    BY <1>4 DEF IInv, ChunkTypes
  <2> QED BY <1>4, <2>1, <2>2 DEF ChunkType
<1>6. /\ first = Null => QueueLength = 0
      /\ One => QueueLength = chunk[first].length
      /\ QueueLength \in 0 .. Word - 1
  BY QueueLengthIs
<1>7. /\ content_length' = QueueLength /\ announced' = AsSigned(QueueLength)
      /\ pc' = "write" /\ UNCHANGED <<to_mark, body, fileVars, wire>>
  BY <1>6 DEF PrependHead, Announced, AsSigned
<1>8. HeadChunk(first)' /\ first' = u.c /\ u.c # Null /\ Base(first)' = 0
  BY <1>3, <1>4, <1>5 DEF HeadChunk, Base
<1>9. ResponseTypes'
  BY <1>1, <1>6, <1>7 DEF WInv, ResponseTypes, AsSigned, fileVars
<1>10. BodyQueued' /\ Finished'
  BY <1>7 DEF BodyQueued, Finished
<1>11. Accounted'
  BY <1>1, <1>5, <1>7, <1>8 DEF Accounted
<1>12. WireInOrder'
  BY <1>1, <1>6, <1>7 DEF WireInOrder
<1>13. CASE first = Null /\ last = Null
  <2>1. last' = u.c /\ Held = {}
    BY <1>3, <1>13 DEF WInv, NothingLeaks
  <2>2. NothingLeaks' /\ Unsent'
    BY <1>3, <1>4, <1>5, <2>1 DEF NothingLeaks, Unsent
  <2>3. Remains'
    BY <1>1, <1>6, <1>7, <1>8, <1>13, <2>1 DEF Remains, Two, fileVars
  <2> QED BY <1>9, <1>10, <1>11, <1>12, <2>2, <2>3 DEF WInv
<1>14. CASE One /\ first \in Chunk
  <2>1. last' = first /\ first # u.c /\ Held = {first} /\ first # Null
    BY <1>3, <1>4, <1>14 DEF WInv, NothingLeaks, One
  <2>2. chunk'[first] = chunk[first]
    BY <1>5, <1>14, <2>1
  <2>3. NothingLeaks'
    BY <1>3, <1>4, <2>1 DEF NothingLeaks
  <2>4. Unsent'
    BY <1>4, <1>5, <2>1, <2>2 DEF WInv, Unsent
  <2>5. BodyChunk(last)' /\ chunk'[last'].offset = 0 /\ chunk'[last'].length = content_length'
    BY <1>1, <1>6, <1>7, <1>14, <2>1, <2>2 DEF BodyChunk, fileVars
  <2>6. Remains'
    <3>1. ~One'
      BY <1>3, <2>1 DEF One
    <3>2. body = "body" => content_length' <= MaxBody
      BY <1>1, <1>6, <1>7, <1>14, <2>1 DEF BodyChunk
    <3>3. body = "file" /\ ~truncated => file_size % Word = content_length'
      BY <1>1, <1>6, <1>7, <1>14, <2>1 DEF BodyChunk
    <3> QED BY <1>1, <1>7, <1>8, <2>5, <3>1, <3>2, <3>3 DEF Remains, fileVars
  <2> QED BY <1>9, <1>10, <1>11, <1>12, <2>3, <2>4, <2>6 DEF WInv
<1> QED BY <1>2, <1>13, <1>14

Parts == {"head", "body", "file", "zero"}

(* The kernel takes some more of the response.                             *)
LEMMA WireExtends ==
    ASSUME ResponseTypes, WireInOrder, body # "none", NEW n \in Nat, NEW p,
           DOMAIN p = 1 .. n, p = [i \in 1 .. n |-> p[i]],
           wire' = wire \o p, UNCHANGED <<body, content_length, truncated>>,
           Len(wire) + n <= HeadLen + content_length,
           \A i \in 1 .. n : p[i] = Response(Len(wire) + i) \/ (truncated /\ p[i] = <<"zero", 0>>)
    PROVE  wire' \in Seq(Parts \X Nat) /\ Len(wire') = Len(wire) + n /\ WireInOrder'
<1> DEFINE T == Parts \X Nat
           m == Len(wire)
<1>1. wire \in Seq(T) /\ m \in Nat /\ HeadLen \in Nat
  BY WordAssumption DEF ResponseTypes, Parts
<1>2. ASSUME NEW i \in 1 .. n PROVE p[i] \in T
  <2>1. Response(m + i) \in T
    BY <1>1 DEF Response, Parts, ResponseTypes
  <2>2. <<"zero", 0>> \in T
    BY DEF Parts
  <2> QED BY <2>1, <2>2
<1> HIDE DEF T
<1>3. p \in Seq(T) /\ Len(p) = n
  <2>1. p \in [1 .. n -> T]
    BY <1>2
  <2> QED BY <2>1
<1>4. wire' \in Seq(T) /\ Len(wire') = m + n
  BY <1>1, <1>3
<1>5. ASSUME NEW i \in 1 .. m + n
      PROVE  wire'[i] = Response(i) \/ (truncated /\ wire'[i] = <<"zero", 0>>)
  <2>1. CASE i <= m
    <3>1. i \in DOMAIN wire /\ wire'[i] = wire[i]
      BY <1>1, <1>3, <2>1
    <3> QED BY <3>1 DEF WireInOrder
  <2>2. CASE i > m
    <3>1. i - m \in 1 .. n /\ m + (i - m) = i
      BY <1>1, <2>2
    <3>2. wire'[i] = p[i - m]
      BY <1>1, <1>3, <2>2
    <3> DEFINE k == i - m
    <3>3. k \in 1 .. n /\ m + k = i /\ wire'[i] = p[k]
      BY <3>1, <3>2
    <3> HIDE DEF k
    <3>4. p[k] = Response(m + k) \/ (truncated /\ p[k] = <<"zero", 0>>)
      BY <3>3
    <3>5. Response(m + k) = Response(i)
      BY <3>3, Zenon
    <3> QED BY <3>3, <3>4, <3>5, Zenon
  <2>3. i <= m \/ i > m
    BY <1>1
  <2> QED BY <2>1, <2>2, <2>3
<1>6. \A i \in DOMAIN wire' : wire'[i] = Response(i)' \/ (truncated' /\ wire'[i] = <<"zero", 0>>)
  <2>1. DOMAIN wire' = 1 .. m + n
    BY <1>4
  <2>2. \A i : Response(i)' = Response(i)
    BY DEF Response
  <2> QED BY <1>5, <2>1, <2>2
<1>7. WireInOrder'
  BY <1>4, <1>6 DEF WireInOrder
<1> QED BY <1>4, <1>7 DEF T

(* What a step of the response leaves of the chunks.                       *)
SameData ==
    /\ UNCHANGED <<first, last, idle, allocated>>
    /\ \A c \in Chunk :
        /\ chunk'[c].kind = chunk[c].kind /\ chunk'[c].part = chunk[c].part
        /\ chunk'[c].length = chunk[c].length /\ chunk'[c].offset = chunk[c].offset
        /\ chunk'[c].next = chunk[c].next

(* Writing moves offsets and marks only: links, kinds and the rest of the  *)
(* response behind the first chunk stay as they are.                       *)
LEMMA SameQueue ==
    ASSUME IInv, WInv, SameData, UNCHANGED <<content_length, body, fileVars>>,
           pc \in {"write", "marking", "finished"}
    PROVE  /\ NothingLeaks' /\ Unsent' /\ (One' <=> One) /\ (Two' <=> Two)
           /\ Remains'
           /\ first # Null => Base(first)' = Base(first)
           /\ first # Null => chunk'[first'].offset = chunk[first].offset
<1> USE ChunkAssumption
<1>1. Held' = Held /\ Held \subseteq Chunk
  BY DEF SameData, Held, Elements, IInv, ListTypes
<1>2. NothingLeaks' /\ Unsent'
  BY <1>1 DEF WInv, NothingLeaks, Unsent, SameData
<1>3. (One' <=> One) /\ (Two' <=> Two)
  BY <1>1 DEF One, Two, SameData
<1>4. /\ One => first \in Chunk /\ first' = first
      /\ Two => first \in Chunk /\ last \in Chunk /\ first' = first /\ last' = last
  BY <1>1 DEF One, Two, SameData
<1>5. ASSUME NEW c \in Chunk
      PROVE  /\ HeadChunk(c)' <=> HeadChunk(c)
             /\ BodyChunk(c)' <=> BodyChunk(c)
             /\ Base(c)' = Base(c)
  BY DEF HeadChunk, BodyChunk, Base, SameData, fileVars
<1>6. Remains'
  BY <1>3, <1>4, <1>5 DEF WInv, Remains, HeadChunk, BodyChunk, SameData, fileVars
<1>7. first # Null => first \in Chunk
  BY DEF IInv, ListTypes
<1> QED BY <1>2, <1>3, <1>5, <1>6, <1>7 DEF SameData, Base

(* All that writev() is given is the response from where the kernel is.    *)
LEMMA GivenInOrder ==
    ASSUME IInv, WInv, pc = "write", first # Null, chunk[first].kind = "mem"
    PROVE  /\ Len(Given) \in 0 .. Word - 1 /\ DOMAIN Given = 1 .. Len(Given)
           /\ Given = [i \in 1 .. Len(Given) |-> Given[i]]
           /\ Len(wire) + Len(Given) <= HeadLen + content_length
           /\ \A i \in 1 .. Len(Given) : Given[i] = Response(Len(wire) + i)
<1> USE ChunkAssumption, WordAssumption
<1> DEFINE n == chunk[first].length - chunk[first].offset
           m == Len(wire)
           T == {"none", "head", "body", "file"} \X Nat
<1>w. HeadLen \in Nat /\ MaxBody \in Nat /\ Word \in Nat /\ HeadLen + MaxBody < Word
  OBVIOUS
<1>1. (One \/ Two) /\ first \in Held /\ first \in Chunk
  BY DEF IInv, QueueShape, One, Two, Held, ListTypes
<1>2. /\ chunk[first].offset \in Nat /\ chunk[first].length \in 0 .. Word - 1
      /\ n \in 0 .. Word - 1 /\ content_length \in 0 .. Word - 1 /\ n = RemainingLen(first)
      /\ chunk[first].length = chunk[first].offset + n
  BY <1>1 DEF IInv, ChunkTypes, ChunkType, WInv, ResponseTypes, RemainingLen
<1>3. /\ Rest(first) \in Seq(T) /\ Len(Rest(first)) = n
      /\ \A i \in 1 .. n : Rest(first)[i] = <<chunk[first].part, chunk[first].offset + i>>
  <2>1. n \in Nat /\ Rest(first) = Piece(first, n)
    BY <1>2 DEF Rest
  <2> HIDE DEF n, T
  <2>2. /\ Piece(first, n) \in Seq(T) /\ Len(Piece(first, n)) = n
        /\ \A i \in 1 .. n : Piece(first, n)[i] = <<chunk[first].part, chunk[first].offset + i>>
    BY <1>1, <2>1, PieceIs DEF IInv, T
  <2> QED BY <2>1, <2>2
<1>4. m = Base(first) + chunk[first].offset /\ m \in Nat
  <2>1. to_mark = 0
    BY DEF WInv, ResponseTypes
  <2>2. m = Base(first) + chunk[first].offset + to_mark
    BY DEF WInv, Accounted
  <2>3. Base(first) \in Nat
    BY DEF Base
  <2> QED BY <1>2, <2>1, <2>2, <2>3
<1>5. \/ HeadChunk(first) /\ (One => content_length = 0)
      \/ One /\ BodyChunk(first) /\ chunk[first].length = content_length
  BY <1>1 DEF WInv, Remains
<1>6. body # "none" /\ body \in {"body", "file"} /\ (body = "body" => content_length <= MaxBody)
  BY DEF WInv, Remains, ResponseTypes
<1>7. m + n <= HeadLen + content_length
  <2>1. CASE HeadChunk(first)
    BY <1>2, <1>4, <2>1 DEF HeadChunk, Base
  <2>2. CASE BodyChunk(first) /\ chunk[first].length = content_length
    BY <1>2, <1>4, <1>6, <2>2 DEF BodyChunk, Base
  <2> QED BY <1>5, <2>1, <2>2
<1>8. ASSUME NEW i \in 1 .. n PROVE Rest(first)[i] = Response(m + i)
  <2>1. CASE HeadChunk(first)
    <3>1. m + i <= HeadLen /\ m = chunk[first].offset /\ chunk[first].part = "head"
      BY <1>2, <1>4, <2>1 DEF HeadChunk, Base
    <3> QED BY <1>3, <3>1 DEF Response
  <2>2. CASE BodyChunk(first) /\ chunk[first].length = content_length
    <3>1. m = HeadLen + chunk[first].offset /\ chunk[first].part = body
      BY <1>4, <1>6, <2>2 DEF BodyChunk, Base
    <3>2. ~(m + i <= HeadLen) /\ (m + i) - HeadLen = chunk[first].offset + i
      BY <1>2, <3>1
    <3> QED BY <1>3, <3>1, <3>2 DEF Response
  <2> QED BY <1>5, <2>1, <2>2
<1>9. CASE Given = Rest(first)
  <2>1. Given \in Seq(T) /\ Len(Given) = n
    BY <1>3, <1>9
  <2>2. DOMAIN Given = 1 .. Len(Given) /\ Given = [i \in 1 .. Len(Given) |-> Given[i]]
    <3> HIDE DEF T
    <3> QED BY <2>1
  <2> QED BY <1>2, <1>7, <1>8, <1>9, <2>1, <2>2
<1>10. CASE Two /\ chunk[last].kind = "mem" /\ Given = Rest(first) \o Rest(last)
  <2>1. /\ last \in Chunk /\ HeadChunk(first) /\ BodyChunk(last)
        /\ chunk[last].offset = 0 /\ chunk[last].length = content_length
    BY <1>10 DEF Two, Held, IInv, ListTypes, WInv, Remains
  <2>2. /\ Rest(last) \in Seq(T) /\ Len(Rest(last)) = content_length
        /\ \A i \in 1 .. content_length : Rest(last)[i] = <<body, i>>
    <3>1. content_length \in Nat /\ RemainingLen(last) = content_length
      BY <1>2, <2>1 DEF RemainingLen
    <3>2. /\ Rest(last) \in Seq(T) /\ Len(Rest(last)) = content_length
          /\ \A i \in 1 .. content_length :
                 Rest(last)[i] = <<chunk[last].part, chunk[last].offset + i>>
      BY <2>1, <3>1, PieceIs DEF IInv, Rest
    <3>3. chunk[last].part = body /\ \A i \in 1 .. content_length : 0 + i = i
      BY <2>1 DEF BodyChunk
    <3> QED BY <2>1, <3>2, <3>3
  <2>3. /\ m = chunk[first].offset /\ m + n = HeadLen
    BY <1>2, <1>4, <2>1 DEF HeadChunk, Base
  <2>4. body = "body" /\ content_length <= MaxBody
    BY <1>6, <1>10, <2>1 DEF BodyChunk
  <2>5. Given \in Seq(T) /\ Len(Given) = n + content_length
    <3> HIDE DEF T, n
    <3> QED BY <1>2, <1>3, <1>10, <2>2
  <2>c. n \in Nat /\ m \in Nat /\ content_length \in Nat /\ HeadLen \in Nat
    BY <1>2, <1>4, <1>w
  <2>d. Len(Given) = n + content_length
    BY <2>5
  <2>6. DOMAIN Given = 1 .. Len(Given) /\ Given = [i \in 1 .. Len(Given) |-> Given[i]]
    <3> HIDE DEF T
    <3> QED BY <2>5
  <2>7. ASSUME NEW i \in 1 .. Len(Given) PROVE Given[i] = Response(m + i)
    <3>1. CASE i <= n
      <4>1. Given[i] = Rest(first)[i] /\ i \in 1 .. n
        <5> HIDE DEF T, n
        <5> QED BY <1>2, <1>3, <1>10, <2>2, <2>5, <3>1
      <4> QED BY <1>8, <4>1
    <3>2. CASE i > n
      <4> DEFINE k == i - n
      <4>1. k \in 1 .. content_length
        <5> HIDE DEF n
        <5> QED BY ONLY <2>c, <2>d, <3>2, i \in 1 .. Len(Given) DEF k
      <4>a. Given[i] = Rest(last)[i - n]
        <5> HIDE DEF T, n
        <5> QED BY <1>2, <1>3, <1>10, <2>2, <2>5, <3>2
      <4>2. ~(m + i <= HeadLen) /\ (m + i) - HeadLen = k
        <5> HIDE DEF n, m
        <5> QED BY ONLY <2>c, <2>3, <2>d, <3>2, i \in 1 .. Len(Given) DEF k
      <4>3. Given[i] = Rest(last)[k]
        BY <4>a
      <4> HIDE DEF k
      <4> QED BY <2>2, <4>1, <4>2, <4>3 DEF Response
    <3> QED BY <1>2, <3>1, <3>2
  <2>8. Len(Given) \in 0 .. Word - 1
    <3> HIDE DEF n, m
    <3>2. n <= HeadLen
      BY ONLY <1>2, <1>4, <1>w, <2>3
    <3> QED BY ONLY <1>2, <1>w, <2>4, <2>5, <3>2
  <2>9. m + Len(Given) <= HeadLen + content_length
    <3> HIDE DEF n, m
    <3> QED BY ONLY <2>c, <2>3, <2>d
  <2> QED BY <2>6, <2>7, <2>8, <2>9
<1> QED BY <1>9, <1>10, GivenIs DEF WInv

(* What the kernel has taken, mark_written accounts for next.              *)
LEMMA WrittenHolds ==
    ASSUME IInv, WInv, pc = "write", first # Null, SameData, NEW n \in 0 .. Word - 1, NEW p,
           DOMAIN p = 1 .. n, p = [i \in 1 .. n |-> p[i]],
           wire' = wire \o p, to_mark' = n, pc' = "marking",
           UNCHANGED <<responseVars, fileVars>>,
           Len(wire) + n <= HeadLen + content_length,
           \A i \in 1 .. n : p[i] = Response(Len(wire) + i) \/ (truncated /\ p[i] = <<"zero", 0>>)
    PROVE  WInv'
<1>1. /\ ResponseTypes /\ WireInOrder /\ body # "none" /\ to_mark = 0 /\ n \in Nat
      /\ UNCHANGED <<content_length, announced, body, file_size, truncated, first>>
  BY WordAssumption DEF WInv, ResponseTypes, Remains, responseVars, fileVars, SameData
<1>2. wire' \in Seq(Parts \X Nat) /\ Len(wire') = Len(wire) + n /\ WireInOrder'
  BY <1>1, WireExtends
<1>3. /\ NothingLeaks' /\ Unsent' /\ Remains' /\ Base(first)' = Base(first)
      /\ chunk'[first'].offset = chunk[first].offset
  BY <1>1, SameQueue DEF fileVars
<1>4. ResponseTypes'
  BY <1>1, <1>2 DEF ResponseTypes, Parts, AsSigned
<1>5. Accounted'
  <2>1. Len(wire) = Base(first) + chunk[first].offset
    <3>1. first \in Chunk
      BY DEF IInv, ListTypes
    <3>2. Base(first) \in Nat /\ chunk[first].offset \in Nat
      BY <3>1, WordAssumption DEF Base, IInv, ChunkTypes, ChunkType
    <3> QED BY <1>1, <3>2 DEF WInv, Accounted
  <2> QED BY <1>1, <1>2, <1>3, <2>1 DEF Accounted
<1>6. BodyQueued' /\ Finished'
  BY DEF BodyQueued, Finished
<1> QED BY <1>2, <1>3, <1>4, <1>5, <1>6 DEF WInv

(* What is taken of a file is the body, or zeros where it was truncated.   *)
LEMMA FileInOrder ==
    ASSUME IInv, WInv, pc = "write", first # Null, chunk[first].kind = "file",
           NEW n \in 1 .. SendLen(first, Opened(first))
    PROVE  /\ n \in 1 .. Word - 1 /\ Len(wire) + n <= HeadLen + content_length
           /\ \A i \in 1 .. n : \/ FilePiece(first, n)[i] = Response(Len(wire) + i)
                                \/ truncated /\ FilePiece(first, n)[i] = <<"zero", 0>>
<1> DEFINE offset == chunk[first].offset
           m == Len(wire)
<1>0. HeadLen \in Nat /\ Word \in Nat \ {0} /\ content_length \in 0 .. Word - 1
  BY WordAssumption DEF WInv, ResponseTypes
<1>1. (One \/ Two) /\ first \in Chunk
  BY ChunkAssumption DEF IInv, QueueShape, One, Two, Held, ListTypes
<1>2. ~HeadChunk(first)
  BY DEF HeadChunk
<1>3. /\ BodyChunk(first) /\ chunk[first].length = content_length /\ body # "none"
      /\ body \in {"body", "file"} /\ body = "file" /\ chunk[first].part = body
      /\ ~truncated => file_size % Word = content_length
  BY <1>1, <1>2 DEF WInv, Remains, ResponseTypes, BodyChunk
<1>4. offset \in Nat /\ offset <= content_length /\ RemainingLen(first) = content_length - offset
  BY <1>1, <1>3 DEF IInv, ChunkTypes, ChunkType, RemainingLen
<1>5. m = HeadLen + offset
  <2>1. to_mark = 0 /\ Base(first) = HeadLen
    BY <1>3 DEF WInv, ResponseTypes, Base
  <2>2. m = Base(first) + offset + to_mark
    BY DEF WInv, Accounted
  <2> QED BY <1>0, <1>4, <2>1, <2>2
<1>6. SendLen(first, Opened(first)) \in Int /\ SendLen(first, Opened(first)) <= RemainingLen(first)
  <2>1. Opened(first) \in ChunkType
    BY <1>1, OpenedIsSound
  <2>2. /\ Opened(first).offset \in Nat /\ Opened(first).map_offset \in Nat
        /\ Opened(first).map_len \in Nat
    BY <2>1, WordAssumption DEF ChunkType
  <2> QED BY <1>0, <1>4, <2>2 DEF SendLen, Min2
<1>7. n \in Nat /\ offset + n <= content_length
  BY <1>0, <1>4, <1>6
<1>8. ~truncated => content_length <= file_size
  <2>1. file_size \in Nat
    BY DEF WInv, ResponseTypes
  <2> QED BY <1>0, <1>3, <2>1, Remainder
<1>9. ASSUME NEW i \in 1 .. n
      PROVE  \/ FilePiece(first, n)[i] = Response(m + i)
             \/ truncated /\ FilePiece(first, n)[i] = <<"zero", 0>>
  <2>1. CASE offset + i <= file_size
    <3>1. FilePiece(first, n)[i] = Piece(first, n)[i]
      BY <1>7, <2>1 DEF FilePiece
    <3>2. Piece(first, n)[i] = <<body, offset + i>>
      BY <1>3, <1>7 DEF Piece
    <3>3. ~(m + i <= HeadLen) /\ (m + i) - HeadLen = offset + i
      <4> HIDE DEF m, offset
      <4> QED BY ONLY <1>0, <1>4, <1>5, <1>7
    <3> QED BY <3>1, <3>2, <3>3 DEF Response
  <2>2. CASE ~(offset + i <= file_size)
    <3>1. FilePiece(first, n)[i] = <<"zero", 0>>
      BY <1>7, <2>2 DEF FilePiece
    <3>2. file_size \in Nat
      BY DEF WInv, ResponseTypes
    <3>3. truncated
      BY <1>0, <1>4, <1>7, <1>8, <2>2, <3>2
    <3> QED BY <3>1, <3>3
  <2> QED BY <2>1, <2>2
<1>10. n \in 1 .. Word - 1 /\ m + n <= HeadLen + content_length
  BY <1>0, <1>4, <1>5, <1>7
<1> QED BY <1>9, <1>10

(* Opening a file changes nothing of what the chunk has to send.           *)
LEMMA OpeningKeeps ==
    ASSUME IInv, first # Null, UNCHANGED <<first, last, idle, allocated>>,
           \/ chunk' = [chunk EXCEPT ![first] = Opened(first)]
           \/ chunk' = [chunk EXCEPT ![first] = [Opened(first) EXCEPT !.mapped = FALSE]]
    PROVE  SameData
<1>1. first \in Chunk /\ chunk[first] \in ChunkType
  BY DEF IInv, ListTypes, ChunkTypes
<1>2. /\ Opened(first) \in ChunkType
      /\ Opened(first).kind = chunk[first].kind /\ Opened(first).part = chunk[first].part
      /\ Opened(first).length = chunk[first].length
      /\ Opened(first).offset = chunk[first].offset /\ Opened(first).next = chunk[first].next
  <2>1. Opened(first) \in ChunkType
    BY <1>1, OpenedIsSound
  <2>2. CASE InWindow(first)
    BY <2>1, <2>2 DEF Opened
  <2>3. CASE ~InWindow(first)
    BY <1>1, <2>1, <2>3 DEF Opened, ChunkType
  <2> QED BY <2>2, <2>3
<1>3. \A c \in Chunk \ {first} : chunk'[c] = chunk[c]
  BY DEF IInv, ChunkTypes
<1>4. /\ chunk'[first].kind = chunk[first].kind /\ chunk'[first].part = chunk[first].part
      /\ chunk'[first].length = chunk[first].length
      /\ chunk'[first].offset = chunk[first].offset /\ chunk'[first].next = chunk[first].next
  <2>1. chunk'[first] = Opened(first) \/ chunk'[first] = [Opened(first) EXCEPT !.mapped = FALSE]
    BY <1>1 DEF IInv, ChunkTypes
  <2> QED BY <1>2, <2>1 DEF ChunkType
<1> QED BY <1>3, <1>4 DEF SameData

(* A chunk that has been written in full leaves the queue, and what was    *)
(* written behind it is of the next one.                                   *)
LEMMA PoppingHolds ==
    ASSUME IInv, WInv, first # Null, Pop, WrittenInFull(first), pc = "marking", pc' = "marking",
           to_mark' = to_mark - RemainingLen(first), UNCHANGED <<responseVars, fileVars, wire>>
    PROVE  WInv'
<1> USE ChunkAssumption
<1>0. /\ HeadLen \in Nat /\ content_length \in Nat /\ to_mark \in Nat /\ Len(wire) \in Nat
      /\ to_mark < Word /\ Word \in Nat
      /\ UNCHANGED <<content_length, announced, body, file_size, truncated, wire>>
  BY WordAssumption DEF WInv, ResponseTypes, IInv, ListTypes, responseVars, fileVars
<1>1. /\ first \in Held /\ first \in Chunk /\ Held' = Held \ {first} /\ Len(idle') <= IdleMax
      /\ \A c \in Chunk \ {first} : chunk'[c] = chunk[c]
  BY PopFrees DEF WInv, NothingLeaks
<1>2. /\ chunk[first].offset \in Nat /\ chunk[first].length \in Nat
      /\ RemainingLen(first) = chunk[first].length - chunk[first].offset
      /\ to_mark >= RemainingLen(first) /\ to_mark' \in 0 .. Word - 1
  BY <1>0, <1>1 DEF IInv, ChunkTypes, ChunkType, RemainingLen, WrittenInFull
<1>3. first' = chunk[first].next /\ last' = IF last = first THEN Null ELSE last
  BY DEF Pop, LastAfterPop
<1>4. Len(wire) = Base(first) + chunk[first].offset + to_mark /\ Base(first) \in Nat
  BY <1>0 DEF WInv, Accounted, Base
<1>5. Len(wire) <= HeadLen + content_length
  BY DEF WInv, WireInOrder
<1>6. ResponseTypes' /\ WireInOrder' /\ BodyQueued' /\ Finished'
  BY <1>0, <1>2 DEF WInv, ResponseTypes, WireInOrder, BodyQueued, Finished, Response, AsSigned
<1>7. Unsent'
  <2>1. Held \subseteq Chunk
    BY DEF Held, IInv, ListTypes
  <2> QED BY <1>1, <2>1 DEF WInv, Unsent
<1>8. CASE One
  <2>1. first' = Null /\ last' = Null /\ Held = {first}
    BY <1>3, <1>8 DEF One, WInv, NothingLeaks
  <2>2. NothingLeaks'
    BY <1>1, <2>1 DEF NothingLeaks
  <2>3. Base(first) + chunk[first].length = HeadLen + content_length
    <3>1. \/ HeadChunk(first) /\ content_length = 0
          \/ BodyChunk(first) /\ chunk[first].length = content_length
      BY <1>8 DEF WInv, Remains
    <3>2. body # "head"
      BY DEF WInv, ResponseTypes
    <3>3. CASE HeadChunk(first) /\ content_length = 0
      BY <1>0, <3>3 DEF HeadChunk, Base
    <3>4. CASE BodyChunk(first) /\ chunk[first].length = content_length
      BY <1>0, <3>2, <3>4 DEF BodyChunk, Base
    <3> QED BY <3>1, <3>3, <3>4
  <2>4. Len(wire') = HeadLen + content_length /\ to_mark' = 0
    <3>1. to_mark' = to_mark - RemainingLen(first)
      OBVIOUS
    <3>2. to_mark <= chunk[first].length - chunk[first].offset
      BY ONLY <1>0, <1>2, <1>4, <1>5, <2>3
    <3>3. to_mark = chunk[first].length - chunk[first].offset
      BY ONLY <1>0, <1>2, <3>2
    <3>4. Len(wire) = HeadLen + content_length
      BY ONLY <1>0, <1>2, <1>4, <2>3, <3>3
    <3> QED BY ONLY <1>0, <1>2, <3>1, <3>3, <3>4
  <2>a. Accounted'
    BY <1>0, <2>1, <2>4 DEF Accounted
  <2>5. Remains'
    BY <1>0, <1>1, <2>1 DEF WInv, Remains, One, Two
  <2> QED BY <1>6, <1>7, <2>2, <2>5, <2>a DEF WInv
<1>9. CASE Two
  <2>1. /\ first' = last /\ last' = last /\ last \in Held /\ last # first /\ last \in Chunk
        /\ Held = {first, last}
    BY <1>3, <1>9 DEF Two, WInv, NothingLeaks, IInv, ListTypes, Held
  <2>2. NothingLeaks'
    BY <1>1, <2>1 DEF NothingLeaks
  <2>3. /\ HeadChunk(first) /\ BodyChunk(last) /\ chunk[last].offset = 0
        /\ chunk[last].length = content_length /\ body # "none"
    BY <1>9 DEF WInv, Remains
  <2>4. chunk'[last] = chunk[last]
    BY <1>1, <2>1
  <2>5. BodyChunk(first)' /\ chunk'[first'].length = content_length'
    BY <1>0, <2>1, <2>3, <2>4 DEF BodyChunk
  <2>6. Remains'
    BY <1>0, <2>1, <2>5 DEF WInv, Remains, Two
  <2>7. Base(first) = 0 /\ Base(first)' = HeadLen /\ chunk[first].length = HeadLen
    <3>1. body # "head"
      BY DEF WInv, ResponseTypes
    <3> QED BY <2>1, <2>3, <2>4, <3>1 DEF HeadChunk, BodyChunk, Base
  <2>8. Accounted'
    <3>1. chunk'[first'].offset = 0
      BY <2>1, <2>3, <2>4
    <3>a. HeadLen \in Nat /\ to_mark' = to_mark - RemainingLen(first)
      BY WordAssumption
    <3>2. Len(wire) = HeadLen + 0 + to_mark'
      BY ONLY <1>0, <1>2, <1>4, <2>7, <3>a
    <3> QED BY <1>0, <2>1, <2>7, <3>1, <3>2 DEF Accounted
  <2> QED BY <1>6, <1>7, <2>2, <2>6, <2>8 DEF WInv
<1> QED BY <1>8, <1>9 DEF IInv, QueueShape

(* The last of what was written is accounted for in the chunk it ends in.  *)
LEMMA AdvancingHolds ==
    ASSUME IInv, WInv, MarkChunk, first # Null, ~WrittenInFull(first)
    PROVE  WInv'
<1> USE ChunkAssumption
<1>0. /\ HeadLen \in Nat /\ content_length \in Nat /\ to_mark \in Nat /\ Len(wire) \in Nat
      /\ UNCHANGED <<content_length, announced, body, file_size, truncated, wire>>
      /\ UNCHANGED <<first, last, idle, allocated>>
      /\ pc = "marking" /\ pc' = "marking" /\ to_mark' = 0
      /\ chunk' = [chunk EXCEPT ![first].offset = Advance]
  BY WordAssumption DEF WInv, ResponseTypes, IInv, ListTypes, MarkChunk, responseVars, fileVars
<1>1. (One \/ Two) /\ first \in Held /\ first \in Chunk /\ chunk[first] \in ChunkType
  BY DEF IInv, QueueShape, One, Two, Held, ListTypes, ChunkTypes
<1>2. /\ chunk[first].offset \in Nat /\ chunk[first].length \in Nat
      /\ Advance = chunk[first].offset + to_mark /\ Advance \in Nat
      /\ Advance < chunk[first].length
  BY <1>0, <1>1 DEF ChunkType, Advance, WrittenInFull, RemainingLen
<1>3. /\ chunk'[first].kind = chunk[first].kind /\ chunk'[first].part = chunk[first].part
      /\ chunk'[first].length = chunk[first].length /\ chunk'[first].next = chunk[first].next
      /\ chunk'[first].offset = Advance
      /\ \A c \in Chunk \ {first} : chunk'[c] = chunk[c]
  BY <1>0, <1>1 DEF ChunkType, IInv, ChunkTypes
<1>4. Held' = Held /\ Held \subseteq Chunk
  BY <1>0 DEF Held, Elements, IInv, ListTypes
<1>5. NothingLeaks' /\ Unsent'
  BY <1>0, <1>2, <1>3, <1>4 DEF WInv, NothingLeaks, Unsent
<1>6. ResponseTypes' /\ WireInOrder' /\ BodyQueued' /\ Finished'
  BY <1>0, WordAssumption
  DEF WInv, ResponseTypes, WireInOrder, BodyQueued, Finished, Response, AsSigned
<1>7. Accounted'
  <2>1. Base(first)' = Base(first) /\ Base(first) \in Nat
    BY <1>0, <1>3 DEF Base
  <2>2. Len(wire) = Base(first) + chunk[first].offset + to_mark
    BY <1>0 DEF WInv, Accounted
  <2> QED BY <1>0, <1>2, <1>3, <2>1, <2>2 DEF Accounted
<1>8. Remains'
  <2>1. HeadChunk(first)' <=> HeadChunk(first)
    BY <1>0, <1>3 DEF HeadChunk
  <2>2. BodyChunk(first)' <=> BodyChunk(first)
    BY <1>0, <1>3 DEF BodyChunk
  <2>3. (One' <=> One) /\ (Two' <=> Two)
    BY <1>0, <1>3, <1>4 DEF One, Two
  <2>4. Two => chunk'[last] = chunk[last] /\ (BodyChunk(last)' <=> BodyChunk(last))
    BY <1>0, <1>3, <1>4 DEF Two, BodyChunk
  <2> QED BY <1>0, <1>3, <2>1, <2>2, <2>3, <2>4 DEF WInv, Remains
<1> QED BY <1>5, <1>6, <1>7, <1>8 DEF WInv

(* A step that leaves the queue, and what it sends, as they are.           *)
LEMMA StandingHolds ==
    ASSUME IInv, WInv, SameData, UNCHANGED <<to_mark, responseVars, wire>>,
           \/ UNCHANGED <<pc, fileVars>>
           \/ pc = "marking" /\ pc' = "write" /\ to_mark = 0 /\ UNCHANGED fileVars
    PROVE  WInv'
<1>0. /\ UNCHANGED <<to_mark, content_length, announced, body, file_size, truncated, wire>>
      /\ UNCHANGED <<first, last, idle, allocated>>
      /\ pc' = pc \/ (pc = "marking" /\ pc' = "write" /\ to_mark = 0)
  BY DEF responseVars, fileVars, SameData
<1>1. Held' = Held /\ Held \subseteq Chunk /\ (first # Null => first \in Chunk)
      /\ (last # Null => last \in Chunk)
  BY <1>0 DEF Held, Elements, IInv, ListTypes
<1>2. NothingLeaks' /\ Unsent' /\ WireInOrder' /\ Finished'
  BY <1>0, <1>1 DEF WInv, NothingLeaks, Unsent, WireInOrder, Response, Finished, SameData
<1>3. ResponseTypes'
  BY <1>0 DEF WInv, ResponseTypes, AsSigned
<1>4. /\ first # Null => /\ chunk'[first].offset = chunk[first].offset
                         /\ chunk'[first].length = chunk[first].length
                         /\ BodyChunk(first)' <=> BodyChunk(first)
                         /\ HeadChunk(first)' <=> HeadChunk(first)
                         /\ Base(first)' = Base(first)
      /\ last # Null => /\ chunk'[last].offset = chunk[last].offset
                        /\ chunk'[last].length = chunk[last].length
                        /\ BodyChunk(last)' <=> BodyChunk(last)
  BY <1>0, <1>1 DEF SameData, BodyChunk, HeadChunk, Base
<1>5. (One' <=> One) /\ (Two' <=> Two) /\ (One \/ Two => first # Null) /\ (Two => last # Null)
  BY <1>0, <1>1, ChunkAssumption DEF SameData, One, Two
<1>6. BodyQueued'
  BY <1>0, <1>4 DEF WInv, BodyQueued
<1>7. Remains'
  BY <1>0, <1>4, <1>5 DEF WInv, Remains
<1>8. Accounted'
  BY <1>0, <1>4 DEF WInv, Accounted
<1> QED BY <1>2, <1>3, <1>6, <1>7, <1>8 DEF WInv

(* Every step keeps the wire in order.                                     *)
LEMMA WInductive == IInv /\ WInv /\ [Next]_vars => WInv'
<1> SUFFICES ASSUME IInv, WInv, [Next]_vars PROVE WInv'
  OBVIOUS
<1> USE WordAssumption, ChunkAssumption
<1>1. CASE QueueBuffer
  <2>1. PICK n \in 1 .. MaxBody : AppendChunk("mem", "body", n)
    BY <1>1 DEF QueueBuffer
  <2>2. n \in 1 .. Word - 1 /\ n <= MaxBody
    OBVIOUS
  <2>3. file_size' \in Nat /\ truncated' \in BOOLEAN
    BY <1>1 DEF QueueBuffer, WInv, ResponseTypes, fileVars
  <2> QED BY <1>1, <2>1, <2>2, <2>3, AppendingHolds DEF QueueBuffer
<1>2. CASE QueueFile
  <2>1. PICK size \in FileSizes :
            /\ file_size' = size
            /\ IF size % Word = 0 THEN UNCHANGED listVars
                                  ELSE AppendChunk("file", "file", size % Word)
    BY <1>2 DEF QueueFile
  <2>2. size \in Nat /\ size % Word \in 0 .. Word - 1
    BY Remainder
  <2>3. CASE size % Word # 0
    <3>1. size % Word \in 1 .. Word - 1
      BY <2>2, <2>3
    <3> QED BY <1>2, <2>1, <2>2, <2>3, <3>1, AppendingHolds DEF QueueFile
  <2>4. CASE size % Word = 0
    <3>1. /\ UNCHANGED <<first, last, idle, allocated, chunk, to_mark, content_length, announced,
                         wire>>
          /\ pc = "handle" /\ pc' = "head" /\ body' = "file" /\ file_size' = size
          /\ truncated' = FALSE
      BY <1>2, <2>1, <2>4 DEF QueueFile, listVars
    <3>2. first = Null
      BY <3>1 DEF IInv, QueueShape, One, Two
    <3>3. Held' = Held
      BY <3>1 DEF Held, Elements
    <3>4. NothingLeaks' /\ Unsent'
      BY <3>1, <3>3 DEF WInv, NothingLeaks, Unsent
    <3>5. ResponseTypes'
      BY <2>2, <3>1 DEF WInv, ResponseTypes, AsSigned
    <3>6. wire = <<>> /\ content_length = 0
      BY <3>1 DEF WInv, BodyQueued
    <3>7. BodyQueued' /\ WireInOrder'
      BY <2>4, <3>1, <3>2, <3>6 DEF BodyQueued, WireInOrder
    <3>8. Remains' /\ Accounted' /\ Finished'
      BY <3>1 DEF Remains, Accounted, Finished
    <3> QED BY <3>4, <3>5, <3>7, <3>8 DEF WInv
  <2> QED BY <2>3, <2>4
<1>3. CASE PrependHead
  BY <1>3, PrependingHolds
<1>4. CASE WriteMem
  <2>1. /\ pc = "write" /\ first # Null /\ chunk[first].kind = "mem" /\ pc' = "marking"
        /\ UNCHANGED <<listVars, responseVars, fileVars>>
    BY <1>4 DEF WriteMem, Writing
  <2>2. PICK n \in 1 .. Len(Given) : wire' = wire \o SubSeq(Given, 1, n) /\ to_mark' = n
    BY <1>4 DEF WriteMem
  <2>3. /\ Len(Given) \in 0 .. Word - 1 /\ DOMAIN Given = 1 .. Len(Given)
        /\ Given = [i \in 1 .. Len(Given) |-> Given[i]]
        /\ Len(wire) + Len(Given) <= HeadLen + content_length
        /\ \A i \in 1 .. Len(Given) : Given[i] = Response(Len(wire) + i)
    BY <2>1, GivenInOrder
  <2>4. SameData
    BY <2>1 DEF SameData, listVars
  <2> DEFINE p == SubSeq(Given, 1, n)
             G == Given
  <2>5. p = [i \in 1 .. n |-> Given[i]]
    <3> HIDE DEF G
    <3>1. SubSeq(G, 1, n) = [i \in 1 .. (1 + n - 1) |-> G[1 + i - 1]]
      BY <2>3
    <3> QED BY <2>3, <3>1 DEF G
  <2> HIDE DEF p
  <2>6. /\ DOMAIN p = 1 .. n /\ p = [i \in 1 .. n |-> p[i]]
        /\ \A i \in 1 .. n : p[i] = Response(Len(wire) + i)
    <3>1. 1 .. n \subseteq 1 .. Len(Given)
      BY ONLY <2>3
    <3> QED BY ONLY <2>3, <2>5, <3>1
  <2>7. n \in 0 .. Word - 1 /\ Len(wire) + n <= HeadLen + content_length
    <3>1. Len(wire) \in Nat /\ content_length \in Nat /\ HeadLen \in Nat /\ Word \in Nat
      BY WordAssumption DEF WInv, ResponseTypes
    <3> QED BY ONLY <2>3, <3>1
  <2>8. wire' = wire \o p
    BY <2>2 DEF p
  <2> QED BY <2>1, <2>2, <2>4, <2>6, <2>7, <2>8, WrittenHolds
<1>5. CASE SendFile
  <2>1. /\ pc = "write" /\ first # Null /\ chunk[first].kind = "file" /\ pc' = "marking"
        /\ chunk' = [chunk EXCEPT ![first] = Opened(first)]
        /\ UNCHANGED <<first, last, idle, allocated, responseVars, fileVars>>
    BY <1>5 DEF SendFile, Writing
  <2>2. PICK n \in 1 .. SendLen(first, Opened(first)) :
            wire' = wire \o FilePiece(first, n) /\ to_mark' = n
    BY <1>5 DEF SendFile
  <2>3. /\ n \in 1 .. Word - 1 /\ Len(wire) + n <= HeadLen + content_length
        /\ \A i \in 1 .. n : \/ FilePiece(first, n)[i] = Response(Len(wire) + i)
                             \/ truncated /\ FilePiece(first, n)[i] = <<"zero", 0>>
    BY <2>1, FileInOrder
  <2>4. SameData
    BY <2>1, OpeningKeeps
  <2> DEFINE p == FilePiece(first, n)
  <2>5. DOMAIN p = 1 .. n /\ p = [i \in 1 .. n |-> p[i]]
    BY DEF FilePiece
  <2> HIDE DEF p
  <2>6. /\ wire' = wire \o p
        /\ \A i \in 1 .. n : p[i] = Response(Len(wire) + i) \/ (truncated /\ p[i] = <<"zero", 0>>)
    BY <2>2, <2>3 DEF p
  <2>7. n \in 0 .. Word - 1
    BY <2>3
  <2> QED BY <2>1, <2>2, <2>3, <2>4, <2>5, <2>6, <2>7, WrittenHolds
<1>6. CASE FileNotSent
  <2>1. /\ first # Null
        /\ UNCHANGED <<first, last, idle, allocated, pc, to_mark, responseVars, fileVars, wire>>
        /\ \/ chunk' = [chunk EXCEPT ![first] = Opened(first)]
           \/ chunk' = [chunk EXCEPT ![first] = [Opened(first) EXCEPT !.mapped = FALSE]]
    BY <1>6 DEF FileNotSent, Writing
  <2>2. SameData
    BY <2>1, OpeningKeeps
  <2> QED BY <2>1, <2>2, StandingHolds
<1>7. CASE MarkChunk
  <2>1. CASE WrittenInFull(first)
    BY <1>7, <2>1, PoppingHolds DEF MarkChunk
  <2>2. CASE ~WrittenInFull(first)
    BY <1>7, <2>2, AdvancingHolds DEF MarkChunk
  <2> QED BY <2>1, <2>2
<1>8. CASE Marked
  <2>1. /\ UNCHANGED <<first, last, idle, allocated, chunk, to_mark, responseVars, fileVars, wire>>
        /\ pc = "marking" /\ pc' = "write"
    BY <1>8 DEF Marked, listVars
  <2>2. to_mark = 0
    BY <1>8 DEF Marked, WInv, Accounted
  <2>3. SameData
    BY <2>1 DEF SameData
  <2> QED BY <2>1, <2>2, <2>3, StandingHolds
<1>9. CASE Finish
  <2>1. /\ UNCHANGED <<first, last, idle, allocated, chunk, to_mark, content_length, announced,
                       body, file_size, truncated, wire>>
        /\ pc = "write" /\ pc' = "finished" /\ QueueLength = 0
    BY <1>9 DEF Finish, listVars, responseVars, fileVars
  <2>2. first = Null \/ HeadLen + content_length = Word
    <3> SUFFICES ASSUME first # Null PROVE HeadLen + content_length = Word
      OBVIOUS
    <3>1. One \/ Two
      BY DEF IInv, QueueShape
    <3>2. \A c \in {first, last} : chunk[c].length \in 1 .. Word - 1
      <4>1. first \in Held /\ last \in Held /\ Held \subseteq Chunk
        BY <3>1 DEF One, Two, Held, IInv, ListTypes
      <4> QED BY <4>1 DEF WInv, Unsent, IInv, ChunkTypes, ChunkType
    <3>3. Two /\ Add(chunk[first].length, chunk[last].length) = 0
      BY <2>1, <3>1, <3>2, QueueLengthIs
    <3>4. chunk[first].length = HeadLen /\ chunk[last].length = content_length
      BY <2>1, <3>3 DEF WInv, Remains, HeadChunk
    <3>5. (HeadLen + content_length) % Word = 0 /\ content_length \in 1 .. Word - 1
      BY <3>2, <3>3, <3>4 DEF Add
    <3>6. HeadLen + content_length < 2 * Word /\ HeadLen + content_length > 0
      BY <3>5
    <3>7. ASSUME HeadLen + content_length < Word PROVE FALSE
      BY <3>5, <3>6, <3>7
    <3>8. ASSUME HeadLen + content_length > Word PROVE FALSE
      <4>1. (HeadLen + content_length) % Word = HeadLen + content_length - Word
        BY <3>5, <3>6, <3>8
      <4> QED BY <3>5, <3>8, <4>1
    <3> QED BY <3>5, <3>7, <3>8
  <2>3. Held' = Held
    BY <2>1 DEF Held, Elements
  <2>4. NothingLeaks' /\ Unsent' /\ BodyQueued' /\ WireInOrder' /\ Finished'
    BY <2>1, <2>2, <2>3 DEF WInv, NothingLeaks, Unsent, BodyQueued, WireInOrder, Response, Finished
  <2>5. ResponseTypes'
    BY <2>1 DEF WInv, ResponseTypes, AsSigned
  <2>6. (One' <=> One) /\ (Two' <=> Two)
    BY <2>1, <2>3 DEF One, Two
  <2>7. Remains' /\ Accounted'
    BY <2>1, <2>6 DEF WInv, Remains, Accounted, HeadChunk, BodyChunk, Base
  <2> QED BY <2>4, <2>5, <2>7 DEF WInv
<1>10. CASE Reset
  <2>1. /\ UNCHANGED <<first, last, idle, allocated, chunk, to_mark, content_length, announced,
                       body, file_size, truncated, wire>>
        /\ pc \in {"finished", "handle", "write"} /\ pc' \in {"reset", "closing"}
    BY <1>10 DEF Reset, listVars, responseVars, fileVars
  <2>2. Held' = Held
    BY <2>1 DEF Held, Elements
  <2>3. NothingLeaks' /\ Unsent' /\ WireInOrder' /\ BodyQueued'
    BY <2>1, <2>2 DEF WInv, NothingLeaks, Unsent, WireInOrder, Response, BodyQueued
  <2>4. ResponseTypes'
    BY <2>1 DEF WInv, ResponseTypes, AsSigned
  <2>5. Remains' /\ Accounted' /\ Finished'
    BY <2>1 DEF Remains, Accounted, Finished
  <2> QED BY <2>3, <2>4, <2>5 DEF WInv
<1>11. CASE ResetChunk
  <2>1. /\ pc \in {"reset", "closing"} /\ first # Null /\ Pop
        /\ UNCHANGED <<pc, to_mark, content_length, announced, body, file_size, truncated, wire>>
    BY <1>11 DEF ResetChunk, responseVars, fileVars
  <2>2. /\ first \in Held /\ Held' = Held \ {first} /\ Len(idle') <= IdleMax
        /\ \A c \in Chunk \ {first} : chunk'[c] = chunk[c]
    BY <2>1, PopFrees DEF WInv, NothingLeaks
  <2>3. first' = chunk[first].next /\ last' = IF last = first THEN Null ELSE last
    BY <2>1 DEF Pop, LastAfterPop
  <2>4. One \/ Two
    BY <2>1 DEF IInv, QueueShape
  <2>5. Held' = {first', last'} \ {Null}
    <3>1. CASE One
      BY <2>2, <2>3, <3>1 DEF One, WInv, NothingLeaks
    <3>2. CASE Two
      <4>1. last \in Chunk /\ first \in Chunk
        BY <3>2 DEF Two, Held, IInv, ListTypes
      <4> QED BY <2>2, <2>3, <3>2, <4>1 DEF Two, WInv, NothingLeaks
    <3> QED BY <2>4, <3>1, <3>2
  <2>6. Unsent'
    <3>1. Held \subseteq Chunk
      BY DEF Held, IInv, ListTypes
    <3> QED BY <2>2, <3>1 DEF WInv, Unsent
  <2>7. ResponseTypes' /\ WireInOrder'
    BY <2>1 DEF WInv, ResponseTypes, AsSigned, WireInOrder, Response
  <2>8. BodyQueued' /\ Remains' /\ Accounted' /\ Finished'
    BY <2>1 DEF BodyQueued, Remains, Accounted, Finished
  <2> QED BY <2>2, <2>5, <2>6, <2>7, <2>8 DEF WInv, NothingLeaks
<1>12. CASE WasReset
  <2>1. /\ UNCHANGED <<first, last, idle, allocated, chunk, to_mark>>
        /\ pc = "reset" /\ first = Null /\ pc' = "handle"
        /\ content_length' = 0 /\ announced' = 0 /\ body' = "none"
        /\ file_size' = 0 /\ truncated' = FALSE /\ wire' = <<>>
    BY <1>12 DEF WasReset, listVars
  <2>2. Held' = Held
    BY <2>1 DEF Held, Elements
  <2>3. NothingLeaks' /\ Unsent'
    BY <2>1, <2>2 DEF WInv, NothingLeaks, Unsent
  <2>4. ResponseTypes'
    <3>1. AsSigned(0) = 0 /\ 0 \in 0 .. Word - 1
      BY DEF AsSigned
    <3>2. AsSigned(content_length)' = AsSigned(0)
      BY <2>1 DEF AsSigned
    <3>3. wire' \in Seq({"head", "body", "file", "zero"} \X Nat)
      BY <2>1
    <3>4. to_mark = 0
      BY <2>1 DEF WInv, ResponseTypes
    <3> QED BY <2>1, <3>1, <3>2, <3>3, <3>4 DEF ResponseTypes
  <2>6. WireInOrder' /\ BodyQueued'
    BY <2>1 DEF WireInOrder, BodyQueued
  <2>5. Remains' /\ Accounted' /\ Finished'
    BY <2>1 DEF Remains, Accounted, Finished
  <2> QED BY <2>3, <2>4, <2>5, <2>6 DEF WInv
<1>13. CASE Free
  <2>1. /\ UNCHANGED <<first, last, chunk, to_mark, content_length, announced, body, file_size,
                       truncated, wire>>
        /\ pc = "closing" /\ pc' = "freed"
        /\ allocated' = allocated \ Elements(idle) /\ idle' = <<>>
    BY <1>13 DEF Free, responseVars, fileVars
  <2>2. Elements(<<>>) = {}
    BY DEF Elements
  <2>3. Held' = Held
    BY <2>1, <2>2 DEF Held
  <2>4. NothingLeaks' /\ Unsent'
    BY <2>1, <2>3 DEF WInv, NothingLeaks, Unsent
  <2>5. ResponseTypes' /\ WireInOrder' /\ BodyQueued'
    BY <2>1 DEF WInv, ResponseTypes, AsSigned, WireInOrder, Response, BodyQueued
  <2>6. Remains' /\ Accounted' /\ Finished'
    BY <2>1 DEF Remains, Accounted, Finished
  <2> QED BY <2>4, <2>5, <2>6 DEF WInv
<1>14. CASE TruncateFile
  <2>1. /\ UNCHANGED <<first, last, idle, allocated, chunk, pc, to_mark, content_length, announced,
                       body, wire>>
        /\ body = "file" /\ file_size' \in 0 .. file_size - 1 /\ truncated' = TRUE
    BY <1>14 DEF TruncateFile, listVars, responseVars
  <2>2. Held' = Held
    BY <2>1 DEF Held, Elements
  <2>3. NothingLeaks' /\ Unsent' /\ Finished'
    BY <2>1, <2>2 DEF WInv, NothingLeaks, Unsent, Finished
  <2>4. ResponseTypes'
    BY <2>1 DEF WInv, ResponseTypes, AsSigned
  <2>5. WireInOrder'
    BY <2>1 DEF WInv, WireInOrder, Response
  <2>6. BodyQueued'
    BY <2>1 DEF WInv, BodyQueued, BodyChunk
  <2>7. (One' <=> One) /\ (Two' <=> Two)
    BY <2>1, <2>2 DEF One, Two
  <2>8. Remains' /\ Accounted'
    BY <2>1, <2>7 DEF WInv, Remains, Accounted, HeadChunk, BodyChunk, Base
  <2> QED BY <2>3, <2>4, <2>5, <2>6, <2>8 DEF WInv
<1>15. CASE UNCHANGED vars
  <2>1. /\ UNCHANGED <<to_mark, responseVars, wire, pc, fileVars>>
        /\ SameData
    BY <1>15 DEF vars, listVars, SameData
  <2> QED BY <2>1, StandingHolds
<1> QED BY <1>1, <1>2, <1>3, <1>4, <1>5, <1>6, <1>7, <1>8, <1>9, <1>10, <1>11, <1>12, <1>13,
           <1>14, <1>15 DEF Next

-----------------------------------------------------------------------------
(* The properties of the runs                                              *)

(* Every word stays a word, and no offset ever passes the length of its    *)
(* chunk, where the code's unsigned difference would be huge.              *)
THEOREM WordsStayWords == Spec => []TypeOK
<1>1. IInv /\ WInv => TypeOK
  <2> SUFFICES ASSUME IInv, WInv PROVE TypeOK
    OBVIOUS
  <2>1. announced \in Int
    BY WordAssumption DEF WInv, ResponseTypes, AsSigned
  <2> QED BY <2>1 DEF IInv, ListTypes, ChunkTypes, Phases, WInv, ResponseTypes, TypeOK
<1> QED BY Initially, Inductive, ResponseInitially, WInductive, <1>1, PTL DEF Spec

(* The queue is linked from first to last, and every chunk malloc() gave   *)
(* out is in it or idle, and there only once: none leaks, and none is used *)
(* after it was freed.                                                     *)
THEOREM NoChunkLost == Spec => []ListsSound
<1>1. IInv /\ WInv => ListsSound
  <2> SUFFICES ASSUME IInv, WInv PROVE ListsSound
    OBVIOUS
  <2>1. /\ first = Null => Queue = <<>>
        /\ One => Queue = <<first>>
        /\ Two => Queue = <<first, last>>
    BY QueueIs
  <2>2. IsInjective(idle)
    <3>1. DOMAIN idle = 1 .. Len(idle)
      BY DEF IInv, ListTypes
    <3> QED BY <3>1 DEF IInv, IdleSound, Distinct, IsInjective
  <2>3. Held = {first, last} \ {Null} /\ Len(idle) <= IdleMax
    BY DEF WInv, NothingLeaks
  <2>4. /\ IF first = Null THEN last = Null
           ELSE Queue[Len(Queue)] = last /\ chunk[last].next = Null
        /\ IsInjective(Queue) /\ Elements(Queue) = {first, last} \ {Null}
    <3>1. CASE first = Null
      <4>1. last = Null
        BY <3>1, ChunkAssumption DEF IInv, QueueShape, One, Two, Held, ListTypes
      <4> QED BY <2>1, <3>1, <4>1 DEF IsInjective, Elements
    <3>2. CASE One
      <4>1. first # Null
        BY <3>2, ChunkAssumption DEF One, Held, IInv, ListTypes
      <4>2. Elements(<<first>>) = {first} /\ IsInjective(<<first>>)
        BY DEF Elements, IsInjective
      <4> QED BY <2>1, <3>2, <4>1, <4>2 DEF One
    <3>3. CASE Two
      <4>1. first # Null /\ last # Null /\ first # last
        BY <3>3, ChunkAssumption DEF Two, Held, IInv, ListTypes
      <4>2. Elements(<<first, last>>) = {first, last} /\ IsInjective(<<first, last>>)
        BY <4>1 DEF Elements, IsInjective
      <4>3. Queue = <<first, last>> /\ chunk[last].next = Null
        BY <2>1, <3>3 DEF Two
      <4>4. Len(<<first, last>>) = 2 /\ <<first, last>>[2] = last
        OBVIOUS
      <4> QED BY <4>1, <4>2, <4>3, <4>4
    <3> QED BY <3>1, <3>2, <3>3 DEF IInv, QueueShape
  <2>5. Elements(idle) \subseteq allocated
    BY DEF IInv, IdleSound
  <2>6. /\ Elements(Queue) \cap Elements(idle) = {}
        /\ Elements(Queue) \cup Elements(idle) = allocated
    BY <2>3, <2>4, <2>5 DEF Held
  <2> QED BY <2>2, <2>3, <2>4, <2>6 DEF ListsSound
<1> QED BY Initially, Inductive, ResponseInitially, WInductive, <1>1, PTL DEF Spec

(* Through partial writes, several chunks and windows the kernel gets the  *)
(* head and then the body, every byte in its place and none twice.         *)
THEOREM BytesInOrder == Spec => []WireInOrder
<1>1. WInv => WireInOrder
  BY DEF WInv
<1> QED BY Initially, Inductive, ResponseInitially, WInductive, <1>1, PTL DEF Spec

(* Marking accounts for all that was written, and the queue that seems     *)
(* empty has been sent in full, but for a length that is 0 as a word only. *)
THEOREM ResponseIsSent == Spec => []AllSent
<1>1. WInv => AllSent
  BY DEF WInv, Accounted, Finished, AllSent
<1> QED BY Initially, Inductive, ResponseInitially, WInductive, <1>1, PTL DEF Spec

(* Content-Length is the number of bytes that follow the head: the next    *)
(* response of the connection begins where the client looks for it.        *)
THEOREM LengthIsTrue == Spec => []BodyAsAnnounced
<1>1. WInv => BodyAsAnnounced
  <2> SUFFICES ASSUME WInv, pc = "finished", 2 * (HeadLen + content_length) < Word
               PROVE  Len(wire) = HeadLen + announced
    BY DEF BodyAsAnnounced
  <2>1. content_length \in Nat /\ announced = AsSigned(content_length)
    BY DEF WInv, ResponseTypes
  <2>2. announced = content_length /\ HeadLen + content_length # Word
    BY <2>1, WordAssumption DEF AsSigned
  <2> QED BY <2>2 DEF WInv, Finished, Accounted
<1> QED BY Initially, Inductive, ResponseInitially, WInductive, <1>1, PTL DEF Spec

===============================================================================
