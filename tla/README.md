# Verification of minihttpd

minihttpd is a small HTTP server: one main process accepts connections and
hands each of them, as a file descriptor over a unix socket, to one of a few
worker processes; a worker serves all its connections from one epoll loop.
This directory holds TLA+ models of that program, TLC runs that check them on
small instances, and proofs, checked by TLAPS, for all instances.

Every definition of a module is translated from the code in `src/src/`;
`PROJECT.json` ("map") names the lines of each.

## The system

| component | state | operations | models |
|---|---|---|---|
| main process (`main.cpp`) | `srv->child[]`, signal flags | accept, pick a worker, send, reap, shut down | `Dispatcher` |
| worker (`worker.cpp`, `fdevents.cpp`, loop of `main.cpp:306-364`) | slots, counter, handler table, descriptors, epoll batch | receive a descriptor, dispatch events, exit | `Worker`, abstractly `WorkerView` |
| timers (`worker.cpp:130-174`) | the cached clock `cur_ts` | end idle and lingering connections | `Connection`, `Worker` |
| connection (`connection.cpp`) | state, flags, request/response, two chunk queues, three time stamps | the state machine, read, write, close | `Connection`, abstractly `HttpSession` |
| read queue (`chunk.cpp`, `buffer.cpp`, `connection.cpp:390-519`) | chunks and their buffers | get memory, commit, search for the end of a head, copy it | `ReadQueue`, abstractly `HeadReader` |
| write queue (`chunk.cpp`, `connection.cpp:581-836`) | linked chunks, idle list, file windows | append, prepend, write, mark written, reset, free | `WriteQueue` |
| request parsing (`request.cpp`) | indexes of one pass, the request record | request line, options, keep-alive | `Request` |
| request handling (`response.cpp`) | status, response record | find the file, compose the head | `Request`, `WriteQueue`; text is not modelled |
| status texts (`key_map.cpp`) | a constant table | look up | `Statuses` of `Request` |
| configuration, MIME table, log, daemon, listening socket | constants and start-up | | not modelled |

How they interact: the main process and a worker share nothing but a unix
socket and signals.  A worker calls the state machine of a connection from
three places (a new descriptor, an event, the timer), each of which may end and
free that connection or leave it waiting.  The state machine calls back into
the tables of the worker when it registers interest, closes or frees.  It reads
into one chunk queue and writes from another; between the two a request is
parsed, its target looked up and an answer queued.

What is hard: signals between a test and the system call it guards; events of
a batch dispatched after an earlier event of the batch changed what they refer
to; reuse of descriptor numbers; partial reads and writes over chunks and
windows; 32-bit lengths of files; a cached clock behind time stamps that do not
use it; blocking hand-over to a process that may be full, dying or dead; fields
of one request that must not reach the next; and a state machine of ten states
whose loop ends when an iteration leaves the state as it was, so that what epoll
watches must agree with every way of leaving it.  `PROJECT.json` ("hazards")
lists these at their lines, with the properties that would catch them going
wrong.

What makes each component correct:

- main process: load stays balanced; a chosen worker is on the list; it is
  never stuck with a connection; a shutdown happens;
- worker: counter, slots, handlers and descriptors agree at every step; no
  descriptor leaks or is closed under its owner; the unix socket keeps moving;
  it exits only when told to and with nobody left to serve, and then it does;
- connection: it never waits for an event epoll does not watch; the announced
  length and the bytes written agree; every head is composed for a decided
  answer; nothing is written after FIN; it cannot be held for ever by a client,
  and no active client is given up before its time;
- read queue: no byte is lost or repeated, and a head is found with its last
  byte wherever chunks and reads cut it;
- write queue: every byte is sent once and in its place, and no chunk, window
  or descriptor outlives its use or is used after it;
- request: what is decided is what the lines of this head say, a refused one
  ends its connection, and client and server agree on whether it goes on.

How the modules fit together:

    Dispatcher ----- each worker is a -----> WorkerView <---- implements ---- Worker
                                                        its connections are
    HttpSession <--- implements --- Connection <------- single steps of it
                                        |
           its parts in detail:   ReadQueue   Request   WriteQueue
                                      |
                                  HeadReader

## The modules

### WorkerView

A worker as the main process knows it: up, exited or killed; the descriptors in
flight to it; the connections it serves; whether it has been told to stop and
whether it still listens.  It says that descriptors are taken in one by one,
that a worker stops listening only when the main process is gone, and that it
exits only when told to and with nobody left to serve; `FairSpec` adds that it
does take them in and does exit.

### Dispatcher

The main process as a loop with a control point before each system call that
can be interrupted, so that a signal may come between any two.  Handlers set
flags; a blocked `accept()` or `sendmsg()` is ended by any signal
(`sa_flags = 0`).  Workers are seen from outside: a process that is up, exited
or killed, whether it has been waited for (`Zombie` is what `waitpid()` finds),
what is in flight to it, and how many it serves.  `WorkersAsViewed` says that
each of them is a `WorkerView`.

### Worker

One worker and all its connections, each between two runs of its state machine:
a run is a single step, and it leaves a connection waiting in READ, WRITE or
CLOSE, or freed.  That it waits in no other state is theorem `NoLostWakeup` of
`ConnectionProofs`.  The state is the slots (`conn`), the counter, the handler
table, the descriptors in use (sockets and the files being sent, given out
lowest first), the batch as a set of descriptors still to be dispatched in any
order, and the unix socket.  The timer handler visits the slots one by one.
`LoopGoesOn` is the condition of the event loop.  `ImplementsView` is the
refinement: `serving` is the counter, and an abort is a `Crash`.

`undefined` is the outcome of `recvmsg()` in a process without a free
descriptor: nothing is stored in `connection_fd`, and the code uses it
(`worker.cpp:45-77`).  What follows is not modelled; the view of it is a crash.

`fdevents_set_events()`, `fdevents_unset_event()` and
`worker_timer_expire_handler()` have no `return` on some paths.  The Makefile
builds without optimisation, where the missing value is arbitrary and, being
used for the level of a log line at most, of no consequence; the models leave
it out.

### HttpSession

What a connection promises, in two variables: `phase` (reading, responding,
lingering, gone) and `owed` (units of the response still to be sent).  One
response per request; the next request only when nothing is owed; no way back
from lingering; and lingering ends (`FairSpec`).

### Connection

One connection with the worker around it.  The fields of `struct _connection`
are variables under their own names, except that the read queue is a sequence
of tokens (`"end"` completes a head), the write queue is two counts (`mem_out`
units in the memory chunks at its front, `file_out` in the file chunk behind
them, in the order in which the code queues them), `http_status` is one of five
kinds of answer, and a time stamp is its age.

The loop of `connection_state_machine()` is the control point `machine`; there
is one action per case and outcome (`RequestStart`, `ReadData`, `WriteMem`,
`Close`, ...), and each is one iteration, or one `writev`/`write` of the inner
loop of `connection_handle_write()`.  An iteration that leaves the state as it
was (`Stay`) leads to `epilogue`, which sets the epoll events as
`connection.cpp:356-375` does, and from there to `epoll`.  `EpollWait` returns a
batch (the timer, the connection, or both in either order), `DispatchTimer` and
`DispatchConnection` handle its elements.  The timer expires once a second but
not when `time()` moves on: one tick after `cur_ts` was read it may have expired,
after two it has.

Ages: `cur_ts` is read by `worker.cpp` once a second, while some stamps use
`time()`.  `lag` is how far `time()` is ahead of `cur_ts`; a stamp of `time()`
has age `-lag`.  Ages saturate just beyond the limit they are compared with and
count only in the state whose limit they are, where alone they are compared.
`quiet` is history: the ticks since the last `read()`, or since FIN.
`TimerIsPatient` holds what the timer does with its ages against it: of the limit
as much as the clock may lag is missing, and no more.

The environment is the client (send, receive, FIN, RST, at any moment), the
kernel's two socket buffers, and time.  RST leaves data in the receive buffer
readable or not; `write` may take any part of what it is given or nothing, and
may fail for good with the client still there, as it does with a mapping whose
file has been cut short (`FileBroken`); `read` may be interrupted.

What Connection takes for granted of its parts is shown by the next three
modules: that a head is found exactly when it is complete (`ReadQueue`), that a
refusal clears `keep_alive` and a status is decided (`Request`), and that the
queue keeps every byte and its length is what is left to be sent (`WriteQueue`).

### HeadReader and ReadQueue

`HeadReader` is the promise: bytes arrive in pieces; once they hold the end of a
head, the head is everything up to that end; and one that has not ended within
the limit is refused.

`ReadQueue` is the code, byte by byte: a chunk is its buffer (`size`, `used`
with the terminating NUL, the bytes), `PickMemory` is FIONREAD, which may fail,
and `chunk_get_memory()`, `ReadData` is `read()`, `chunk_commit_memory()` and the
scan of `connection_handle_read_state()`.  `EndFrom` is its inner loop: `Match`
compares one byte after another, each at the `NextPlace` behind the last, which
may be in a later chunk.  Sizes are words.  A read that fits into the memory
asked for but not into the chunk is `ReadOutside`: the model ends there.

### WriteQueue

The queue as linked chunks: `first`, `last`, `next`, an idle list, and the
chunks that are allocated at all.  `Unused` and `Pop` are
`chunkqueue_get_unused_chunk()` and `chunkqueue_push_unused_chunk()`, with
`malloc()` free to return any address that was freed.  `MarkChunk` and
`ResetChunk` are single iterations of the loops over chunks.  A connection may
end in the middle of a response, behind it, or before the next one.  A file chunk is
sent through a window of mapped pages (`Opened`, `SendLen`), in 32-bit words;
`TruncateFile` is another process.  `Given` is what `writev()` is given: the
pieces of `Iov`, the memory chunks from the first one on.  Addresses are a finite
set, as they are in any process.  `wire` is history: which byte of which part
the kernel was given.

### Request

A head is a sequence of tokens, the separators of the parser and words.  One
step of the parser is one iteration of its two loops (`LineSpace`, `LineEnd`,
`ReadKey`, `ValueEnd`, ...), with the indexes of the code.  Names and values are
compared by their beginnings as `strncasecmp()` does, so `Connecting` is a
`Connection` and `hostess` a `Host`.  The numbers of a version are what
`strtol()` makes of them: `OneOne` and `OneZero` hold a few spellings with signs,
leading zeros, blanks and more digits than an `int` has.  `HandleRequest` is the outcome of
`stat()`, `ResponseStart` the lines of the answer that depend on the request,
`NextRequest` the reset of a kept-alive connection.

`DecisionAsLines` compares the outcome with a second definition, which cuts the
head into lines and looks at each of them as a whole.

### Abstraction that all share

`malloc` does not fail, the log is not modelled, and a system call has the
outcomes its callers distinguish.

## The runs

The constants of a run are in its `.cfg`.

| run | checks | instance |
|---|---|---|
| `connection` | `TypeOK`, `WatchedForProgress`, `ResponseExact`, `AnswerDecided`, `HeadBounded`, `FinIsFinal`, `ImplementsSession`, `TimerIsPatient` | receive buffer 2, head limit 1, body 2, send buffer 2, all limits 3, lag 2 |
| `connection_live` | `SilentReaderClosed`, `StartedWriteEnds`, `ImplementsFairSession` | receive and send buffer 1, body 2, all limits 1, lag 2 |
| `worker` | `TypeOK`, `SlotsCounted`, `TablesAgree`, `DescriptorsOwned`, `NewConnectionFits`, `HandedOverTaken`, `ImplementsView`, `ImplementsFairView` | two slots, three descriptors |
| `dispatcher` | `TypeOK`, `Balanced`, `PickedIsListed`, `HandOverEnds`, `ShutdownHappens`, `WorkersAsViewed` | two workers, sentinel 2, unix sockets of 2 |
| `readqueue` | `TypeOK`, `ReadsPreserved`, `OutsideOnlyWhenFull`, `ImplementsHeadReader` | seven bytes of three kinds, receive buffer 4, sizes aligned to 2, reads of at least 2, head limit 5, words of 16 |
| `writequeue` | `TypeOK`, `ListsSound`, `FilesOfQueued`, `WindowSound`, `WireInOrder`, `AllSent`, `BodyAsAnnounced` | three chunks, one kept idle, pages of 2, windows of 2 pages, words of 16, a head of 3, bodies up to 2, files of eight sizes from 0 to 18 |
| `request` | `TypeOK`, `RefusalCloses`, `ClientAgrees`, `DecisionAsLines` | two good request lines with up to three of 13 options, and 18 other lines with up to one |

Why these are enough:

- `connection`: a head limit of 1 with a buffer of 2 has heads that end below,
  at and above the limit, in one read and in several, with another request
  behind them.  A response has up to three units (head and body), against a
  send buffer of two, so that every response of more than one piece meets a
  full buffer and is split in every way.  Limits of 3 with a lag of 2
  have stamps ahead of the clock and below, at and beyond each limit, and leave
  something of a limit when the lag is taken off; a bound tighter by one tick
  than that of `TimerIsPatient` fails there.
- `worker`: three descriptors for two connections allow both to be open with one
  file, or one of them to be closed and its number given to a new one while its
  event is in the batch.
- `dispatcher`: two workers are what it takes to choose, and the sentinel
  (2^32 - 1 in the code) is small so that the count reaches it.
- `readqueue`: an end of head is four bytes, so that it spreads over up to four
  chunks and may begin at every place of a chunk, also with a false start
  before it; seven bytes are one more than the limit and the NUL allow, and leave
  bytes for a second head.
- `writequeue`: a queue has two chunks, and three addresses let one be recycled,
  freed and allocated again meanwhile.  The code keeps four chunks idle and so
  never frees one in this queue; with one, freeing is covered as well.  File
  sizes are nothing, within one window, over several, up to the word less the
  head (13), one less and more, the word itself and beyond it.
- `request`: the options hold each kind of name, value, blank and mistake, and
  three of them have two that contradict each other with a Host before, between
  or behind.

`CHECK_DEADLOCK FALSE` is set everywhere because each of these systems really
stops: a connection is freed, a worker exits or aborts, the main process exits
and its workers are served out, a client has sent its bytes, a queue is freed
with its connection.

### Where the code does not do what the source says

Each of these runs checks one property that a comment or assertion of the
source states, and TLC finds a behaviour of the code that breaks it.

| run | the source says | what happens |
|---|---|---|
| `stale_event_aborts` | `fdevents.cpp:117` asserts a handler for every event | the timer closes a connection whose event is later in the batch: the worker aborts |
| `would_block_closes` | `connection.cpp:804`: -1 can be continued later | `connection.cpp:694` switches on `n`, not `errno`: EAGAIN ends the connection |
| `dead_worker_listed` | `main.cpp:408`: a dead worker is taken off the list | `main.cpp:415` clears a flag set after the last `waitpid()` |
| `hangup_of_another` | `connection.cpp:133`: the peer of this socket is closed | the hang-up of a closed connection is dispatched to the next owner of its number |
| `chunk_overfull` | `chunk.cpp:237`: there is enough memory in the current chunk | `chunk.cpp:264` counts a byte more than the chunk has, and the room left underflows |

Others are plain from the code and have no run:

- a response of which no write has been stamped yet is exempt from the write
  timeout of `config.h:35` (`worker.cpp:160`; `IdleTooLong` of `Connection`), and
  a run of writes that ends with EAGAIN is not stamped, however much it has sent:
  the time "for next writeable event" is taken from an earlier one
  (`connection.cpp:854-856`; `AwaitRoom`), which is why `TimerIsPatient` leaves
  writes out;
- a SIGTERM between `main.cpp:376` and `accept()` waits for the next client,
  against `main.cpp:203` (`Accept` of `Dispatcher`);
- descriptors in flight to a worker when it exits are dropped, against
  `main.cpp:481-483` (`Exit` of `WorkerView`);
- a worker whose connections all send files runs out of descriptors before it
  has the rlim_cur/2 connections of `main.cpp:269` (`Receiving` of `Worker`);
- the main process exits without the `waitpid()` that `main.cpp:218` announces,
  and a running worker that has been sent 2^32 - 1 connections is passed over
  like one that has exited, against `main.cpp:457`;
- the request line admits GET and POST where `request.cpp:126` says PUT and GET,
  and an option is known by a part of its name (`sizeof("Connection"-1)`,
  `request.cpp:245`);
- an option line without a colon hides the option behind it, which
  `DecisionAsLines` excepts (`request.cpp:226`);
- an empty method makes the worker end (`request.cpp:124`, phase `dead` of
  `Request`), and the test for an empty url (`request.cpp:210`) finds none;
- a file whose length and head add up to 2^32 is not sent at all
  (`connection.cpp:284`, which `AllSent` excepts), and from 2 GiB on the
  announced length is negative (`connection.cpp:623`, which `BodyAsAnnounced`
  excepts).

### Fairness

- Connection: the worker is scheduled and time passes (weak fairness of
  `WorkerStep` and `Tick`).  A read of readable data is not interrupted for
  ever (strong fairness of the other outcomes of `read`).  The client owes
  nothing: it may be silent, stop reading, never close.
- Worker: it is scheduled.
- WorkerView: a worker takes in what is in flight to it, and exits when it may.
  This is not assumed of the code but shown of it: `ImplementsFairView`, from
  the scheduling of `Worker` alone.
- Dispatcher: processes are scheduled, its workers are as fair as `WorkerView`,
  and `accept()` does not fail for ever.  `BusySpec` adds that clients keep
  coming: without it the main process may wait in `accept()` for ever.
- ReadQueue, WriteQueue, Request: none; their properties are safety.

## The proofs

All theorems hold for every value of the constants that their `ASSUME`s admit:
sizes are positive, limits are naturals, a word is wider than a window, a head
and an error body, there are finitely many chunk addresses, and a head is
complete.

- **ConnectionProofs.**  The inductive invariant joins the type invariant, the
  properties of the run, and what links control point, state and data: where
  the machine may rest, what `interest` was left as, that a response in the
  making has its announced length, that a lingering connection owes nothing, and
  how ages, lag and the time that has passed relate (`Patience`).
  `WatchedForProgress` alone is not inductive because the epilogue computes it
  from `Pending` and `writeable`; `FinIsFinal` needs that no dispatch leads a
  lingering connection anywhere but to an error, which lingers again.
  `TimersArePatient` is about steps: `Patience` says that an age and the lag
  exceed `quiet` by `MaxLag` at most, unless the client has ended the connection,
  and an age that the timer finds beyond its limit is at most their sum.
- **ConnectionRefinement.**  `Spec => ImplementsSession`: initial states map to
  initial states, and each action is a step of the session or leaves phase and
  owed units alone.  It uses the invariant to know that a response that begins
  owes something and that one that ends owes nothing.
- **DispatcherProofs.**  `Balanced` is not inductive: a send adds one to a
  count that was minimal when it was compared, possibly many steps earlier.
  The strengthening `PickIsMinimal` says that it still is, since in between
  workers only leave the list and no count changes.  `Viewed` maps each step to
  a step or a stutter of each worker's view, and needs the type invariant for
  the sizes of what is in flight.
- **WorkerProofs.**  `TablesAgree` and `DescriptorsOwned` need each other: a
  new descriptor has no handler because handlers exist only for descriptors in
  use.  `SlotsCounted` is about a cardinality, and rests on the lemmas of the
  library on adding to and removing from a finite set.  `Viewed` is the
  refinement: a run of the state machine that ends a connection is a `Finish`, a
  descriptor that is refused is still a `Receive`; it needs the counter to be
  within the slots.
- **ReadQueueProofs.**  `OutsideOnlyFull`: `used` is at most one more than the
  size, which is where `RemainingBytes` underflows; in every other state the
  room it tells is there.  A second invariant, `TextInv`, says that the chunks,
  one behind the other, hold the bytes received (`TextIsReceived`,
  `ReadTypes`).  `SearchImplementsReader` is the refinement of `HeadReader`.
  The code's search walks over places, pairs of a chunk and a position, and the
  abstract reader looks at one text.  `Pos` maps places to positions;
  `OrderOfPlaces` and `NextIsNext` say that it keeps their order and that the
  next place is the next position, whatever empty chunks lie between.  From
  these `MatchIs` follows for one comparison, `EndFromIs` for four,
  `SearchIsExact` for the scan and `CopyIsPrefix` for the copy.
- **WriteQueueProofs.**  The lists are followed by their links: the invariant
  says that the queue is empty, one chunk or two (`QueueOfTwo`), that idle
  chunks are distinct and allocated, and that whatever is not in use is as
  `chunk_reset()` leaves it.  `NoFileForgotten` follows at once.
  `WindowsAreSound` needs that windows begin at pages and that an offset never
  passes its length; a sum that wraps around only makes the code map again.
  The properties of the wire need a second invariant, `WInv`.  Its core are
  `Remains` (what is queued is the head, a body of the announced length, or
  both in that order) and `Accounted` (the bytes on the wire are those before
  the first chunk, its offset and what is still to be marked); with them each
  `write()` continues the response where the last one stopped, and a chunk
  leaves the queue exactly when its last byte is marked.  `BytesInOrder`,
  `ResponseIsSent`, `LengthIsTrue`, `WordsStayWords` and `NoChunkLost` follow.
- **RequestProofs.**  The parser keeps `keep_alive` clear and the status unset
  until it decides, and a head ends with LF, so that no CR LF begins at its last
  token; `RefusalsClose`, `ClientsAgree` and the type invariant follow.
  `DecidesAsLines` needs to know what the parser has read (`Reading`): in the
  request line, that the noted spaces are those before the index (`LineRead`);
  in the options, that every line before `key_at` has its effect
  (`OptionsUpTo`), and that the index is in the line that begins there, in its
  name before any colon or in its value, whose blanks are passed over
  (`ValueRead`).  That a line ends where the parser thinks it does is where the
  colon in every option line is needed (`ReadKeyHolds`).  `OptionLinesAre`
  turns the lines, a set of sets of positions, into pairs of neighbouring line
  breaks.
- **SequenceLemmas.**  Lemmas the others rest on; they say nothing of the
  program.  The prover cannot instantiate the induction theorems of
  the library, which have an operator as parameter.  `Induction` has the set of
  the numbers with the property instead, and follows from the well-ordering of
  the naturals; `PrimRec` and `SetFold` give the functions that recursive
  definitions and `FoldLeft` choose, and `FlattenAppend` is what the other
  modules use of `FlattenSeq`.

`TLC` has checked the inductive invariants on the instances of the runs before
they were proved, and every invariant of the passing runs is now a theorem.
Only model-checked:

- liveness (all of `connection_live`, `HandOverEnds`, `ShutdownHappens`,
  `HandedOverTaken`, `ImplementsFairView`), which needs fairness and ENABLED,
  beyond the prover;
- the runs that find violations.

## What is not modelled

- Start-up (options, limits, daemon, listening socket, fork, the MIME table): a
  straight line of calls before anything is concurrent.
- Text that decides nothing: paths, content types, the directory listing, the
  error body, and all lines of the response head but three.
- Configuration files and the log.
- `chunkqueue_remove_finished_chunk()` and the branch of
  `connection_send_file_chunk()` for an empty file chunk: nothing queues an
  empty chunk, and a chunk sent to its end has left the queue.
- What happens after a read outside a chunk, a descriptor that was never
  received, or a comparison with NULL: the models end there.

Of the behaviour that is left, nothing depends on the order of events or on a
state that lasts.
