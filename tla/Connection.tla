----------------------------- MODULE Connection -----------------------------
(***************************************************************************)
(* One client connection of a minihttpd worker (src/src/connection.cpp):   *)
(* the ten-state machine that reads a request head, decides a response,    *)
(* writes it, keeps the connection alive or lingers and closes it, driven  *)
(* by the events epoll_wait returns in batches (main.cpp) and by the idle  *)
(* timer of the worker (worker.cpp).  The client and the kernel's socket   *)
(* buffers are the environment.                                            *)
(*                                                                         *)
(* Data is abstract.  The client's byte stream is a sequence of tokens:    *)
(* "part" is a piece of a request head, "end" the piece that completes one *)
(* (CR LF CR LF).  A response is counted in units: one for its head, one   *)
(* per piece of body.  Time is discrete, and a time stamp is represented   *)
(* by its age with respect to the worker's cached clock cur_ts, saturated  *)
(* just beyond the limit it is compared with; `lag' is how far time() has  *)
(* run ahead of cur_ts, and `quiet' what a clock that never lags says.     *)
(***************************************************************************)
EXTENDS Integers, Sequences

CONSTANTS
    MaxInbox,       \* tokens the kernel's receive buffer holds
    MaxHead,        \* tokens of a head beyond which it is refused (max_http_head_size)
    MaxBody,        \* units of the largest file or directory listing
    SndCap,         \* units the kernel's send buffer holds
    ReadIdle,       \* max_read_idle_ts
    WriteIdle,      \* max_write_idle_ts
    CloseTimeout,   \* MINIHTTPD_CLOSE_TIMEOUT
    MaxLag          \* ticks time() may run ahead of cur_ts between two timer events

ASSUME SizeAssumption ==
    /\ MaxInbox \in Nat \ {0}
    /\ MaxHead \in Nat
    /\ MaxBody \in Nat \ {0}
    /\ SndCap \in Nat \ {0}

ASSUME TimeAssumption ==
    /\ ReadIdle \in Nat
    /\ WriteIdle \in Nat
    /\ CloseTimeout \in Nat
    /\ MaxLag \in Nat \ {0, 1}      \* a timer event comes within that

VARIABLES
    \* the fields of struct _connection
    state,          \* connection_state_t
    readable, writeable, keep_alive,
    http_status,    \* which kind of answer has been decided
    body_finished,  \* http_response_body_finished
    content_length, \* units of body the response head announces
    readq,          \* tokens read from the socket since the last reset
    mem_out,        \* unsent units in the memory chunks that open the writequeue
    file_out,       \* unsent units in the file chunk that ends the writequeue
    read_idle, write_idle, close_idle,  \* ages of active_read_ts, active_write_ts, close_timeout_ts
    \* the worker around it
    pc,             \* epoll | machine | epilogue | freed | aborted
    interest,       \* the event epoll watches the socket for
    batch,          \* events of the current epoll_wait not dispatched yet
    events,         \* what that epoll_wait reported for this socket
    lag,
    \* the socket and the client
    inbox,          \* tokens in the kernel's receive buffer
    peer,           \* open | finished (FIN received) | reset (RST received)
    sndbuf,         \* units in the kernel's send buffer
    fin_sent,       \* shutdown(SHUT_WR) has succeeded
    \* history
    sent,           \* units of the current response the kernel has taken
    quiet           \* ticks since the last read() or FIN; see Limit

requestVars  == <<readable, writeable, keep_alive, http_status, body_finished, readq>>
responseVars == <<content_length, mem_out, file_out, sent>>
clockVars    == <<read_idle, write_idle, close_idle, lag, quiet>>
loopVars     == <<batch, events>>
socketVars   == <<inbox, peer, sndbuf, fin_sent>>
vars == <<state, pc, interest, requestVars, responseVars, clockVars, loopVars, socketVars>>

-----------------------------------------------------------------------------
(* Sets and helpers                                                        *)

States == {"REQUEST_START", "READ", "REQUEST_END", "HANDLE_REQUEST",
           "RESPONSE_START", "WRITE", "RESPONSE_END", "ERROR", "CLOSE", "CONNECT"}

Tokens == {"part", "end"}

(* 0; 200; 400, 501 or 505; 414; 403, 404 or 500.                          *)
Statuses == {"unset", "ok", "bad_request", "too_large", "refused"}

(* Statuses given before the request is looked up.                         *)
Rejected == {"bad_request", "too_large"}

(* The orders in which epoll_wait may return what is ready.                *)
Batches == {<<"timer">>, <<"conn">>, <<"timer", "conn">>, <<"conn", "timer">>}

Elements(s) == {s[i] : i \in DOMAIN s}

Min2(a, b) == IF a < b THEN a ELSE b

(* active_write_ts = 0.                                                    *)
Never == -1

(* The least age that a limit does not tolerate, ...                       *)
Expired(limit) == limit + 1

(* ... beyond which ages are not told apart, here when cur_ts catches up.  *)
Aged(age, limit) == Min2(age + lag, Expired(limit))

(* chunkqueue_length(writequeue) != 0                                      *)
Pending == mem_out + file_out > 0

Closed == pc \in {"freed", "aborted"}

Running(s) == pc = "machine" /\ state = s

(* connection_set_state(); the loop runs once more.                        *)
Goto(s) == state' = s /\ pc' = "machine"

(* The iteration left the state as it was: handle_done.                    *)
Stay == state' = state /\ pc' = "epilogue"

(* connection_reset().                                                     *)
Reset ==
    /\ readable' = FALSE /\ writeable' = FALSE
    /\ http_status' = "unset" /\ body_finished' = FALSE /\ keep_alive' = FALSE
    /\ readq' = <<>>
    /\ mem_out' = 0 /\ file_out' = 0 /\ content_length' = 0 /\ sent' = 0
    /\ read_idle' = Expired(ReadIdle) /\ write_idle' = Never

(* MUTANT the timeout is added instead of taken off. *)
LongAgoAhead == -Expired(CloseTimeout) - lag

(* time() - (MINIHTTPD_CLOSE_TIMEOUT + 1), by a clock that may be ahead of *)
(* the cur_ts it will be compared with.                                    *)
LongAgo == Expired(CloseTimeout) - lag

(* MUTANT the connection is used again after FIN. *)
LingerThenReuse ==
    /\ fin_sent' = (fin_sent \/ peer # "reset")
    /\ close_idle' = IF peer # "reset" THEN 0 ELSE Expired(CloseTimeout)
    /\ quiet' = 0
    /\ Goto("REQUEST_START")
    /\ Reset

(* shutdown(fd, SHUT_WR) succeeds unless the client has reset the socket;  *)
(* close_timeout_ts is cur_ts, or long before it when shutdown fails.      *)
Linger ==
    /\ fin_sent' = (fin_sent \/ peer # "reset")
    /\ close_idle' = IF peer # "reset" THEN 0 ELSE Expired(CloseTimeout)
    /\ quiet' = 0
    /\ Goto("CLOSE")
    /\ Reset

-----------------------------------------------------------------------------
(* The connection has just been taken from the worker's unix socket, which *)
(* runs its state machine (worker.cpp:66-92).  A timer event may be left   *)
(* in the batch that brought it.                                           *)
Init ==
    /\ state = "REQUEST_START" /\ pc = "machine" /\ interest = "none"
    /\ readable = FALSE /\ writeable = FALSE /\ keep_alive = FALSE
    /\ http_status = "unset" /\ body_finished = FALSE /\ readq = <<>>
    /\ content_length = 0 /\ mem_out = 0 /\ file_out = 0 /\ sent = 0
    /\ read_idle = Expired(ReadIdle) /\ write_idle = Never
    /\ close_idle = 0               \* not initialised; set before it is read
    /\ quiet = 0
    /\ lag \in 0 .. MaxLag
    /\ batch \in {<<>>, <<"timer">>} /\ (batch # <<>> => lag > 0)
    /\ events = {}
    /\ inbox = <<>> /\ peer = "open" /\ sndbuf = 0 /\ fin_sent = FALSE

-----------------------------------------------------------------------------
(* connection_state_machine(): one action per case and outcome             *)

RequestStart ==
    /\ Running("REQUEST_START")
    /\ read_idle' = -lag            \* active_read_ts is time(), not cur_ts
    /\ quiet' = 0
    /\ Goto("READ")
    /\ UNCHANGED <<requestVars, responseVars, write_idle, close_idle, lag,
                   interest, loopVars, socketVars>>

(* connection_handle_read_state() is told there is nothing to read.        *)
ReadNotReady ==
    /\ Running("READ") /\ ~readable
    /\ Stay
    /\ UNCHANGED <<requestVars, responseVars, clockVars, interest, loopVars, socketVars>>

(* MUTANT only the start of a request is stamped. *)
ReadingUnstamped ==
    /\ Running("READ") /\ readable
    /\ quiet' = 0
    /\ UNCHANGED read_idle

(* It calls read(); every outcome counts as activity of the client.        *)
Reading ==
    /\ Running("READ") /\ readable
    /\ read_idle' = 0
    /\ quiet' = 0

ReadFails ==
    /\ Reading /\ peer = "reset"
    /\ readable' = FALSE
    /\ Goto("ERROR")
    /\ UNCHANGED <<writeable, keep_alive, http_status, body_finished, readq, responseVars,
                   write_idle, close_idle, lag, interest, loopVars, socketVars>>

(* EAGAIN, or EINTR, which leaves the connection readable.                 *)
ReadNothing ==
    /\ Reading
    /\ readable' \in BOOLEAN
    /\ Stay
    /\ UNCHANGED <<writeable, keep_alive, http_status, body_finished, readq, responseVars,
                   write_idle, close_idle, lag, interest, loopVars, socketVars>>

(* End of file: close without a shutdown.                                  *)
ReadEof ==
    /\ Reading /\ inbox = <<>> /\ peer # "open"
    /\ readable' = FALSE
    /\ close_idle' = LongAgo
    /\ Goto("CLOSE")
    /\ UNCHANGED <<writeable, keep_alive, http_status, body_finished, readq, responseVars,
                   write_idle, lag, interest, loopVars, socketVars>>

(* MUTANT the length of a head that has not ended is not looked at. *)
HeadTooLongNever == FALSE

HeadTooLong == Len(readq') > MaxHead

(* n tokens are read; then the whole readqueue is searched for the end of  *)
(* a head, and a head that has grown too long without one is refused.      *)
(* read() may have filled the buffer it was given: more may be waiting.    *)
ReadData ==
    /\ Reading
    /\ readable' \in BOOLEAN
    /\ \E n \in 1 .. Len(inbox) :
        /\ readq' = readq \o SubSeq(inbox, 1, n)
        /\ inbox' = SubSeq(inbox, n + 1, Len(inbox))
    /\ \/ /\ "end" \in Elements(readq')
          /\ Goto("REQUEST_END")
          /\ UNCHANGED <<http_status, keep_alive>>
       \/ /\ "end" \notin Elements(readq') /\ HeadTooLong
          /\ http_status' = "too_large" /\ keep_alive' = FALSE
          /\ Goto("HANDLE_REQUEST")
       \/ /\ "end" \notin Elements(readq') /\ ~HeadTooLong
          /\ Stay
          /\ UNCHANGED <<http_status, keep_alive>>
    /\ UNCHANGED <<writeable, body_finished, responseVars, write_idle, close_idle, lag,
                   interest, loopVars, peer, sndbuf, fin_sent>>

(* http_reuqest_parse() accepts the head and decides keep_alive, or        *)
(* refuses it and clears keep_alive on every path (request.cpp:62-321).    *)
ParseRequest ==
    \/ http_status' = "unset" /\ keep_alive' \in BOOLEAN
    \/ http_status' = "bad_request" /\ keep_alive' = FALSE

RequestEnd ==
    /\ Running("REQUEST_END")
    /\ ParseRequest
    /\ Goto("HANDLE_REQUEST")
    /\ UNCHANGED <<readable, writeable, body_finished, readq, responseVars, clockVars,
                   interest, loopVars, socketVars>>

(* http_request_handle(): the answer is already decided, ...               *)
HandleRejected ==
    /\ Running("HANDLE_REQUEST") /\ http_status \in Rejected
    /\ content_length' = 0
    /\ Goto("RESPONSE_START")
    /\ UNCHANGED <<requestVars, mem_out, file_out, sent, clockVars, interest, loopVars,
                   socketVars>>

(* MUTANT an errno that no case names sets no status. *)
RefusalSometimes == {"refused", http_status}

Refusal == {"refused"}

(* ... stat() fails or finds something that is not a file (403, 404, 500), *)
HandleRefused ==
    /\ Running("HANDLE_REQUEST") /\ http_status \notin Rejected
    /\ http_status' \in Refusal
    /\ content_length' = 0
    /\ Goto("RESPONSE_START")
    /\ UNCHANGED <<readable, writeable, keep_alive, body_finished, readq, mem_out, file_out,
                   sent, clockVars, interest, loopVars, socketVars>>

(* ... or the file, if it has any content, or the listing of the directory *)
(* becomes the body.                                                       *)
HandleFound ==
    /\ Running("HANDLE_REQUEST") /\ http_status \notin Rejected
    /\ \/ file_out' \in 0 .. MaxBody /\ UNCHANGED mem_out
       \/ mem_out' \in 1 .. MaxBody /\ UNCHANGED file_out
    /\ http_status' = "ok" /\ body_finished' = TRUE
    /\ content_length' = 0
    /\ Goto("RESPONSE_START")
    /\ UNCHANGED <<readable, writeable, keep_alive, readq, sent, clockVars, interest,
                   loopVars, socketVars>>

(* MUTANT the length is taken before the error body is queued. *)
AnnouncedEarly(body) == mem_out + file_out

(* chunkqueue_length(writequeue) with that much in memory chunks.          *)
Announced(body) == body + file_out

(* connection_handle_prepare_response_head(): an error gets a body of its  *)
(* own, the length of the queue is announced, and the head is put in front *)
(* of it.                                                                  *)
ResponseStart ==
    /\ Running("RESPONSE_START")
    /\ http_status' = IF http_status = "unset" THEN "refused" ELSE http_status
    /\ LET body == IF http_status' = "ok" THEN mem_out ELSE mem_out + 1
       IN  /\ body_finished' = (body_finished \/ http_status' # "ok")
           /\ content_length' = IF body_finished' THEN Announced(body) ELSE content_length
           /\ mem_out' = 1 + body
    /\ Goto("WRITE")
    /\ UNCHANGED <<readable, writeable, keep_alive, readq, file_out, sent, clockVars,
                   interest, loopVars, socketVars>>

(* The write case with nothing to write, or no room to write it.           *)
WriteNotReady ==
    /\ Running("WRITE")
    /\ Pending => ~writeable
    /\ IF ~Pending /\ body_finished THEN Goto("RESPONSE_END") ELSE Stay
    /\ UNCHANGED <<requestVars, responseVars, clockVars, interest, loopVars, socketVars>>

(* MUTANT a chunk written in full is taken for the whole queue. *)
WrittenFirstChunk(whole, left) ==
    /\ write_idle' = IF whole /\ left > 0 THEN write_idle ELSE 0
    /\ writeable' = (writeable /\ whole)
    /\ state' = IF whole /\ body_finished THEN "RESPONSE_END" ELSE "WRITE"
    /\ pc' = IF whole /\ (left > 0 \/ body_finished) THEN "machine" ELSE "epilogue"

(* connection_handle_write_state() after a write that took n units, the    *)
(* whole of what it was given or not, and left `left' in the queue: it     *)
(* goes on with the next chunk, has written everything, or waits for room. *)
Written(whole, left) ==
    /\ write_idle' = IF whole /\ left > 0 THEN write_idle ELSE 0
    /\ writeable' = (writeable /\ whole)
    /\ state' = IF whole /\ left = 0 /\ body_finished THEN "RESPONSE_END" ELSE "WRITE"
    /\ pc' = IF whole /\ (left > 0 \/ body_finished) THEN "machine" ELSE "epilogue"

Writing == Running("WRITE") /\ writeable /\ Pending

(* connection_writev_mem_chunk() writes.                                   *)
WriteMem ==
    /\ Writing /\ mem_out > 0 /\ peer # "reset"
    /\ \E n \in 1 .. Min2(mem_out, SndCap - sndbuf) :
        /\ mem_out' = mem_out - n
        /\ sent' = sent + n
        /\ sndbuf' = sndbuf + n
        /\ Written(n = mem_out, mem_out - n + file_out)
    /\ UNCHANGED <<readable, keep_alive, http_status, body_finished, readq, content_length,
                   file_out, read_idle, close_idle, lag, quiet, interest, loopVars,
                   inbox, peer, fin_sent>>

(* writev() returns -1.  The code switches on that -1 instead of errno, so *)
(* EAGAIN and EINTR (no room, or no memory for it) end the connection just *)
(* as EPIPE and ECONNRESET do.                                             *)
WritevWouldBlock ==
    /\ Writing /\ mem_out > 0 /\ peer # "reset"
    /\ Goto("ERROR")
    /\ UNCHANGED <<requestVars, responseVars, clockVars, interest, loopVars, socketVars>>

WritevBroken ==
    /\ Writing /\ mem_out > 0 /\ peer = "reset"
    /\ Goto("ERROR")
    /\ UNCHANGED <<requestVars, responseVars, clockVars, interest, loopVars, socketVars>>

(* connection_send_file_chunk() writes (part of) one mmap window, which is *)
(* the rest of the file or less.                                           *)
WriteFile ==
    /\ Writing /\ mem_out = 0 /\ peer # "reset"
    /\ \E n \in 1 .. Min2(file_out, SndCap - sndbuf), whole \in BOOLEAN :
        /\ n = file_out => whole
        /\ file_out' = file_out - n
        /\ sent' = sent + n
        /\ sndbuf' = sndbuf + n
        /\ Written(whole, file_out - n)
    /\ UNCHANGED <<readable, keep_alive, http_status, body_finished, readq, content_length,
                   mem_out, read_idle, close_idle, lag, quiet, interest, loopVars,
                   inbox, peer, fin_sent>>

(* MUTANT the case of -1 does not clear writeable. *)
AwaitRoomAnyway == UNCHANGED writeable

AwaitRoom == writeable' = FALSE

(* The file cannot be opened or mapped, or write() gives EAGAIN or EINTR:  *)
(* try again when the socket is writeable.  active_write_ts is left alone. *)
FileNotSent ==
    /\ Writing /\ mem_out = 0
    /\ AwaitRoom
    /\ Stay
    /\ UNCHANGED <<readable, keep_alive, http_status, body_finished, readq, responseVars,
                   clockVars, interest, loopVars, socketVars>>

(* Any other error of write(): the client has reset the connection, or the *)
(* pages to be sent are gone (EFAULT of a file that was truncated).        *)
FileBroken ==
    /\ Writing /\ mem_out = 0
    /\ Goto("ERROR")
    /\ UNCHANGED <<requestVars, responseVars, clockVars, interest, loopVars, socketVars>>

(* Wait for the next request, forgetting everything of this one and        *)
(* whatever was read behind it ...                                         *)
ResponseEndKeepAlive ==
    /\ Running("RESPONSE_END") /\ keep_alive
    /\ Goto("REQUEST_START")
    /\ Reset
    /\ UNCHANGED <<close_idle, lag, quiet, interest, loopVars, socketVars>>

(* ... or send FIN and linger.                                             *)
ResponseEndClose ==
    /\ Running("RESPONSE_END") /\ ~keep_alive
    /\ Linger
    /\ UNCHANGED <<lag, interest, loopVars, inbox, peer, sndbuf>>

Error ==
    /\ Running("ERROR")
    /\ Linger
    /\ UNCHANGED <<lag, interest, loopVars, inbox, peer, sndbuf>>

(* Drain what the client still sends; close the socket at its end of file, *)
(* on an error, or when it has lingered long enough.                       *)
Close ==
    /\ Running("CLOSE")
    /\ \E n \in 0 .. Len(inbox), ended \in BOOLEAN :
        /\ ended => n = 0 /\ (peer = "reset" \/ (peer = "finished" /\ inbox = <<>>))
        /\ inbox' = SubSeq(inbox, n + 1, Len(inbox))
        /\ close_idle' = IF ended THEN Expired(CloseTimeout) ELSE close_idle
    /\ IF close_idle' > CloseTimeout
       THEN Goto("CONNECT") /\ interest' = "none"       \* connection_close()
       ELSE Stay /\ UNCHANGED interest
    /\ UNCHANGED <<requestVars, responseVars, read_idle, write_idle, lag, quiet, loopVars,
                   peer, sndbuf, fin_sent>>

(* The socket is closed: the loop ends and the connection is freed.        *)
Free ==
    /\ Running("CONNECT")
    /\ pc' = "freed"
    /\ UNCHANGED <<state, requestVars, responseVars, clockVars, interest, loopVars, socketVars>>

(* The loop has ended: tell epoll what this state waits for.               *)
Epilogue ==
    /\ pc = "epilogue"
    /\ interest' = CASE state \in {"READ", "CLOSE"} -> "in"
                     [] state = "WRITE" -> IF Pending /\ ~writeable THEN "out" ELSE "none"
                     [] OTHER -> interest
    /\ pc' = "epoll"
    /\ UNCHANGED <<state, requestVars, responseVars, clockVars, loopVars, socketVars>>

StateMachine ==
    \/ RequestStart \/ ReadNotReady \/ ReadFails \/ ReadNothing \/ ReadEof \/ ReadData
    \/ RequestEnd \/ HandleRejected \/ HandleRefused \/ HandleFound \/ ResponseStart
    \/ WriteNotReady \/ WriteMem \/ WritevWouldBlock \/ WritevBroken
    \/ WriteFile \/ FileNotSent \/ FileBroken
    \/ ResponseEndKeepAlive \/ ResponseEndClose \/ Error \/ Close \/ Free \/ Epilogue

-----------------------------------------------------------------------------
(* The worker's event loop (main.cpp:306-337) as this connection sees it   *)

(* What the kernel reports for the registration it has.  Errors and        *)
(* hang-ups are always reported; a reset may be seen as an error alone,    *)
(* before the hang-up that follows from it.                                *)
ReadyEvents ==
    {e \in {"IN", "OUT", "ERR", "HUP"} :
        /\ interest # "none"
        /\ CASE e = "IN"  -> interest = "in" /\ (inbox # <<>> \/ peer # "open")
             [] e = "OUT" -> interest = "out" /\ (sndbuf < SndCap \/ peer = "reset")
             [] e = "ERR" -> peer = "reset"
             [] e = "HUP" -> peer = "reset" \/ (peer = "finished" /\ fin_sent)}

(* epoll_wait() returns everything that is ready, in some order.  The      *)
(* timer expires once a second, not when time() moves on: it may have      *)
(* expired one tick after cur_ts was read, and has two ticks after.  (One  *)
(* that expires within the second of cur_ts changes nothing.)              *)
EpollWait ==
    /\ pc = "epoll" /\ batch = <<>>
    /\ batch' \in Batches
    /\ "timer" \in Elements(batch') => lag > 0
    /\ lag > 1 => "timer" \in Elements(batch')
    /\ "conn" \in Elements(batch') <=> ReadyEvents # {}
    /\ events' \in IF peer = "reset" THEN {ReadyEvents, ReadyEvents \ {"HUP"}} ELSE {ReadyEvents}
    /\ UNCHANGED <<state, pc, interest, requestVars, responseVars, clockVars, socketVars>>

Dispatched(e) == batch # <<>> /\ Head(batch) = e /\ batch' = Tail(batch)

(* connection_event_handle(): note what is possible, then run the machine. *)
(* A hang-up ends the lingering, anything else is an error.                *)
DispatchConnection ==
    /\ pc = "epoll" /\ Dispatched("conn")
    /\ readable' = (readable \/ "IN" \in events)
    /\ writeable' = (writeable \/ "OUT" \in events)
    /\ LET hung   == "HUP" \in events
           failed == IF hung THEN state # "CLOSE" ELSE "ERR" \in events
       IN  /\ state' = IF failed THEN "ERROR" ELSE state
           /\ close_idle' = IF hung /\ ~failed THEN LongAgo ELSE close_idle
    /\ pc' = "machine"
    /\ events' = {}
    /\ UNCHANGED <<keep_alive, http_status, body_finished, readq, responseVars,
                   read_idle, write_idle, lag, quiet, interest, socketVars>>

(* MUTANT writes are not timed. *)
IdleTooLongReadOnly == state = "READ" /\ read_idle' > ReadIdle

(* MUTANT reads are timed only like writes, after some activity. *)
IdleTooLongWriteOnly == state = "WRITE" /\ write_idle # Never /\ write_idle' > WriteIdle

(* MUTANT the test of the lingering time is left to socket events. *)
LingeredLongEnoughNever == FALSE

(* What the timer finds, once the ages are those of the new cur_ts.  A     *)
(* write is timed only once some of it has been sent.                      *)
IdleTooLong ==
    \/ state = "READ" /\ read_idle' > ReadIdle
    \/ state = "WRITE" /\ write_idle # Never /\ write_idle' > WriteIdle

LingeredLongEnough == state = "CLOSE" /\ close_idle' > CloseTimeout

(* worker_timer_expire_handler(): bring cur_ts up to date and end what has *)
(* been idle for too long.  Each age counts in its own state alone, and is *)
(* kept still elsewhere.                                                   *)
DispatchTimer ==
    /\ pc = "epoll" /\ Dispatched("timer")
    /\ lag' = 0
    /\ read_idle' = IF state = "READ" THEN Aged(read_idle, ReadIdle) ELSE read_idle
    /\ write_idle' = IF state = "WRITE" /\ write_idle # Never
                     THEN Aged(write_idle, WriteIdle) ELSE write_idle
    /\ close_idle' = IF state = "CLOSE" THEN Aged(close_idle, CloseTimeout) ELSE close_idle
    /\ state' = IF IdleTooLong THEN "ERROR" ELSE state
    /\ pc' = IF IdleTooLong \/ LingeredLongEnough THEN "machine" ELSE "epoll"
    /\ UNCHANGED <<requestVars, responseVars, quiet, interest, events, socketVars>>

(* An event of the batch is left for a descriptor that an earlier event of *)
(* the same batch has closed: its table entry is NULL, and the assertion   *)
(* of fdevents_get_handle() (fdevents.cpp:117) stops the worker.           *)
AbortOnStaleEvent ==
    /\ pc = "freed" /\ Dispatched("conn")
    /\ pc' = "aborted"
    /\ UNCHANGED <<state, interest, requestVars, responseVars, clockVars, events, socketVars>>

WorkerStep ==
    \/ StateMachine
    \/ EpollWait \/ DispatchConnection \/ DispatchTimer \/ AbortOnStaleEvent

-----------------------------------------------------------------------------
(* The environment: time, the client and the network                       *)

(* What the timer compares the age of a state other than WRITE with.       *)
Limit == IF state = "READ" THEN ReadIdle ELSE CloseTimeout

(* `quiet' is counted until it is beyond the limit.                        *)
Tick ==
    /\ ~Closed /\ lag < MaxLag
    /\ lag' = lag + 1
    /\ quiet' = IF state \in {"READ", "CLOSE"} /\ quiet <= Limit THEN quiet + 1 ELSE quiet
    /\ UNCHANGED <<state, pc, interest, requestVars, responseVars, read_idle, write_idle,
                   close_idle, loopVars, socketVars>>

ClientSend ==
    /\ ~Closed /\ peer = "open" /\ Len(inbox) < MaxInbox
    /\ \E t \in Tokens : inbox' = Append(inbox, t)
    /\ UNCHANGED <<state, pc, interest, requestVars, responseVars, clockVars, loopVars,
                   peer, sndbuf, fin_sent>>

(* The client takes in some of what was sent, which frees the buffer.      *)
ClientRead ==
    /\ ~Closed /\ peer # "reset"
    /\ sndbuf' \in 0 .. (sndbuf - 1)
    /\ UNCHANGED <<state, pc, interest, requestVars, responseVars, clockVars, loopVars,
                   inbox, peer, fin_sent>>

ClientFinish ==
    /\ ~Closed /\ peer = "open"
    /\ peer' = "finished"
    /\ UNCHANGED <<state, pc, interest, requestVars, responseVars, clockVars, loopVars,
                   inbox, sndbuf, fin_sent>>

ClientReset ==
    /\ ~Closed /\ peer # "reset"
    /\ peer' = "reset"
    /\ UNCHANGED <<state, pc, interest, requestVars, responseVars, clockVars, loopVars,
                   inbox, sndbuf, fin_sent>>

Environment == Tick \/ ClientSend \/ ClientRead \/ ClientFinish \/ ClientReset

Next == WorkerStep \/ Environment

Spec == Init /\ [][Next]_vars

(* The worker is a process the scheduler runs, and time passes; a read of  *)
(* a readable non-blocking socket is not interrupted for ever; the client  *)
(* owes nothing.                                                           *)
Fairness ==
    /\ WF_vars(WorkerStep)
    /\ SF_vars(ReadFails \/ ReadEof \/ ReadData)
    /\ WF_vars(Tick)

FairSpec == Spec /\ Fairness

-----------------------------------------------------------------------------
(* Properties                                                              *)

FlagsOK ==
    /\ state \in States
    /\ pc \in {"epoll", "machine", "epilogue", "freed", "aborted"}
    /\ {readable, writeable, keep_alive, body_finished, fin_sent} \subseteq BOOLEAN
    /\ http_status \in Statuses
    /\ interest \in {"none", "in", "out"}
    /\ events \subseteq {"IN", "OUT", "ERR", "HUP"}
    /\ peer \in {"open", "finished", "reset"}

CountsOK ==
    /\ content_length \in 0 .. MaxBody
    /\ mem_out \in 0 .. MaxBody + 1
    /\ file_out \in 0 .. MaxBody
    /\ sent \in 0 .. MaxBody + 1
    /\ sndbuf \in 0 .. SndCap

AgesOK ==
    /\ lag \in 0 .. MaxLag
    /\ read_idle \in -MaxLag .. Expired(ReadIdle)
    /\ write_idle \in Never .. Expired(WriteIdle)
    /\ close_idle \in -MaxLag .. Expired(CloseTimeout)
    /\ quiet \in Nat

QueuesOK ==
    /\ readq \in Seq(Tokens)
    /\ inbox \in Seq(Tokens) /\ Len(inbox) <= MaxInbox
    /\ batch \in Seq({"timer", "conn"})

(* Flags, counts and ages keep their types and ranges: no count falls      *)
(* below zero, and no age leaves what the timer compares (worker.cpp:155). *)
TypeOK == FlagsOK /\ CountsOK /\ AgesOK /\ QueuesOK

(* No lost wake-up: whenever the worker leaves the connection and returns  *)
(* to its event loop, epoll watches the socket for the one event that lets *)
(* the state go on: room when a response is partly written, input (which   *)
(* end of file is too) in every other state.  The events are set in one    *)
(* place (connection.cpp:356-375) from state, queue and a flag that many   *)
(* paths change, and a connection parked without them would hang.          *)
WatchedForProgress ==
    pc = "epoll" =>
        \/ state \in {"READ", "CLOSE"} /\ interest = "in"
        \/ state = "WRITE" /\ interest = "out" /\ Pending /\ ~writeable

(* Every byte that the head announced is either with the kernel or still   *)
(* queued, through every partial write, and a response is over only when   *)
(* nothing of it is queued (connection.cpp:580-591, 665-836).              *)
ResponseExact ==
    state \in {"WRITE", "RESPONSE_END"} =>
        /\ sent + mem_out + file_out = 1 + content_length
        /\ state = "RESPONSE_END" => ~Pending

(* The head is composed for a decided answer: a successful one whose body  *)
(* is complete, or an error with nothing queued yet (connection.cpp:529    *)
(* says an undecided status cannot happen).                                *)
AnswerDecided ==
    state = "RESPONSE_START" =>
        /\ http_status # "unset"
        /\ IF http_status = "ok" THEN body_finished ELSE ~body_finished /\ ~Pending

(* A client cannot make the server hold more of a head than the limit and  *)
(* one read (connection.cpp:510-516).                                      *)
HeadBounded == Len(readq) <= MaxHead + MaxInbox

(* Nothing is written after FIN, on any path: once the socket is shut down *)
(* the connection only lingers, closes and is freed.                       *)
FinIsFinal == fin_sent => state \in {"CLOSE", "ERROR", "CONNECT"} /\ ~Pending

(* The timer gives the connection up.                                      *)
GivenUp == DispatchTimer /\ pc' = "machine"

(* The timer is patient: it ends no connection that was read from within   *)
(* the limit, and none that lingers, with a client that may still be       *)
(* taking in its answer, before its time.  Stamps are of cur_ts, which is  *)
(* behind time() by up to MaxLag, or of time() itself, and are compared    *)
(* with a later cur_ts, so that much of the limit may be missing and no    *)
(* more (worker.cpp:155-168, connection.cpp:181, 256, 434).  A write may   *)
(* be ended sooner: see AwaitRoom, which leaves active_write_ts alone.     *)
TimerIsPatient ==
    [][GivenUp /\ state # "WRITE" =>
          quiet > Limit - MaxLag \/ (state = "CLOSE" /\ peer # "open")]_vars

(* A client from which nothing comes does not hold a connection that waits *)
(* for its request (worker.cpp:155-159).                                   *)
SilentReaderClosed ==
    (state = "READ" /\ inbox = <<>>) ~> (state # "READ" \/ inbox # <<>>)

(* A response that has been written to at least once gets done or given up *)
(* (worker.cpp:160-164).                                                   *)
StartedWriteEnds == (state = "WRITE" /\ write_idle # Never) ~> state # "WRITE"

(* What HttpSession sees of a connection.                                  *)
SessionPhase ==
    IF Closed THEN "gone"
    ELSE IF state \in {"WRITE", "RESPONSE_END"} THEN "responding"
    ELSE IF state \in {"ERROR", "CLOSE", "CONNECT"} THEN "lingering"
    ELSE "reading"

SessionOwed == IF state \in {"WRITE", "RESPONSE_END"} THEN mem_out + file_out ELSE 0

Session == INSTANCE HttpSession WITH
    MaxResponse <- MaxBody + 1, phase <- SessionPhase, owed <- SessionOwed

(* The connection is an HttpSession: requests are answered one by one,     *)
(* nothing is owed of one answer when the next request is awaited, and a   *)
(* connection that stops being served never starts again                   *)
(* (connection.cpp:158-378).                                               *)
ImplementsSession == Session!Spec

(* A connection that has stopped being served is released, whatever its    *)
(* client does or fails to do (connection.cpp:315-331, worker.cpp:165-168).*)
ImplementsFairSession == Session!FairSpec

-----------------------------------------------------------------------------
(* What the source says and the code does not do                           *)

(* connection.cpp:803-805: a write that fails for now (-1) is continued    *)
(* later; only a critical error closes the socket.                         *)
WouldBlockRetries == [][WritevWouldBlock => state' # "ERROR"]_vars

(* fdevents.cpp:117: an event handed out has a handler.                    *)
DispatchFindsHandler == pc # "aborted"
=============================================================================
