-------------------------------- MODULE Request --------------------------------
(***************************************************************************)
(* One request after the other on a connection, from the head to the head  *)
(* of its answer: http_reuqest_parse() (request.cpp) passes once over the  *)
(* head, http_request_handle() (response.cpp) looks for the target, and    *)
(* connection_write_response_head() announces what follows.                *)
(*                                                                         *)
(* A head is a sequence of tokens: the characters the parser looks for     *)
(* ("sp", "tab", "cr", "lf", "colon"), and words, which hold none of them. *)
(* One step of the parser takes one token, or a CR LF.  Positions are      *)
(* those of `head'; the code's index, offset and option_buf are one less.  *)
(*                                                                         *)
(* A method that is the empty text leaves a NULL pointer to strcmp(): the  *)
(* worker ends (phase "dead").                                             *)
(***************************************************************************)
EXTENDS Integers, FiniteSets, Sequences

CONSTANTS
    Heads           \* heads that clients send

(* What the read state hands over ends with the first empty line.          *)
EndsAt(h, i) == SubSeq(h, i - 3, i) = <<"cr", "lf", "cr", "lf">>

ASSUME HeadsAreComplete ==
    \A h \in Heads :
        /\ h \in Seq(STRING) /\ Len(h) >= 4
        /\ \A i \in 4 .. Len(h) : EndsAt(h, i) <=> i = Len(h)

VARIABLES
    support_http_1_1,   \* global_config
    head,               \* request_content
    index,              \* the next token
    phase,              \* read | line | options | handle | answer | answered | dead
    spaces,             \* where the spaces of the request line are
    http_version,       \* of the request: unset | 1.0 | 1.1
    is_key, key_at,     \* an option's name is being read; where it begins (offset)
    value_at,           \* where the option's value begins (option_buf)
    option,             \* connection_request.keep_alive: unset | keep-alive | close
    hostname,           \* there is one
    http_status, keep_alive,
    response            \* the lines of the response head that depend on the request

parserVars == <<index, spaces, is_key, key_at, value_at>>
requestVars == <<http_version, option, hostname>>
vars == <<support_http_1_1, head, phase, parserVars, requestVars, http_status, keep_alive,
          response>>

(* The keys of http_status_table: other statuses have no text.             *)
Statuses ==
    (100 .. 102) \cup (200 .. 207) \cup (300 .. 307) \cup (400 .. 417) \cup (422 .. 424)
        \cup {426} \cup (500 .. 505) \cup {507}

-----------------------------------------------------------------------------
(* Words                                                                   *)

(* The methods that http_get_request_method() finds and the parser takes.  *)
SupportedMethods == {"GET", "POST"}

(* strncasecmp() with sizeof("Connection"-1), which is 8: any name that    *)
(* begins with these eight letters.                                        *)
ConnectionNames == {"Connection", "connection", "Connecting"}

HostNames == {"Host", "hostess"}

(* What a value means for the connection: again the beginning decides.     *)
OptionOf(w) ==
    CASE w \in {"keep-alive", "Keep-Alive", "keep-alives"} -> {"keep-alive"}
      [] w \in {"close", "closed"} -> {"close"}
      [] OTHER -> {}

(* What is HTTP/1.1 and HTTP/1.0 to strtol(), which takes each number with *)
(* a sign, leading zeros and blanks, and is cut to an int.                 *)
OneOne == {<<"HTTP/1.1">>, <<"HTTP/+1.01">>, <<"HTTP/4294967297.1">>, <<"HTTP/", "tab", "1.1">>}
OneZero == {<<"HTTP/1.0">>, <<"HTTP/1.-0">>, <<"HTTP/1.", "tab", "00">>}

(* major and minor number of "HTTP/<major>.<minor>", and nothing else.     *)
VersionOf(proto) ==
    CASE proto \in OneOne -> IF support_http_1_1 THEN {"1.1"} ELSE {"1.0"}
      [] proto \in OneZero -> {"1.0"}
      [] OTHER -> {}

-----------------------------------------------------------------------------
NoResponse == [status |-> 0, version |-> "none", connection |-> "none"]

Init ==
    /\ support_http_1_1 \in BOOLEAN
    /\ head = <<>> /\ index = 1 /\ phase = "read"
    /\ spaces = <<>> /\ is_key = TRUE /\ key_at = 1 /\ value_at = 1
    /\ http_version = "unset" /\ option = "unset" /\ hostname = FALSE
    /\ http_status = 0 /\ keep_alive = FALSE
    /\ response = NoResponse

(* A complete head has been read; what REQUEST_END resets is what the last *)
(* connection_reset() has reset already.                                   *)
RequestEnd ==
    /\ phase = "read"
    /\ head' \in Heads
    /\ phase' = "line" /\ index' = 1 /\ spaces' = <<>>
    /\ http_version' = "unset" /\ hostname' = FALSE /\ http_status' = 0
    /\ UNCHANGED <<support_http_1_1, is_key, key_at, value_at, option, keep_alive, response>>

(* The head is too long, connection.cpp:510.                               *)
HeadTooLong ==
    /\ phase = "read"
    /\ http_status' = 414 /\ keep_alive' = FALSE
    /\ phase' = "handle"
    /\ UNCHANGED <<support_http_1_1, head, parserVars, requestVars, response>>

-----------------------------------------------------------------------------
(* The request line                                                        *)

Token == head[index]

(* The next token is the first half of a CR LF (a head ends with one).     *)
AtCrLf == Token = "cr" /\ head[index + 1] = "lf"

InLine == phase = "line" /\ index <= Len(head)

Refuse(status) ==
    http_status' = status /\ phase' = "handle" /\ keep_alive' = FALSE

LineSpace ==
    /\ InLine /\ Token = "sp"
    /\ IF Len(spaces) < 2
       THEN /\ spaces' = Append(spaces, index) /\ index' = index + 1
            /\ UNCHANGED <<phase, http_status, keep_alive>>
       ELSE Refuse(400) /\ UNCHANGED <<index, spaces>>
    /\ UNCHANGED <<support_http_1_1, head, is_key, key_at, value_at, requestVars, response>>

LineOther ==
    /\ InLine /\ Token # "sp" /\ ~AtCrLf
    /\ index' = index + 1
    /\ UNCHANGED <<support_http_1_1, head, phase, spaces, is_key, key_at, value_at,
                   requestVars, http_status, keep_alive, response>>

Method == SubSeq(head, 1, spaces[1] - 1)
Proto  == SubSeq(head, spaces[2] + 1, index - 1)

(* The line is refused, or the options are read; the test for an empty url *)
(* (request.cpp:210) finds none, since a copy of the empty text counts its *)
(* NUL.                                                                    *)
LineEnd ==
    /\ InLine /\ AtCrLf
    /\ \/ /\ Len(spaces) # 2
          /\ Refuse(400) /\ UNCHANGED <<index, is_key, key_at, http_version>>
       \/ /\ Len(spaces) = 2 /\ Method = <<>>
          /\ phase' = "dead"
          /\ UNCHANGED <<index, is_key, key_at, http_version, http_status, keep_alive>>
       \/ /\ Len(spaces) = 2 /\ Method # <<>>
          /\ \A m \in SupportedMethods : Method # <<m>>
          /\ Refuse(501) /\ UNCHANGED <<index, is_key, key_at, http_version>>
       \/ /\ Len(spaces) = 2 /\ \E m \in SupportedMethods : Method = <<m>>
          /\ VersionOf(Proto) = {}
          /\ Refuse(400) /\ UNCHANGED <<index, is_key, key_at, http_version>>
       \/ /\ Len(spaces) = 2 /\ \E m \in SupportedMethods : Method = <<m>>
          /\ http_version' \in VersionOf(Proto)
          /\ phase' = "options" /\ is_key' = TRUE
          /\ index' = index + 2 /\ key_at' = index + 2
          /\ UNCHANGED <<http_status, keep_alive>>
    /\ UNCHANGED <<support_http_1_1, head, spaces, value_at, option, hostname, response>>

-----------------------------------------------------------------------------
(* The options                                                             *)

InOptions == phase = "options" /\ index <= Len(head)

(* Up to the first colon everything is the name, the ends of lines without *)
(* a colon included.                                                       *)
ReadKey ==
    /\ InOptions /\ is_key
    /\ IF Token = "colon" THEN is_key' = FALSE /\ value_at' = index + 1
                          ELSE UNCHANGED <<is_key, value_at>>
    /\ index' = index + 1
    /\ UNCHANGED <<support_http_1_1, head, phase, spaces, key_at, requestVars, http_status,
                   keep_alive, response>>

(* Blanks in front of the value are passed over.                           *)
ReadValue ==
    /\ InOptions /\ ~is_key /\ Token # "cr"
    /\ value_at' = IF Token \in {"sp", "tab"} /\ value_at = index THEN index + 1 ELSE value_at
    /\ index' = index + 1
    /\ UNCHANGED <<support_http_1_1, head, phase, spaces, is_key, key_at, requestVars,
                   http_status, keep_alive, response>>

StrayCr ==
    /\ InOptions /\ ~is_key /\ Token = "cr" /\ ~AtCrLf
    /\ Refuse(400)
    /\ UNCHANGED <<support_http_1_1, head, parserVars, requestVars, response>>

(* The last one decides; one that says neither changes nothing.            *)
LastOption(new) == IF new = {} THEN {option} ELSE new

(* The end of an option; one whose value is empty is ignored, and so is    *)
(* any other than Connection and Host (Range is stored and never read).    *)
ValueEnd ==
    /\ InOptions /\ ~is_key /\ AtCrLf
    /\ IF value_at < index /\ head[key_at] \in ConnectionNames
       THEN option' \in LastOption(OptionOf(head[value_at]))
       ELSE UNCHANGED option
    /\ hostname' = (hostname \/ (value_at < index /\ head[key_at] \in HostNames))
    /\ is_key' = TRUE /\ index' = index + 2 /\ key_at' = index + 2
    /\ UNCHANGED <<support_http_1_1, head, phase, spaces, value_at, http_version, http_status,
                   keep_alive, response>>

(* MUTANT keep_alive stays as the options have decided it. *)
KeptByOption == IF http_version = "1.1" THEN option # "close" ELSE option = "keep-alive"

(* By the option or the version, and not when the request is refused.      *)
Kept == IF http_version = "1.1" THEN option # "close" /\ hostname ELSE option = "keep-alive"

(* All is read: keep_alive is decided, and a host demanded by HTTP/1.1.    *)
ParseEnd ==
    /\ phase = "options" /\ index > Len(head)
    /\ keep_alive' = Kept
    /\ http_status' = IF http_version = "1.1" /\ ~hostname THEN 400 ELSE http_status
    /\ phase' = "handle"
    /\ UNCHANGED <<support_http_1_1, head, parserVars, requestVars, response>>

-----------------------------------------------------------------------------
(* The answer                                                              *)

(* MUTANT errno is taken for the status. *)
FoundErrno == {13, 404, 500, 200}

(* stat() fails with EACCES, ENOENT or another error; or the target is a   *)
(* file or directory, or neither.                                          *)
Found == {403, 404, 500, 200}

(* A request that is refused already is passed over.                       *)
HandleRequest ==
    /\ phase = "handle"
    /\ IF http_status \notin {0, 200} THEN UNCHANGED http_status ELSE http_status' \in Found
    /\ phase' = "answer"
    /\ UNCHANGED <<support_http_1_1, head, parserVars, requestVars, keep_alive, response>>

(* MUTANT HTTP/1.1 never says "Connection: close". *)
ConnectionLineOld ==
    IF http_version = "1.1" THEN "none" ELSE IF keep_alive THEN "keep-alive" ELSE "close"

ConnectionLine ==
    IF http_version = "1.1" /\ keep_alive THEN "none"
    ELSE IF keep_alive THEN "keep-alive" ELSE "close"

(* What no handler has decided would be forbidden.                         *)
ResponseStart ==
    /\ phase = "answer"
    /\ http_status' = IF http_status = 0 THEN 403 ELSE http_status
    /\ response' = [status     |-> http_status',
                    version    |-> IF http_version = "1.1" THEN "1.1" ELSE "1.0",
                    connection |-> ConnectionLine]
    /\ phase' = "answered"
    /\ UNCHANGED <<support_http_1_1, head, parserVars, requestVars, keep_alive>>

(* MUTANT request_reset() forgets the Connection option. *)
OptionKept == option

OptionReset == "unset"

(* connection_reset() behind the response of a kept-alive connection.      *)
NextRequest ==
    /\ phase = "answered" /\ keep_alive
    /\ phase' = "read" /\ head' = <<>> /\ response' = NoResponse
    /\ http_version' = "unset" /\ option' = OptionReset /\ hostname' = FALSE
    /\ http_status' = 0 /\ keep_alive' = FALSE
    /\ index' = 1 /\ spaces' = <<>> /\ is_key' = TRUE /\ key_at' = 1 /\ value_at' = 1
    /\ UNCHANGED support_http_1_1

Next ==
    \/ RequestEnd \/ HeadTooLong
    \/ LineSpace \/ LineOther \/ LineEnd
    \/ ReadKey \/ ReadValue \/ StrayCr \/ ValueEnd \/ ParseEnd
    \/ HandleRequest \/ ResponseStart \/ NextRequest

Spec == Init /\ [][Next]_vars

-----------------------------------------------------------------------------
(* Properties                                                              *)

Phases == {"read", "line", "options", "handle", "answer", "answered", "dead"}

Responses == [status : Statuses \cup {0}, version : {"none", "1.0", "1.1"},
              connection : {"none", "keep-alive", "close"}]

(* No index passes the end of the head, no more than two spaces are noted, *)
(* and every status that is decided has its text, as connection.cpp:558    *)
(* and 605 assert.                                                         *)
TypeOK ==
    /\ support_http_1_1 \in BOOLEAN
    /\ index \in 1 .. Len(head) + 1 /\ phase \in Phases
    /\ spaces \in Seq(Nat) /\ Len(spaces) <= 2
    /\ http_version \in {"unset", "1.0", "1.1"}
    /\ is_key \in BOOLEAN /\ key_at \in Nat /\ value_at \in Nat
    /\ option \in {"unset", "keep-alive", "close"} /\ hostname \in BOOLEAN
    /\ http_status \in Statuses \cup {0} /\ keep_alive \in BOOLEAN
    /\ response \in Responses /\ (phase = "answered" => response.status \in Statuses)

(* Wherever a head is refused, in its request line, its options or for its *)
(* length, and whatever options were read before, the connection will be   *)
(* closed behind the answer: what Connection takes for granted of          *)
(* ParseRequest (request.cpp:78-318, connection.cpp:514).                  *)
RefusalCloses == http_status \in {400, 414, 501} => ~keep_alive

(* What a client makes of the status line and the Connection line is what  *)
(* the server does behind the response: it keeps the connection or closes  *)
(* it (connection.cpp:598-618).                                            *)
ClientAgrees ==
    phase = "answered" =>
        (keep_alive <=> IF response.version = "1.1" THEN response.connection # "close"
                                                    ELSE response.connection = "keep-alive")

-----------------------------------------------------------------------------
(* A head by its lines                                                     *)

LineBreaks == {i \in 1 .. Len(head) - 1 : head[i] = "cr" /\ head[i + 1] = "lf"}

Adjacent(i, j) == i < j /\ \A k \in LineBreaks : ~(i < k /\ k < j)

(* The positions of each line, but for the empty one at the end.           *)
Lines ==
    {p[1] + 2 .. p[2] - 1 : p \in {q \in ({-1} \cup LineBreaks) \X LineBreaks :
                                       Adjacent(q[1], q[2])}} \ {{}}

First(S) == CHOOSE i \in S : \A j \in S : i <= j
Final(S) == CHOOSE i \in S : \A j \in S : j <= i

RequestLine == {i \in 1 .. Len(head) : \A b \in LineBreaks : i < b}
OptionLines == Lines \ {RequestLine}

Spaces == {i \in RequestLine : head[i] = "sp"}
Colons(line) == {i \in line : head[i] = "colon"}
Behind(line) == {i \in line : i > First(Colons(line))}

(* The value of an option without the blanks in front.                     *)
Value(line) ==
    {i \in Behind(line) :
        \E j \in Behind(line) : j <= i /\ head[j] \notin {"sp", "tab"}}

Named(names) == {line \in OptionLines : head[First(line)] \in names /\ Value(line) # {}}

(* The values of the Connection options that say something, by position.   *)
Said == {i \in {First(Value(line)) : line \in Named(ConnectionNames)} : OptionOf(head[i]) # {}}

WhatIsSaid == IF Said = {} THEN {"unset"} ELSE OptionOf(head[Final(Said)])

Version == VersionOf(SubSeq(head, Final(Spaces) + 1, Final(RequestLine)))

LineVerdict ==
    IF Cardinality(Spaces) # 2 THEN 400
    ELSE IF SubSeq(head, 1, First(Spaces) - 1) \notin {<<m>> : m \in SupportedMethods} THEN 501
    ELSE IF Version = {} THEN 400 ELSE 0

OptionVerdict ==
    IF \/ \E line \in OptionLines : \E i \in Behind(line) : head[i] = "cr"
       \/ Version = {"1.1"} /\ Named(HostNames) = {}
    THEN 400 ELSE 0

Verdict == IF LineVerdict # 0 THEN LineVerdict ELSE OptionVerdict

Persistent == IF Version = {"1.1"} THEN WhatIsSaid # {"close"} ELSE WhatIsSaid = {"keep-alive"}

(* One pass over the head decides what its lines say: a request line with  *)
(* two spaces, a supported method and version; no stray CR in a value; a   *)
(* Host with HTTP/1.1; and the last Connection option that says something, *)
(* or else the version, decides whether the connection is kept, nothing of *)
(* an earlier request.  This is for heads whose option lines all have a    *)
(* colon: a line without one is not refused, but taken for the beginning   *)
(* of the name in the next line, whose option is lost (request.cpp:62-321).*)
DecisionAsLines ==
    phase = "handle" /\ http_status # 414 /\ (\A line \in OptionLines : Colons(line) # {}) =>
        http_status = Verdict /\ (keep_alive <=> Verdict = 0 /\ Persistent)
===============================================================================
