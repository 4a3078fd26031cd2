----------------------------- MODULE RequestProofs -----------------------------
(***************************************************************************)
(* Theorems about Request, for every set of complete heads.  The first     *)
(* part is about types and the answer; the second follows the parser along *)
(* the lines of a head, and shows that it decides what they say.           *)
(***************************************************************************)
EXTENDS Request, SequenceLemmas, FiniteSetTheorems

(* The parser runs on a head that was handed over; until it decides, no    *)
(* status is set and the connection is not kept.                           *)
Parsing ==
    /\ head \in Heads \cup {<<>>}
    /\ phase \in {"line", "options"} => head \in Heads
    /\ phase \in {"read", "line", "options"} => http_status = 0 /\ ~keep_alive

IInv == TypeOK /\ Parsing /\ RefusalCloses /\ ClientAgrees

-----------------------------------------------------------------------------
(* A head is a text that does not end with a CR.                           *)
LEMMA HeadEnds ==
    ASSUME NEW h \in Heads
    PROVE  h \in Seq(STRING) /\ Len(h) \in Nat /\ Len(h) >= 4 /\ h[Len(h)] = "lf"
<1>1. h \in Seq(STRING) /\ Len(h) >= 4 /\ Len(h) \in Nat
  BY HeadsAreComplete
<1>2. EndsAt(h, Len(h))
  BY <1>1, HeadsAreComplete
<1>3. SubSeq(h, Len(h) - 3, Len(h))[4] = h[Len(h)]
  BY <1>1
<1>4. SubSeq(h, Len(h) - 3, Len(h)) = <<"cr", "lf", "cr", "lf">>
  BY <1>2 DEF EndsAt
<1>5. <<"cr", "lf", "cr", "lf">>[4] = "lf"
  OBVIOUS
<1> QED BY <1>1, <1>3, <1>4, <1>5

(* A CR LF that begins within a head ends within it.                       *)
LEMMA CrLfInside ==
    ASSUME head \in Heads, index \in 1 .. Len(head), AtCrLf
    PROVE  index + 2 \in 1 .. Len(head) + 1
<1>1. Len(head) \in Nat /\ head[Len(head)] = "lf"
  BY HeadEnds
<1>2. index # Len(head)
  BY <1>1 DEF AtCrLf, Token
<1> QED BY <1>1, <1>2

(* The inductive invariant holds initially and is kept by every step.      *)
LEMMA Initially == Init => IInv
<1> SUFFICES ASSUME Init PROVE IInv OBVIOUS
<1>1. index \in 1 .. Len(head) + 1 /\ spaces \in Seq(Nat) /\ Len(spaces) <= 2
  BY DEF Init
<1>2. response \in Responses
  BY DEF Init, NoResponse, Responses
<1>3. TypeOK
  BY <1>1, <1>2 DEF Init, TypeOK, Phases
<1>4. Parsing /\ RefusalCloses /\ ClientAgrees
  BY DEF Init, Parsing, RefusalCloses, ClientAgrees
<1> QED BY <1>3, <1>4 DEF IInv

(* Every step keeps the types, and what a refusal and a client rely on.    *)
LEMMA Inductive == IInv /\ [Next]_vars => IInv'
<1> SUFFICES ASSUME IInv, [Next]_vars PROVE IInv' OBVIOUS
<1> USE DEF IInv, TypeOK, Parsing, RefusalCloses, ClientAgrees, Phases, Responses
<1>h. Len(<<>>) = 0 /\ \A h \in Heads : Len(h) \in Nat
  BY HeadEnds
<1>s. {0, 200, 400, 403, 404, 414, 500, 501} \subseteq Statuses \cup {0}
  BY DEF Statuses
<1>1. CASE RequestEnd
  <2>1. TypeOK'
    <3>1. keep_alive' \in BOOLEAN /\ is_key' \in BOOLEAN
      BY <1>1 DEF RequestEnd
    <3>2. http_status' \in Statuses \cup {0}
      BY <1>1, <1>s DEF RequestEnd
    <3>3. index' \in 1 .. Len(head') + 1 /\ spaces' \in Seq(Nat) /\ Len(spaces') <= 2
      BY <1>1, <1>h DEF RequestEnd
    <3> QED BY <1>1, <3>1, <3>2, <3>3 DEF RequestEnd
  <2>2. Parsing'
    BY <1>1, SMT DEF RequestEnd
  <2>3. RefusalCloses' /\ ClientAgrees'
    BY <1>1, SMT DEF RequestEnd
  <2> QED BY <2>1, <2>2, <2>3 DEF IInv
<1>2. CASE HeadTooLong
  <2>1. TypeOK'
    <3>1. keep_alive' \in BOOLEAN /\ is_key' \in BOOLEAN
      BY <1>2 DEF HeadTooLong, parserVars, requestVars
    <3>2. http_status' \in Statuses \cup {0}
      BY <1>2, <1>s DEF HeadTooLong, parserVars, requestVars
    <3> QED BY <1>2, <3>1, <3>2, <1>h, SMT DEF HeadTooLong, parserVars, requestVars
  <2>2. Parsing'
    BY <1>2, SMT DEF HeadTooLong, parserVars, requestVars
  <2>3. RefusalCloses' /\ ClientAgrees'
    BY <1>2, SMT DEF HeadTooLong, parserVars, requestVars
  <2> QED BY <2>1, <2>2, <2>3 DEF IInv
<1>3. CASE LineSpace
  <2>1. TypeOK'
    <3>1. keep_alive' \in BOOLEAN /\ is_key' \in BOOLEAN
      BY <1>3 DEF LineSpace, InLine, Refuse, requestVars
    <3>2. http_status' \in Statuses \cup {0}
      BY <1>3, <1>s DEF LineSpace, InLine, Refuse, requestVars
    <3> QED BY <1>3, <3>1, <3>2, <1>h, SMT DEF LineSpace, InLine, Refuse, requestVars
  <2>2. Parsing'
    BY <1>3, SMT DEF LineSpace, InLine, Refuse, requestVars
  <2>3. RefusalCloses' /\ ClientAgrees'
    BY <1>3, SMT DEF LineSpace, InLine, Refuse, requestVars
  <2> QED BY <2>1, <2>2, <2>3 DEF IInv
<1>4. CASE LineOther
  <2>1. TypeOK'
    <3>1. keep_alive' \in BOOLEAN /\ is_key' \in BOOLEAN
      BY <1>4 DEF LineOther, InLine, requestVars
    <3>2. http_status' \in Statuses \cup {0}
      BY <1>4, <1>s DEF LineOther, InLine, requestVars
    <3> QED BY <1>4, <3>1, <3>2, <1>h, SMT DEF LineOther, InLine, requestVars
  <2>2. Parsing'
    BY <1>4, SMT DEF LineOther, InLine, requestVars
  <2>3. RefusalCloses' /\ ClientAgrees'
    BY <1>4, SMT DEF LineOther, InLine, requestVars
  <2> QED BY <2>1, <2>2, <2>3 DEF IInv
<1>5. CASE LineEnd
  <2>1. index + 2 \in 1 .. Len(head) + 1
    BY <1>5, <1>h, CrLfInside DEF LineEnd, InLine
  <2>2. http_version' \in {"unset", "1.0", "1.1"}
    BY <1>5 DEF LineEnd, VersionOf
  <2>3. TypeOK'
    <3>1. keep_alive' \in BOOLEAN /\ is_key' \in BOOLEAN
      BY <1>5 DEF LineEnd, InLine, Refuse
    <3>2. http_status' \in Statuses \cup {0}
      BY <1>5, <1>s DEF LineEnd, InLine, Refuse
    <3> QED BY <1>5, <3>1, <3>2, <2>1, <2>2, <1>h, SMT DEF LineEnd, InLine, Refuse
  <2>4. Parsing'
    BY <1>5, SMT DEF LineEnd, InLine, Refuse
  <2>5. RefusalCloses' /\ ClientAgrees'
    BY <1>5, SMT DEF LineEnd, InLine, Refuse
  <2> QED BY <2>3, <2>4, <2>5 DEF IInv
<1>6. CASE ReadKey
  <2>1. TypeOK'
    <3>1. keep_alive' \in BOOLEAN /\ is_key' \in BOOLEAN
      BY <1>6 DEF ReadKey, InOptions, requestVars
    <3>2. http_status' \in Statuses \cup {0}
      BY <1>6, <1>s DEF ReadKey, InOptions, requestVars
    <3>3. index' \in 1 .. Len(head') + 1 /\ index + 1 \in Nat
      BY <1>6, <1>h DEF ReadKey, InOptions
    <3>4. value_at' \in Nat
      BY <1>6, <3>3 DEF ReadKey
    <3> QED BY <1>6, <3>1, <3>2, <3>3, <3>4 DEF ReadKey, InOptions, requestVars
  <2>2. Parsing'
    BY <1>6, SMT DEF ReadKey, InOptions, requestVars
  <2>3. RefusalCloses' /\ ClientAgrees'
    BY <1>6, SMT DEF ReadKey, InOptions, requestVars
  <2> QED BY <2>1, <2>2, <2>3 DEF IInv
<1>7. CASE ReadValue
  <2>1. TypeOK'
    <3>1. keep_alive' \in BOOLEAN /\ is_key' \in BOOLEAN
      BY <1>7 DEF ReadValue, InOptions, requestVars
    <3>2. http_status' \in Statuses \cup {0}
      BY <1>7, <1>s DEF ReadValue, InOptions, requestVars
    <3> QED BY <1>7, <3>1, <3>2, <1>h, SMT DEF ReadValue, InOptions, requestVars
  <2>2. Parsing'
    BY <1>7, SMT DEF ReadValue, InOptions, requestVars
  <2>3. RefusalCloses' /\ ClientAgrees'
    BY <1>7, SMT DEF ReadValue, InOptions, requestVars
  <2> QED BY <2>1, <2>2, <2>3 DEF IInv
<1>8. CASE StrayCr
  <2>1. TypeOK'
    <3>1. keep_alive' \in BOOLEAN /\ is_key' \in BOOLEAN
      BY <1>8 DEF StrayCr, InOptions, Refuse, parserVars, requestVars
    <3>2. http_status' \in Statuses \cup {0}
      BY <1>8, <1>s DEF StrayCr, InOptions, Refuse, parserVars, requestVars
    <3> QED BY <1>8, <3>1, <3>2, <1>h, SMT DEF StrayCr, InOptions, Refuse, parserVars, requestVars
  <2>2. Parsing'
    BY <1>8, SMT DEF StrayCr, InOptions, Refuse, parserVars, requestVars
  <2>3. RefusalCloses' /\ ClientAgrees'
    BY <1>8, SMT DEF StrayCr, InOptions, Refuse, parserVars, requestVars
  <2> QED BY <2>1, <2>2, <2>3 DEF IInv
<1>9. CASE ValueEnd
  <2>1. index + 2 \in 1 .. Len(head) + 1
    BY <1>9, <1>h, CrLfInside DEF ValueEnd, InOptions
  <2>2. option' \in {"unset", "keep-alive", "close"}
    BY <1>9 DEF ValueEnd, LastOption, OptionOf
  <2>3. TypeOK'
    <3>1. keep_alive' \in BOOLEAN /\ is_key' \in BOOLEAN
      BY <1>9 DEF ValueEnd, InOptions
    <3>2. http_status' \in Statuses \cup {0}
      BY <1>9, <1>s DEF ValueEnd, InOptions
    <3> QED BY <1>9, <3>1, <3>2, <2>1, <2>2, <1>h, SMT DEF ValueEnd, InOptions
  <2>4. Parsing'
    BY <1>9, SMT DEF ValueEnd, InOptions
  <2>5. RefusalCloses' /\ ClientAgrees'
    BY <1>9, SMT DEF ValueEnd, InOptions
  <2> QED BY <2>3, <2>4, <2>5 DEF IInv
<1>10. CASE ParseEnd
  <2>1. TypeOK'
    <3>1. keep_alive' \in BOOLEAN /\ is_key' \in BOOLEAN
      BY <1>10 DEF ParseEnd, Kept, parserVars, requestVars
    <3>2. http_status' \in Statuses \cup {0}
      BY <1>10, <1>s DEF ParseEnd, Kept, parserVars, requestVars
    <3> QED BY <1>10, <3>1, <3>2, <1>h, SMT DEF ParseEnd, Kept, parserVars, requestVars
  <2>2. Parsing'
    BY <1>10, SMT DEF ParseEnd, Kept, parserVars, requestVars
  <2>3. RefusalCloses' /\ ClientAgrees'
    BY <1>10, SMT DEF ParseEnd, Kept, parserVars, requestVars
  <2> QED BY <2>1, <2>2, <2>3 DEF IInv
<1>11. CASE HandleRequest
  <2>1. TypeOK'
    <3>1. keep_alive' \in BOOLEAN /\ is_key' \in BOOLEAN
      BY <1>11 DEF HandleRequest, Found, parserVars, requestVars
    <3>2. http_status' \in Statuses \cup {0}
      BY <1>11, <1>s DEF HandleRequest, Found, parserVars, requestVars
    <3> QED BY <1>11, <3>1, <3>2, <1>h, SMT DEF HandleRequest, Found, parserVars, requestVars
  <2>2. Parsing'
    BY <1>11, SMT DEF HandleRequest, Found, parserVars, requestVars
  <2>3. RefusalCloses' /\ ClientAgrees'
    BY <1>11, SMT DEF HandleRequest, Found, parserVars, requestVars
  <2> QED BY <2>1, <2>2, <2>3 DEF IInv
<1>12. CASE ResponseStart
  <2>1. TypeOK'
    <3>1. keep_alive' \in BOOLEAN /\ is_key' \in BOOLEAN
      BY <1>12 DEF ResponseStart, ConnectionLine, parserVars, requestVars
    <3>2. http_status' \in Statuses \cup {0}
      BY <1>12, <1>s DEF ResponseStart, ConnectionLine, parserVars, requestVars
    <3> QED BY <1>12, <3>1, <3>2, <1>h, SMT
            DEF ResponseStart, ConnectionLine, parserVars, requestVars
  <2>2. Parsing'
    BY <1>12, SMT DEF ResponseStart, ConnectionLine, parserVars, requestVars
  <2>3. RefusalCloses' /\ ClientAgrees'
    BY <1>12, SMT DEF ResponseStart, ConnectionLine, parserVars, requestVars
  <2> QED BY <2>1, <2>2, <2>3 DEF IInv
<1>13. CASE NextRequest
  <2>1. TypeOK'
    <3>1. keep_alive' \in BOOLEAN /\ is_key' \in BOOLEAN
      BY <1>13 DEF NextRequest, OptionReset, NoResponse
    <3>2. http_status' \in Statuses \cup {0}
      BY <1>13, <1>s DEF NextRequest, OptionReset, NoResponse
    <3>3. index' \in 1 .. Len(head') + 1 /\ spaces' \in Seq(Nat) /\ Len(spaces') <= 2
      BY <1>13, <1>h DEF NextRequest
    <3>4. response' \in Responses /\ phase' = "read"
      BY <1>13 DEF NextRequest, NoResponse
    <3>5. option' = "unset" /\ hostname' \in BOOLEAN /\ http_version' = "unset"
      BY <1>13 DEF NextRequest, OptionReset
    <3>6. key_at' \in Nat /\ value_at' \in Nat /\ support_http_1_1' \in BOOLEAN
      BY <1>13 DEF NextRequest
    <3> QED BY <3>1, <3>2, <3>3, <3>4, <3>5, <3>6
  <2>2. Parsing'
    BY <1>13, SMT DEF NextRequest, OptionReset, NoResponse
  <2>3. RefusalCloses' /\ ClientAgrees'
    BY <1>13, SMT DEF NextRequest, OptionReset, NoResponse
  <2> QED BY <2>1, <2>2, <2>3 DEF IInv
<1>14. CASE UNCHANGED vars
  <2>1. TypeOK'
    <3>1. keep_alive' \in BOOLEAN /\ is_key' \in BOOLEAN
      BY <1>14 DEF vars, parserVars, requestVars
    <3>2. http_status' \in Statuses \cup {0}
      BY <1>14, <1>s DEF vars, parserVars, requestVars
    <3> QED BY <1>14, <3>1, <3>2, <1>h, SMT DEF vars, parserVars, requestVars
  <2>2. Parsing'
    BY <1>14, SMT DEF vars, parserVars, requestVars
  <2>3. RefusalCloses' /\ ClientAgrees'
    BY <1>14, SMT DEF vars, parserVars, requestVars
  <2> QED BY <2>1, <2>2, <2>3 DEF IInv
<1> QED
  BY <1>1, <1>2, <1>3, <1>4, <1>5, <1>6, <1>7, <1>8, <1>9, <1>10, <1>11, <1>12, <1>13,
     <1>14 DEF Next

(* Everything the parser and the answer keep has its type; in particular   *)
(* no index passes the end of a head, and every status has its text.       *)
THEOREM TypeCorrect == Spec => []TypeOK
<1>1. IInv => TypeOK BY DEF IInv
<1> QED BY Initially, Inductive, <1>1, PTL DEF Spec

(* Whatever head is refused, for whatever reason, the connection closes.   *)
THEOREM RefusalsClose == Spec => []RefusalCloses
<1>1. IInv => RefusalCloses BY DEF IInv
<1> QED BY Initially, Inductive, <1>1, PTL DEF Spec

(* The lines of every response head say what the server does next.         *)
THEOREM ClientsAgree == Spec => []ClientAgrees
<1>1. IInv => ClientAgrees BY DEF IInv
<1> QED BY Initially, Inductive, <1>1, PTL DEF Spec

-----------------------------------------------------------------------------
(* What the parser has read                                                *)

(* A line of the head but for its first: it begins behind one CR LF, ends  *)
(* with the next, and is not empty.                                        *)
Line(b, e) ==
    /\ b - 2 \in LineBreaks /\ e \in LineBreaks /\ b < e
    /\ \A k \in LineBreaks : k <= b - 2 \/ e <= k

ColonsInAll == \A line \in OptionLines : Colons(line) # {}

(* The request line up to the index, its spaces noted in order.            *)
LineRead ==
    /\ \A b \in LineBreaks : index <= b
    /\ \A i \in 1 .. index - 1 : head[i] = "sp" => \E k \in 1 .. Len(spaces) : spaces[k] = i
    /\ \A k \in 1 .. Len(spaces) : spaces[k] \in 1 .. index - 1 /\ head[spaces[k]] = "sp"
    /\ Len(spaces) = 2 => spaces[1] < spaces[2]

(* An option whose name, up to a colon at c, is read.                      *)
ValueRead(c) ==
    /\ c \in key_at .. index - 1 /\ head[c] = "colon"
    /\ \A i \in key_at .. c - 1 : head[i] # "colon"
    /\ value_at \in c + 1 .. index
    /\ \A i \in c + 1 .. value_at - 1 : head[i] \in {"sp", "tab"}
    /\ value_at < index => head[value_at] \notin {"sp", "tab"}
    /\ \A i \in c + 1 .. index - 1 : head[i] # "cr"

SaidBefore(k) == {i \in Said : i < k}

(* The options before position k are read, with that effect.               *)
OptionsUpTo(k, opt, host) ==
    /\ k - 2 \in LineBreaks /\ k < Len(head)
    /\ \A b, e \in 1 .. Len(head) :
          Line(b, e) /\ b < k => \A i \in Behind(b .. e - 1) : head[i] # "cr"
    /\ host <=> \E line \in Named(HostNames) : First(line) < k
    /\ {opt} = IF SaidBefore(k) = {} THEN {"unset"} ELSE OptionOf(head[Final(SaidBefore(k))])

(* The index is in the line that begins at key_at, or in the empty one.    *)
OptionsRead ==
    /\ OptionsUpTo(key_at, option, hostname) /\ key_at <= index
    /\ key_at = Len(head) - 1 \/ \A b \in LineBreaks : b < key_at \/ index <= b
    /\ IF is_key THEN \A i \in key_at .. index - 1 : head[i] # "colon"
                 ELSE \E c \in 1 .. Len(head) : ValueRead(c)

Reading ==
    /\ phase \in {"read", "line"} => option = "unset" /\ ~hostname
    /\ phase = "line" => LineRead
    /\ phase = "options" => LineVerdict = 0 /\ Version = {http_version}
    /\ phase = "options" /\ ColonsInAll => OptionsRead

(* What a head says is a matter of the head alone.                         *)
LEMMA Same ==
    ASSUME head' = head, support_http_1_1' = support_http_1_1
    PROVE  /\ Verdict' = Verdict /\ Persistent' = Persistent /\ ColonsInAll' = ColonsInAll
           /\ LineVerdict' = LineVerdict /\ Version' = Version
           /\ LineBreaks' = LineBreaks /\ Said' = Said
           /\ \A b, e : Line(b, e)' = Line(b, e)
           /\ \A names : Named(names)' = Named(names)
           /\ \A line : Behind(line)' = Behind(line)
<1>1. LineBreaks' = LineBreaks
  BY DEF LineBreaks
<1>2. \A b, e : Line(b, e)' = Line(b, e)
  BY <1>1 DEF Line
<1>3. RequestLine' = RequestLine
  BY <1>1 DEF RequestLine
<1>4. OptionLines' = OptionLines
  <2>1. \A i, j : Adjacent(i, j)' = Adjacent(i, j)
    BY <1>1 DEF Adjacent
  <2>2. Lines' = Lines
    BY <1>1, <2>1 DEF Lines
  <2> QED BY <2>2, <1>3 DEF OptionLines
<1>5. Spaces' = Spaces
  BY <1>3 DEF Spaces
<1>6. \A line : Colons(line)' = Colons(line)
  BY DEF Colons
<1>7. \A line : Behind(line)' = Behind(line)
  BY <1>6 DEF Behind
<1>8. \A line : Value(line)' = Value(line)
  BY <1>7 DEF Value
<1>9. \A names : Named(names)' = Named(names)
  BY <1>4, <1>8 DEF Named
<1>10. Said' = Said
  BY <1>8, <1>9 DEF Said
<1>11. WhatIsSaid' = WhatIsSaid
  BY <1>10 DEF WhatIsSaid
<1>12. \A proto : VersionOf(proto)' = VersionOf(proto)
  BY DEF VersionOf
<1>13. Version' = Version
  BY <1>3, <1>5, <1>12 DEF Version
<1>14. LineVerdict' = LineVerdict
  BY <1>5, <1>13 DEF LineVerdict
<1>15. OptionVerdict' = OptionVerdict
  BY <1>4, <1>7, <1>9, <1>13 DEF OptionVerdict
<1>16. Verdict' = Verdict /\ Persistent' = Persistent
  BY <1>11, <1>13, <1>14, <1>15 DEF Verdict, Persistent
<1>17. ColonsInAll' = ColonsInAll
  BY <1>4, <1>6 DEF ColonsInAll
<1> QED BY <1>1, <1>2, <1>7, <1>9, <1>10, <1>13, <1>14, <1>16, <1>17

-----------------------------------------------------------------------------
(* The lines of a head                                                     *)

(* A number of a set that no other is below is its first.                  *)
LEMMA FirstIs ==
    ASSUME NEW S \in SUBSET Int, NEW x \in S, \A j \in S : x <= j
    PROVE  First(S) = x
<1> DEFINE y == CHOOSE i \in S : \A j \in S : i <= j
<1>1. y \in S /\ \A j \in S : y <= j
  OBVIOUS
<1> HIDE DEF y
<1>2. y = x
  <2>1. y <= x /\ x <= y /\ x \in Int /\ y \in Int
    BY <1>1
  <2> QED BY <2>1
<1> QED BY <1>2 DEF First, y

(* And one that no other is above is its last.                             *)
LEMMA FinalIs ==
    ASSUME NEW S \in SUBSET Int, NEW x \in S, \A j \in S : j <= x
    PROVE  Final(S) = x
<1> DEFINE y == CHOOSE i \in S : \A j \in S : j <= i
<1>1. y \in S /\ \A j \in S : j <= y
  OBVIOUS
<1> HIDE DEF y
<1>2. y = x
  <2>1. y <= x /\ x <= y /\ x \in Int /\ y \in Int
    BY <1>1
  <2> QED BY <2>1
<1> QED BY <1>2 DEF Final, y

(* A set of positions that is not empty has a first one.                   *)
LEMMA HasFirst ==
    ASSUME NEW S \in SUBSET Nat, S # {}
    PROVE  First(S) \in S /\ \A j \in S : First(S) <= j
<1>1. \E x \in S : \A j \in S : x <= j
  BY Least
<1> QED BY <1>1 DEF First

(* A head ends with a line break and an empty line, and has no empty line  *)
(* elsewhere behind its first.                                             *)
LEMMA Breaks ==
    ASSUME head \in Heads
    PROVE  /\ head \in Seq(STRING) /\ Len(head) \in Nat /\ Len(head) >= 4
           /\ LineBreaks \in SUBSET Nat /\ \A i \in LineBreaks : i >= 1 /\ i <= Len(head) - 1
           /\ Len(head) - 1 \in LineBreaks /\ Len(head) - 3 \in LineBreaks
           /\ \A i \in LineBreaks : i + 1 \notin LineBreaks
           /\ \A i \in LineBreaks : i + 2 \in LineBreaks => i = Len(head) - 3
<1>1. head \in Seq(STRING) /\ Len(head) >= 4 /\ Len(head) \in Nat
  BY HeadsAreComplete
<1>2. ASSUME NEW i \in 4 .. Len(head)
      PROVE  EndsAt(head, i) <=> /\ head[i - 3] = "cr" /\ head[i - 2] = "lf"
                                 /\ head[i - 1] = "cr" /\ head[i] = "lf"
  <2> DEFINE s == SubSeq(head, i - 3, i)
             e == <<"cr", "lf", "cr", "lf">>
             T == STRING \cup {"cr", "lf"}
  <2>1. s \in Seq(T) /\ Len(s) = 4
    <3>1. head \in Seq(T)
      BY <1>1
    <3> HIDE DEF T
    <3> QED BY <1>1, <3>1
  <2>2. s[1] = head[i - 3] /\ s[2] = head[i - 2] /\ s[3] = head[i - 1] /\ s[4] = head[i]
    BY <1>1
  <2>3. e \in Seq(T) /\ Len(e) = 4 /\ e[1] = "cr" /\ e[2] = "lf" /\ e[3] = "cr" /\ e[4] = "lf"
    <3>1. e \in Seq(T)
      <4>1. "cr" \in T /\ "lf" \in T
        OBVIOUS
      <4> HIDE DEF T
      <4> QED BY <4>1
    <3>2. Len(e) = 4
      OBVIOUS
    <3>3. e[1] = "cr" /\ e[2] = "lf" /\ e[3] = "cr" /\ e[4] = "lf"
      OBVIOUS
    <3> QED BY <3>1, <3>2, <3>3
  <2> HIDE DEF s, e, T
  <2>4. s = e <=> \A k \in 1 .. 4 : s[k] = e[k]
    BY <2>1, <2>3, SeqEqual
  <2>5. s = e <=> s[1] = e[1] /\ s[2] = e[2] /\ s[3] = e[3] /\ s[4] = e[4]
    BY <2>4
  <2> QED BY <2>2, <2>3, <2>5 DEF EndsAt, s, e
<1>3. LineBreaks \in SUBSET Nat /\ \A i \in LineBreaks : i >= 1 /\ i <= Len(head) - 1
  BY <1>1 DEF LineBreaks
<1>4. EndsAt(head, Len(head)) /\ \A i \in 4 .. Len(head) : EndsAt(head, i) => i = Len(head)
  BY <1>1, HeadsAreComplete
<1>5. Len(head) - 1 \in LineBreaks /\ Len(head) - 3 \in LineBreaks
  BY <1>1, <1>2, <1>4 DEF LineBreaks
<1>6. ASSUME NEW i \in LineBreaks PROVE i + 1 \notin LineBreaks
  BY <1>1 DEF LineBreaks
<1>7. ASSUME NEW i \in LineBreaks, i + 2 \in LineBreaks PROVE i = Len(head) - 3
  <2>1. i + 3 \in 4 .. Len(head)
    BY <1>1, <1>3, <1>7
  <2>2. head[i] = "cr" /\ head[i + 1] = "lf" /\ head[i + 2] = "cr" /\ head[i + 3] = "lf"
    BY <1>1, <1>7 DEF LineBreaks
  <2>3. (i + 3) - 3 = i /\ (i + 3) - 2 = i + 1 /\ (i + 3) - 1 = i + 2
    BY <1>3
  <2>4. EndsAt(head, i + 3)
    BY <1>2, <2>1, <2>2, <2>3
  <2> QED BY <1>1, <1>3, <1>4, <2>1, <2>4
<1> QED BY <1>1, <1>3, <1>5, <1>6, <1>7

(* There is a next line break, up to the last one.                         *)
LEMMA NextBreak ==
    ASSUME head \in Heads, NEW i \in Int, i < Len(head) - 1
    PROVE  \E e \in LineBreaks : i < e /\ \A k \in LineBreaks : k <= i \/ e <= k
<1> DEFINE S == {k \in LineBreaks : i < k}
<1>1. S \in SUBSET Nat /\ Len(head) - 1 \in S
  BY Breaks
<1>2. PICK e \in S : \A k \in S : e <= k
  BY <1>1, Least
<1>3. ASSUME NEW k \in LineBreaks PROVE k <= i \/ e <= k
  <2>1. k \in Int
    BY Breaks
  <2> QED BY <1>2, <2>1
<1> QED BY <1>2, <1>3

(* The request line ends with the first line break.                        *)
LEMMA RequestLineIs ==
    ASSUME head \in Heads, NEW e \in LineBreaks, \A k \in LineBreaks : e <= k
    PROVE  RequestLine = 1 .. e - 1
<1>1. e \in Nat /\ e <= Len(head) - 1 /\ Len(head) \in Nat /\ LineBreaks \in SUBSET Nat
  BY Breaks
<1> QED BY <1>1 DEF RequestLine

(* The other lines begin behind one line break and end with the next.      *)
LEMMA LineBounds ==
    ASSUME head \in Heads, NEW b \in Int, NEW e, Line(b, e)
    PROVE  /\ b \in Nat /\ e \in Nat /\ b >= 3 /\ b < e /\ e <= Len(head) - 1
           /\ Len(head) \in Nat /\ b \in 1 .. Len(head) /\ e \in 1 .. Len(head)
<1>1. b - 2 >= 1 /\ e \in Nat /\ e <= Len(head) - 1 /\ Len(head) \in Nat /\ b < e
  BY Breaks DEF Line
<1> QED BY ONLY <1>1, b \in Int

(* The option lines are those, and no others.                              *)
LEMMA OptionLinesAre ==
    ASSUME head \in Heads, NEW line
    PROVE  line \in OptionLines <=>
               \E b, e \in 1 .. Len(head) : Line(b, e) /\ line = b .. e - 1
<1>1. ASSUME line \in OptionLines
      PROVE  \E b, e \in 1 .. Len(head) : Line(b, e) /\ line = b .. e - 1
  <2>1. PICK q \in ({-1} \cup LineBreaks) \X LineBreaks :
            Adjacent(q[1], q[2]) /\ line = q[1] + 2 .. q[2] - 1
    BY <1>1 DEF OptionLines, Lines
  <2>2. line # {} /\ line # RequestLine
    BY <1>1 DEF OptionLines, Lines
  <2> DEFINE a == q[1]
             e == q[2]
  <2>3. a \in {-1} \cup LineBreaks /\ e \in LineBreaks /\ Adjacent(a, e) /\ line = a + 2 .. e - 1
    BY <2>1
  <2> HIDE DEF a, e
  <2>4. a \in Int /\ e \in Int /\ LineBreaks \in SUBSET Nat
    BY <2>3, Breaks
  <2>5. a # -1
    <3> SUFFICES ASSUME a = -1 PROVE FALSE
      OBVIOUS
    <3>1. \A k \in LineBreaks : e <= k
      BY <2>3, <2>4 DEF Adjacent
    <3>2. RequestLine = 1 .. e - 1
      BY <2>3, <3>1, RequestLineIs
    <3> QED BY <2>2, <2>3, <3>2
  <2>6. a + 2 < e
    BY <2>2, <2>3, <2>4
  <2>7. \A k \in LineBreaks : k <= a \/ e <= k
    BY <2>3, <2>4 DEF Adjacent
  <2> DEFINE b == a + 2
  <2>8. b \in Int /\ b - 2 = a
    BY <2>4
  <2>9. Line(b, e)
    BY <2>3, <2>5, <2>6, <2>7, <2>8 DEF Line
  <2>10. line = b .. e - 1
    BY <2>3
  <2> HIDE DEF b
  <2>11. b \in 1 .. Len(head) /\ e \in 1 .. Len(head)
    BY <2>8, <2>9, LineBounds
  <2> QED BY <2>9, <2>10, <2>11
<1>2. ASSUME NEW b \in 1 .. Len(head), NEW e \in 1 .. Len(head), Line(b, e), line = b .. e - 1
      PROVE  line \in OptionLines
  <2>1. b \in Nat /\ e \in Nat /\ b < e /\ LineBreaks \in SUBSET Nat
    BY <1>2, LineBounds, Breaks
  <2>2. Adjacent(b - 2, e)
    BY <1>2, <2>1 DEF Adjacent, Line
  <2> DEFINE q == <<b - 2, e>>
  <2>3. q \in ({-1} \cup LineBreaks) \X LineBreaks /\ Adjacent(q[1], q[2])
    BY <1>2, <2>2 DEF Line
  <2>4. line = q[1] + 2 .. q[2] - 1
    BY <1>2, <2>1
  <2>5. b \in line
    BY <1>2, <2>1
  <2>6. b \notin RequestLine
    BY <1>2, <2>1 DEF RequestLine, Line
  <2> QED BY <2>3, <2>4, <2>5, <2>6 DEF OptionLines, Lines
<1> QED BY <1>1, <1>2

(* No two lines overlap: a line that begins before another ends before it. *)
LEMMA LinesApart ==
    ASSUME head \in Heads, NEW b \in Int, NEW e, Line(b, e), NEW k \in Int, k - 2 \in LineBreaks
    PROVE  b < k => e <= k - 2
<1>1. e \in Int /\ b \in Int
  BY LineBounds
<1>2. k - 2 <= b - 2 \/ e <= k - 2
  BY DEF Line
<1> QED BY <1>1, <1>2

(* The ends of a range of positions.                                       *)
LEMMA LineFirst ==
    ASSUME NEW b \in Int, NEW e \in Int, b < e
    PROVE  First(b .. e - 1) = b /\ Final(b .. e - 1) = e - 1
<1>1. b .. e - 1 \in SUBSET Int /\ b \in b .. e - 1 /\ e - 1 \in b .. e - 1
      /\ \A j \in b .. e - 1 : b <= j /\ j <= e - 1
  OBVIOUS
<1> QED BY <1>1, FirstIs, FinalIs

-----------------------------------------------------------------------------
(* What is said in a line                                                  *)

(* The value of a line begins in it.                                       *)
LEMMA ValueInLine ==
    ASSUME head \in Heads, NEW b \in Int, NEW e, Line(b, e), Value(b .. e - 1) # {}
    PROVE  First(Value(b .. e - 1)) \in b .. e - 1
<1>1. Value(b .. e - 1) \subseteq b .. e - 1
  BY DEF Value, Behind
<1>2. b .. e - 1 \subseteq Nat
  BY LineBounds
<1>3. First(Value(b .. e - 1)) \in Value(b .. e - 1)
  BY <1>1, <1>2, HasFirst
<1> QED BY <1>1, <1>3

(* The line from b to e says something about the connection at i.          *)
Says(b, e, i) ==
    /\ Line(b, e) /\ head[b] \in ConnectionNames /\ Value(b .. e - 1) # {}
    /\ i = First(Value(b .. e - 1)) /\ OptionOf(head[i]) # {}

(* What is said about the connection is said by a line.                    *)
LEMMA SaidIs ==
    ASSUME head \in Heads, NEW i
    PROVE  i \in Said <=> \E b, e \in 1 .. Len(head) : Says(b, e, i)
<1>1. ASSUME i \in Said PROVE \E b, e \in 1 .. Len(head) : Says(b, e, i)
  <2>1. PICK line \in Named(ConnectionNames) : i = First(Value(line)) /\ OptionOf(head[i]) # {}
    BY <1>1 DEF Said
  <2>2. line \in OptionLines /\ head[First(line)] \in ConnectionNames /\ Value(line) # {}
    BY <2>1 DEF Named
  <2>3. PICK b \in 1 .. Len(head), e \in 1 .. Len(head) : Line(b, e) /\ line = b .. e - 1
    BY <2>2, OptionLinesAre
  <2>4. First(line) = b
    BY <2>3, LineFirst, LineBounds
  <2> QED BY <2>1, <2>2, <2>3, <2>4 DEF Says
<1>2. ASSUME NEW b \in 1 .. Len(head), NEW e \in 1 .. Len(head), Says(b, e, i)
      PROVE  i \in Said
  <2> DEFINE line == b .. e - 1
  <2>1. line \in OptionLines
    BY <1>2, OptionLinesAre DEF Says
  <2>2. First(line) = b
    BY <1>2, LineFirst, LineBounds DEF Says
  <2>3. line \in Named(ConnectionNames)
    BY <1>2, <2>1, <2>2 DEF Named, Says
  <2> QED BY <1>2, <2>3 DEF Said, Says
<1> QED BY <1>1, <1>2

(* The lines of some name, up to a position.                               *)
LEMMA NamedIs ==
    ASSUME head \in Heads, NEW names, NEW k
    PROVE  (\E line \in Named(names) : First(line) < k) <=>
               \E b, e \in 1 .. Len(head) :
                   Line(b, e) /\ head[b] \in names /\ Value(b .. e - 1) # {} /\ b < k
<1>1. \A b, e \in 1 .. Len(head) : Line(b, e) => First(b .. e - 1) = b
  BY LineFirst, LineBounds
<1> QED BY <1>1, OptionLinesAre DEF Named

(* The value of the option whose end has been reached.                     *)
LEMMA ValueOfLine ==
    ASSUME head \in Heads, Line(key_at, index), key_at \in Nat, value_at \in Nat,
           NEW c, ValueRead(c)
    PROVE  /\ Behind(key_at .. index - 1) = c + 1 .. index - 1
           /\ Value(key_at .. index - 1) = value_at .. index - 1
           /\ value_at < index => First(Value(key_at .. index - 1)) = value_at
<1> DEFINE L == key_at .. index - 1
<1>1. key_at \in Nat /\ index \in Nat /\ key_at < index
  BY LineBounds
<1>2. c \in L /\ head[c] = "colon" /\ c \in Nat /\ value_at \in c + 1 .. index
  BY <1>1 DEF ValueRead
<1>3. First(Colons(L)) = c
  <2>1. Colons(L) \in SUBSET Int /\ c \in Colons(L)
    BY <1>1, <1>2 DEF Colons
  <2>2. \A j \in Colons(L) : c <= j
    BY <1>1, <1>2 DEF Colons, ValueRead
  <2> QED BY <2>1, <2>2, FirstIs
<1>4. Behind(L) = c + 1 .. index - 1
  BY <1>1, <1>2, <1>3 DEF Behind
<1>5. Value(L) = value_at .. index - 1
  <2> HIDE DEF L
  <2>1. ASSUME NEW i \in Value(L) PROVE i \in value_at .. index - 1
    <3>1. PICK j \in c + 1 .. index - 1 : j <= i /\ head[j] \notin {"sp", "tab"}
      BY <1>4 DEF Value
    <3>2. i \in c + 1 .. index - 1
      BY <1>4 DEF Value
    <3>3. ~(j \in c + 1 .. value_at - 1)
      BY <3>1 DEF ValueRead
    <3> QED BY <1>1, <1>2, <3>1, <3>2, <3>3
  <2>2. ASSUME NEW i \in value_at .. index - 1 PROVE i \in Value(L)
    <3>1. value_at < index /\ i \in c + 1 .. index - 1 /\ value_at \in c + 1 .. index - 1
          /\ value_at <= i
      BY <1>1, <1>2
    <3>2. head[value_at] \notin {"sp", "tab"}
      BY <3>1 DEF ValueRead
    <3> QED BY <1>4, <3>1, <3>2 DEF Value
  <2> QED BY <2>1, <2>2
<1>6. value_at < index => First(value_at .. index - 1) = value_at
  BY <1>1, LineFirst
<1> QED BY <1>4, <1>5, <1>6

-----------------------------------------------------------------------------
(* The request line                                                        *)

(* Two spaces at most are noted.                                           *)
LEMMA FewSpaces ==
    ASSUME NEW s \in Seq(Nat), Len(s) <= 2
    PROVE  Len(s) = 0 \/ Len(s) = 1 \/ Len(s) = 2
<1> DEFINE n == Len(s)
<1>1. n \in Nat /\ n <= 2
  OBVIOUS
<1> HIDE DEF n
<1>2. n = 0 \/ n = 1 \/ n = 2
  BY <1>1
<1> QED BY <1>2 DEF n

(* At the end of the line its spaces are those that were noted.            *)
LEMMA SpacesRead ==
    ASSUME head \in Heads, LineRead, index \in LineBreaks,
           spaces \in Seq(Nat), Len(spaces) <= 2
    PROVE  /\ Cardinality(Spaces) = Len(spaces)
           /\ Len(spaces) = 2 => /\ First(Spaces) = spaces[1] /\ Final(Spaces) = spaces[2]
                                 /\ Final(RequestLine) = index - 1
<1>1. RequestLine = 1 .. index - 1 /\ index \in Nat
  BY RequestLineIs, Breaks DEF LineRead
<1>2. Spaces = {spaces[k] : k \in 1 .. Len(spaces)}
  <2>1. \A i \in Spaces : \E k \in 1 .. Len(spaces) : spaces[k] = i
    BY <1>1 DEF Spaces, LineRead
  <2>2. \A k \in 1 .. Len(spaces) : spaces[k] \in Spaces
    BY <1>1 DEF Spaces, LineRead
  <2> QED BY <2>1, <2>2
<1>3. CASE Len(spaces) = 0
  <2>1. Spaces = {}
    BY <1>2, <1>3
  <2> QED BY <1>3, <2>1, FS_EmptySet
<1>4. CASE Len(spaces) = 1
  <2>1. Spaces = {spaces[1]}
    BY <1>2, <1>4
  <2>2. Cardinality(Spaces) = 1
    BY <2>1, FS_Singleton
  <2> QED BY <1>4, <2>2
<1>5. CASE Len(spaces) = 2
  <2> DEFINE x == spaces[1]
             y == spaces[2]
  <2>1. Spaces = {x} \cup {y}
    <3>1. 1 .. Len(spaces) = {1, 2}
      BY <1>5
    <3> QED BY <1>2, <3>1
  <2>2. x \in Nat /\ y \in Nat /\ x < y /\ x \in 1 .. index - 1
    BY <1>5 DEF LineRead
  <2> HIDE DEF x, y
  <2>3. IsFiniteSet({x}) /\ Cardinality({x}) = 1
    BY FS_Singleton
  <2>4. Cardinality(Spaces) = 2
    <3>1. y \notin {x}
      BY <2>2
    <3>2. Cardinality({x} \cup {y}) = Cardinality({x}) + 1
      BY <2>3, <3>1, FS_AddElement
    <3>3. Cardinality(Spaces) = Cardinality({x}) + 1
      BY ONLY <2>1, <3>2
    <3> QED BY ONLY <2>3, <3>3
  <2>5. First(Spaces) = x /\ Final(Spaces) = y
    <3>1. Spaces \in SUBSET Int /\ x \in Spaces /\ y \in Spaces
      BY <2>1, <2>2
    <3>2. \A j \in Spaces : x <= j /\ j <= y
      BY <2>1, <2>2
    <3> QED BY <3>1, <3>2, FirstIs, FinalIs
  <2>6. Final(RequestLine) = index - 1
    BY <1>1, <2>2, LineFirst
  <2> QED BY <1>5, <2>4, <2>5, <2>6 DEF x, y
<1>6. Len(spaces) = 0 \/ Len(spaces) = 1 \/ Len(spaces) = 2
  BY FewSpaces
<1> QED BY <1>3, <1>4, <1>5, <1>6

(* A third space is one too many, whatever follows it.                     *)
LEMMA ThirdSpace ==
    ASSUME head \in Heads, LineRead, index \in 1 .. Len(head), head[index] = "sp",
           spaces \in Seq(Nat), Len(spaces) = 2
    PROVE  Cardinality(Spaces) # 2
<1> DEFINE x == spaces[1]
           y == spaces[2]
           z == index
<1>1. x \in Nat /\ y \in Nat /\ z \in Nat /\ x < y /\ y < z /\ x >= 1
      /\ head[x] = "sp" /\ head[y] = "sp"
  BY DEF LineRead
<1>2. index \notin LineBreaks
  BY DEF LineBreaks
<1>3. \A b \in LineBreaks : index < b
  <2>1. LineBreaks \in SUBSET Nat
    BY Breaks
  <2> QED BY <1>1, <1>2, <2>1 DEF LineRead
<1>4. x \in Spaces /\ y \in Spaces /\ z \in Spaces
  <2>1. LineBreaks \in SUBSET Nat /\ Len(head) \in Nat
    BY Breaks
  <2> QED BY <1>1, <1>3, <2>1 DEF Spaces, RequestLine
<1> HIDE DEF x, y, z
<1>5. IsFiniteSet({x}) /\ Cardinality({x}) = 1
  BY FS_Singleton
<1> DEFINE S == {x} \cup {y}
           T == S \cup {z}
<1>n. y \notin {x} /\ z \notin S
  BY <1>1
<1>6. IsFiniteSet(S) /\ Cardinality(S) = Cardinality({x}) + 1
  BY <1>5, <1>n, FS_AddElement
<1> HIDE DEF S
<1>7. IsFiniteSet(T) /\ Cardinality(T) = Cardinality(S) + 1
  BY <1>6, <1>n, FS_AddElement
<1>a. Cardinality(T) = 3
  BY <1>5, <1>6, <1>7
<1>8. T \subseteq Spaces
  BY <1>4 DEF S
<1>9. IsFiniteSet(Spaces)
  <2>1. IsFiniteSet(1 .. Len(head))
    BY Breaks, FS_Interval
  <2>2. Spaces \subseteq 1 .. Len(head)
    BY DEF Spaces, RequestLine
  <2> QED BY <2>1, <2>2, FS_Subset
<1> HIDE DEF T
<1>10. Cardinality(T) <= Cardinality(Spaces)
  BY <1>8, <1>9, FS_Subset
<1> QED BY <1>a, <1>10

(* What decides, decides as the lines do.                                  *)
LEMMA Decided ==
    ASSUME head' = head, support_http_1_1' = support_http_1_1,
           ColonsInAll => http_status' = Verdict /\ (keep_alive' <=> Verdict = 0 /\ Persistent)
    PROVE  DecisionAsLines'
<1>1. Verdict' = Verdict /\ Persistent' = Persistent /\ ColonsInAll' = ColonsInAll
  BY Same
<1> QED BY <1>1 DEF DecisionAsLines, ColonsInAll

(* A space is noted, or is the third one and the head refused.             *)
LEMMA LineSpaceHolds ==
    ASSUME IInv, Reading, LineSpace
    PROVE  Reading' /\ DecisionAsLines'
<1> USE DEF LineSpace, InLine, Refuse, Token
<1>1. /\ head \in Heads /\ LineRead /\ option = "unset" /\ ~hostname
      /\ spaces \in Seq(Nat) /\ Len(spaces) <= 2 /\ index \in 1 .. Len(head)
  BY DEF IInv, TypeOK, Parsing, Reading
<1>2. CASE Len(spaces) < 2
  <2>1. LineBreaks' = LineBreaks /\ LineBreaks \in SUBSET Nat /\ index \notin LineBreaks
        /\ head' = head /\ index' = index + 1 /\ spaces' = Append(spaces, index)
        /\ index \in Nat /\ phase' = "line"
    BY <1>1, <1>2, Same, Breaks DEF LineBreaks
  <2>2. /\ Len(spaces') = Len(spaces) + 1 /\ spaces'[Len(spaces) + 1] = index
        /\ \A k \in 1 .. Len(spaces) : spaces'[k] = spaces[k]
        /\ Len(spaces) \in {0, 1}
    <3>1. Len(spaces) \in Nat
      BY <1>1
    <3>2. Len(spaces) = 0 \/ Len(spaces) = 1
      BY <1>1, <1>2, FewSpaces
    <3> QED BY <1>1, <2>1, <3>1, <3>2
  <2>3. \A b \in LineBreaks' : index' <= b
    BY <1>1, <2>1 DEF LineRead
  <2>4. ASSUME NEW i \in 1 .. index' - 1, head'[i] = "sp"
        PROVE  \E k \in 1 .. Len(spaces') : spaces'[k] = i
    <3>1. CASE i = index
      <4>1. Len(spaces) + 1 \in 1 .. Len(spaces')
        BY <2>2
      <4> QED BY <2>2, <3>1, <4>1
    <3>2. CASE i # index
      <4>1. i \in 1 .. index - 1
        BY <2>1, <3>2
      <4>2. PICK k \in 1 .. Len(spaces) : spaces[k] = i
        BY <1>1, <2>1, <2>4, <4>1 DEF LineRead
      <4>3. k \in 1 .. Len(spaces')
        BY <2>2
      <4> QED BY <2>2, <4>2, <4>3
    <3> QED BY <3>1, <3>2
  <2>5. ASSUME NEW k \in 1 .. Len(spaces')
        PROVE  spaces'[k] \in 1 .. index' - 1 /\ head'[spaces'[k]] = "sp"
    <3>1. CASE k = Len(spaces) + 1
      BY <1>1, <2>1, <2>2, <3>1
    <3>2. CASE k # Len(spaces) + 1
      <4>1. k \in 1 .. Len(spaces)
        BY <2>2, <3>2
      <4>2. spaces'[k] = spaces[k] /\ spaces[k] \in 1 .. index - 1 /\ head[spaces[k]] = "sp"
        BY <1>1, <2>2, <4>1 DEF LineRead
      <4> QED BY <2>1, <4>2
    <3> QED BY <3>1, <3>2
  <2>6. Len(spaces') = 2 => spaces'[1] < spaces'[2]
    <3> SUFFICES ASSUME Len(spaces') = 2 PROVE spaces'[1] < spaces'[2]
      OBVIOUS
    <3>1. Len(spaces) = 1 /\ spaces'[1] = spaces[1] /\ spaces'[2] = index
      BY <2>2
    <3>2. spaces[1] \in 1 .. index - 1
      BY <1>1, <3>1 DEF LineRead
    <3> QED BY <2>1, <3>1, <3>2
  <2>7. LineRead'
    BY <2>3, <2>4, <2>5, <2>6 DEF LineRead
  <2> QED BY <1>1, <2>1, <2>7 DEF Reading, DecisionAsLines, requestVars
<1>3. CASE ~(Len(spaces) < 2)
  <2>1. Len(spaces) = 2 /\ head[index] = "sp" /\ head' = head
        /\ support_http_1_1' = support_http_1_1 /\ phase' = "handle"
        /\ http_status' = 400 /\ keep_alive' = FALSE
    <3>1. Len(spaces) = 0 \/ Len(spaces) = 1 \/ Len(spaces) = 2
      BY <1>1, FewSpaces
    <3>2. Len(spaces) = 2
      BY ONLY <1>3, <3>1
    <3> QED BY <1>3, <3>2
  <2>2. Cardinality(Spaces) # 2
    BY <1>1, <2>1, ThirdSpace
  <2>3. Verdict = 400
    BY <2>2 DEF Verdict, LineVerdict
  <2>4. DecisionAsLines'
    BY <2>1, <2>3, Decided
  <2> QED BY <2>1, <2>4 DEF Reading
<1> QED BY <1>2, <1>3

(* Anything else of the request line is passed over.                       *)
LEMMA LineOtherHolds ==
    ASSUME IInv, Reading, LineOther
    PROVE  Reading' /\ DecisionAsLines'
<1>1. /\ head \in Heads /\ LineRead /\ option = "unset" /\ ~hostname
      /\ spaces \in Seq(Nat) /\ Len(spaces) <= 2 /\ index \in 1 .. Len(head)
      /\ head' = head /\ index' = index + 1 /\ spaces' = spaces /\ phase' = "line"
      /\ option' = option /\ hostname' = hostname
      /\ head[index] # "sp" /\ index \notin LineBreaks /\ phase = "line"
  BY DEF IInv, TypeOK, Parsing, Reading, LineOther, InLine, Token, AtCrLf, requestVars, LineBreaks
<1>2. LineBreaks' = LineBreaks /\ LineBreaks \in SUBSET Nat /\ index \in Nat
  BY <1>1, Breaks DEF LineBreaks
<1>3. LineRead'
  <2>1. \A b \in LineBreaks : index + 1 <= b
    BY <1>1, <1>2 DEF LineRead
  <2>2. \A i \in 1 .. index : head[i] = "sp" => i \in 1 .. index - 1
    BY <1>1, <1>2
  <2>3. \A i \in 1 .. index : head[i] = "sp" => \E k \in 1 .. Len(spaces) : spaces[k] = i
    BY <1>1, <2>2 DEF LineRead
  <2>4. \A k \in 1 .. Len(spaces) : spaces[k] \in 1 .. index /\ head[spaces[k]] = "sp"
    BY <1>1, <1>2 DEF LineRead
  <2>5. Len(spaces) = 2 => spaces[1] < spaces[2]
    BY <1>1 DEF LineRead
  <2>6. index' - 1 = index
    BY <1>1, <1>2
  <2> QED BY <1>1, <1>2, <2>1, <2>3, <2>4, <2>5, <2>6 DEF LineRead
<1> QED BY <1>1, <1>3 DEF Reading, DecisionAsLines

-----------------------------------------------------------------------------
(* The effect of the options                                               *)

(* Behind the request line no option is read.                              *)
LEMMA FirstOptions ==
    ASSUME head \in Heads, index \in LineBreaks, \A b \in LineBreaks : index <= b
    PROVE  OptionsUpTo(index + 2, "unset", FALSE) /\ index + 2 <= Len(head) - 1
<1> DEFINE k == index + 2
<1>1. index \in Nat /\ k \in Nat /\ k - 2 = index /\ k <= Len(head) - 1 /\ Len(head) \in Nat
  BY Breaks
<1>2. \A b, e \in 1 .. Len(head) : ~(Line(b, e) /\ b < k)
  BY <1>1 DEF Line
<1> HIDE DEF k
<1>3. k - 2 \in LineBreaks /\ k < Len(head)
  BY <1>1
<1>4. ~ \E line \in Named(HostNames) : First(line) < k
  BY <1>2, NamedIs
<1>5. SaidBefore(k) = {}
  <2> SUFFICES ASSUME NEW i \in Said, i < k PROVE FALSE
    BY DEF SaidBefore
  <2>1. PICK b \in 1 .. Len(head), e \in 1 .. Len(head) : Says(b, e, i)
    BY SaidIs
  <2>2. Line(b, e) /\ i \in b .. e - 1
    BY <2>1, ValueInLine DEF Says
  <2>3. b \in Int /\ e \in Int
    BY <2>1
  <2>4. b < k
    BY <1>1, <2>2, <2>3
  <2> QED BY <1>2, <2>2, <2>4
<1>6. OptionsUpTo(k, "unset", FALSE)
  BY <1>2, <1>3, <1>4, <1>5 DEF OptionsUpTo
<1> QED BY <1>1, <1>6 DEF k

(* The lines before the one that begins behind this one.                   *)
LEMMA NextLine ==
    ASSUME head \in Heads, NEW k \in Int, NEW m, Line(k, m), k < Len(head) - 1
    PROVE  /\ m + 2 <= Len(head) - 1 /\ m \in Nat /\ k < m
           /\ \A b, e \in 1 .. Len(head) :
                  Line(b, e) => (b < m + 2 <=> b < k \/ (b = k /\ e = m))
<1>1. /\ k \in Nat /\ m \in Nat /\ k < m /\ m <= Len(head) - 1 /\ Len(head) \in Nat
      /\ k - 2 \in LineBreaks /\ m \in LineBreaks /\ LineBreaks \in SUBSET Nat
  BY LineBounds, Breaks DEF Line
<1>2. m + 2 <= Len(head) - 1
  <2>1. Len(head) - 3 \in LineBreaks /\ Len(head) - 3 + 1 \notin LineBreaks
        /\ (k - 2) + 1 \notin LineBreaks
    BY <1>1, Breaks
  <2>2. Len(head) - 3 <= k - 2 \/ m <= Len(head) - 3
    BY <2>1 DEF Line
  <2>3. (k - 2) + 1 = k - 1 /\ Len(head) - 3 + 1 = Len(head) - 2
    BY <1>1
  <2> QED BY <1>1, <2>2
<1>3. ASSUME NEW b \in 1 .. Len(head), NEW e \in 1 .. Len(head), Line(b, e)
      PROVE  b < m + 2 <=> b < k \/ (b = k /\ e = m)
  <2>1. b - 2 \in LineBreaks /\ e \in LineBreaks /\ b \in Nat /\ e \in Nat /\ b < e
    BY <1>3 DEF Line
  <2>2. b - 2 <= k - 2 \/ m <= b - 2
    BY <2>1 DEF Line
  <2>3. b = k => e <= m /\ m <= e
    <3>1. b = k => (m <= b - 2 \/ e <= m) /\ (e <= k - 2 \/ m <= e)
      BY <1>1, <1>3, <2>1 DEF Line
    <3> QED BY <1>1, <2>1, <3>1
  <2> QED BY <1>1, <2>1, <2>2, <2>3
<1> QED BY <1>1, <1>2, <1>3

(* What an option that is set last makes of the connection.                *)
Decides(old, new) ==
    IF value_at < index /\ head[key_at] \in ConnectionNames
    THEN new \in IF OptionOf(head[value_at]) = {} THEN {old} ELSE OptionOf(head[value_at])
    ELSE new = old

(* One option more has the effect it says.                                 *)
LEMMA OneOptionMore ==
    ASSUME head \in Heads, Line(key_at, index), key_at < Len(head) - 1,
           key_at \in Nat, value_at \in Nat, NEW c, ValueRead(c),
           OptionsUpTo(key_at, option, hostname), NEW new, Decides(option, new)
    PROVE  OptionsUpTo(index + 2, new,
                       hostname \/ (value_at < index /\ head[key_at] \in HostNames))
<1> DEFINE L == key_at .. index - 1
           k == index + 2
           host == hostname \/ (value_at < index /\ head[key_at] \in HostNames)
<1>1. /\ k <= Len(head) - 1 /\ index \in Nat /\ Len(head) \in Nat /\ k \in Nat
      /\ key_at \in 1 .. Len(head) /\ index \in 1 .. Len(head) /\ key_at < index
      /\ \A b, e \in 1 .. Len(head) :
             Line(b, e) => (b < k <=> b < key_at \/ (b = key_at /\ e = index))
  BY NextLine, LineBounds, Breaks
<1>2. /\ Behind(L) = c + 1 .. index - 1 /\ Value(L) = value_at .. index - 1
      /\ value_at < index => First(Value(L)) = value_at
  BY ValueOfLine
<1>3. Value(L) # {} <=> value_at < index
  <2>1. value_at < index => value_at \in value_at .. index - 1
    BY <1>1
  <2>2. \A i \in value_at .. index - 1 : value_at < index
    BY <1>1
  <2> HIDE DEF L
  <2> QED BY ONLY <1>2, <2>1, <2>2
<1> HIDE DEF L, k, host
<1>4. k - 2 \in LineBreaks /\ k < Len(head)
  <2>1. k - 2 = index /\ k < Len(head)
    BY <1>1 DEF k
  <2> QED BY <2>1 DEF Line
<1>5. ASSUME NEW b \in 1 .. Len(head), NEW e \in 1 .. Len(head), Line(b, e), b < k,
             NEW i \in Behind(b .. e - 1)
      PROVE  head[i] # "cr"
  <2>1. CASE b < key_at
    BY <1>5, <2>1 DEF OptionsUpTo
  <2>2. CASE b = key_at /\ e = index
    BY <1>2, <1>5, <2>2 DEF ValueRead, L
  <2> QED BY <1>1, <1>5, <2>1, <2>2
<1>6. host <=> \E line \in Named(HostNames) : First(line) < k
  <2>1. hostname <=> \E b, e \in 1 .. Len(head) :
            Line(b, e) /\ head[b] \in HostNames /\ Value(b .. e - 1) # {} /\ b < key_at
    BY NamedIs DEF OptionsUpTo
  <2>2. (\E b, e \in 1 .. Len(head) :
            Line(b, e) /\ head[b] \in HostNames /\ Value(b .. e - 1) # {} /\ b < k) <=> host
    BY <1>1, <1>3, <2>1 DEF L, host
  <2> QED BY <2>2, NamedIs
<1>7. \A i \in SaidBefore(key_at) : i \in Nat /\ i < key_at
  <2>1. \A i \in Said : i \in Nat
    BY SaidIs, ValueInLine, LineBounds DEF Says
  <2> QED BY <2>1 DEF SaidBefore
<1>8. Says(key_at, index, value_at) <=>
          value_at < index /\ head[key_at] \in ConnectionNames /\ OptionOf(head[value_at]) # {}
  BY <1>2, <1>3 DEF Says, L
<1>9. \A i : Says(key_at, index, i) => i = value_at
  BY <1>2, <1>3 DEF Says, L
<1>10. SaidBefore(k) = SaidBefore(key_at) \cup {i \in {value_at} : Says(key_at, index, i)}
  <2>1. ASSUME NEW i \in SaidBefore(k)
        PROVE  i \in SaidBefore(key_at) \/ (i = value_at /\ Says(key_at, index, i))
    <3>1. i \in Said /\ i < k
      BY <2>1 DEF SaidBefore
    <3>2. PICK b \in 1 .. Len(head), e \in 1 .. Len(head) : Says(b, e, i)
      BY <3>1, SaidIs
    <3>3. Line(b, e) /\ i \in b .. e - 1 /\ b \in Int /\ e \in Int
      BY <3>2, ValueInLine DEF Says
    <3>4. b < k
      BY <1>1, <3>1, <3>3
    <3>5. CASE b = key_at /\ e = index
      BY <1>9, <3>2, <3>5
    <3>6. CASE b < key_at
      <4>1. e <= key_at - 2
        BY <3>3, <3>6, LinesApart DEF Line
      <4>2. i < key_at
        BY <1>1, <3>3, <4>1
      <4> QED BY <3>1, <4>2 DEF SaidBefore
    <3> QED BY <1>1, <3>3, <3>4, <3>5, <3>6
  <2>2. ASSUME NEW i \in SaidBefore(key_at) PROVE i \in SaidBefore(k)
    BY <1>1, <1>7 DEF SaidBefore
  <2>3. ASSUME Says(key_at, index, value_at) PROVE value_at \in SaidBefore(k)
    <3>1. value_at \in Said
      BY <1>1, <2>3, SaidIs
    <3>2. value_at < k
      BY <1>1, <1>8, <2>3 DEF k
    <3> QED BY <3>1, <3>2 DEF SaidBefore
  <2> QED BY <2>1, <2>2, <2>3
<1>11. {new} = IF SaidBefore(k) = {} THEN {"unset"} ELSE OptionOf(head[Final(SaidBefore(k))])
  <2>1. CASE Says(key_at, index, value_at)
    <3>1. new \in OptionOf(head[value_at])
      BY <1>8, <2>1 DEF Decides
    <3>2. OptionOf(head[value_at]) = {new}
      BY <3>1 DEF OptionOf
    <3>3. value_at \in SaidBefore(k) /\ SaidBefore(k) \in SUBSET Int
          /\ \A j \in SaidBefore(k) : j <= value_at
      <4>1. SaidBefore(k) = SaidBefore(key_at) \cup {value_at}
        BY <1>10, <2>1
      <4>2. key_at <= value_at
        BY <1>1 DEF ValueRead
      <4> QED BY <1>1, <1>7, <4>1, <4>2
    <3>4. Final(SaidBefore(k)) = value_at
      BY <3>3, FinalIs
    <3> QED BY <3>2, <3>3, <3>4
  <2>2. CASE ~Says(key_at, index, value_at)
    <3>1. new = option
      BY <1>8, <2>2 DEF Decides
    <3>2. SaidBefore(k) = SaidBefore(key_at)
      BY <1>10, <2>2
    <3> QED BY <3>1, <3>2 DEF OptionsUpTo
  <2> QED BY <2>1, <2>2
<1>12. OptionsUpTo(k, new, host)
  BY <1>4, <1>5, <1>6, <1>11 DEF OptionsUpTo
<1> QED BY <1>12 DEF k, host

-----------------------------------------------------------------------------
(* The steps of the parser                                                 *)

(* The effect of the options is a matter of the head alone.                *)
LEMMA SameOptions ==
    ASSUME head' = head, support_http_1_1' = support_http_1_1
    PROVE  /\ OptionsUpTo(key_at, option, hostname)' <=> OptionsUpTo(key_at', option', hostname')
           /\ \A c : ValueRead(c)' <=>
                  /\ c \in key_at' .. index' - 1 /\ head[c] = "colon"
                  /\ \A i \in key_at' .. c - 1 : head[i] # "colon"
                  /\ value_at' \in c + 1 .. index'
                  /\ \A i \in c + 1 .. value_at' - 1 : head[i] \in {"sp", "tab"}
                  /\ value_at' < index' => head[value_at'] \notin {"sp", "tab"}
                  /\ \A i \in c + 1 .. index' - 1 : head[i] # "cr"
<1>1. \A k : SaidBefore(k)' = SaidBefore(k)
  BY Same DEF SaidBefore
<1>2. OptionsUpTo(key_at, option, hostname)' <=> OptionsUpTo(key_at', option', hostname')
  BY <1>1, Same DEF OptionsUpTo, SaidBefore
<1>3. \A c : ValueRead(c)' <=>
          /\ c \in key_at' .. index' - 1 /\ head[c] = "colon"
          /\ \A i \in key_at' .. c - 1 : head[i] # "colon"
          /\ value_at' \in c + 1 .. index'
          /\ \A i \in c + 1 .. value_at' - 1 : head[i] \in {"sp", "tab"}
          /\ value_at' < index' => head[value_at'] \notin {"sp", "tab"}
          /\ \A i \in c + 1 .. index' - 1 : head[i] # "cr"
  BY DEF ValueRead
<1> QED BY <1>2, <1>3

(* While the options are read, nothing is decided.                         *)
LEMMA StillReading ==
    ASSUME Reading, phase = "options", phase' = "options", UNCHANGED <<head, support_http_1_1>>,
           http_version' = http_version, ColonsInAll => OptionsRead'
    PROVE  Reading' /\ DecisionAsLines'
<1>1. LineVerdict' = LineVerdict /\ Version' = Version /\ ColonsInAll' = ColonsInAll
  BY Same
<1> QED BY <1>1 DEF Reading, DecisionAsLines

(* The end of the request line decides, or the options are read.           *)
LEMMA LineEndHolds ==
    ASSUME IInv, Reading, LineEnd
    PROVE  Reading' /\ DecisionAsLines'
<1>1. /\ head \in Heads /\ LineRead /\ option = "unset" /\ ~hostname
      /\ spaces \in Seq(Nat) /\ Len(spaces) <= 2 /\ index \in 1 .. Len(head)
      /\ head' = head /\ support_http_1_1' = support_http_1_1
      /\ option' = option /\ hostname' = hostname
  BY DEF IInv, TypeOK, Parsing, Reading, LineEnd, InLine
<1>2. index \in LineBreaks
  <2>1. index + 2 \in 1 .. Len(head) + 1 /\ AtCrLf
    BY <1>1, CrLfInside DEF LineEnd
  <2> QED BY <1>1, <2>1 DEF AtCrLf, Token, LineBreaks
<1>3. /\ Cardinality(Spaces) = Len(spaces)
      /\ Len(spaces) = 2 => /\ First(Spaces) = spaces[1] /\ Final(Spaces) = spaces[2]
                            /\ Final(RequestLine) = index - 1
  BY <1>1, <1>2, SpacesRead
<1>4. /\ Len(spaces) = 2 => Method = SubSeq(head, 1, First(Spaces) - 1)
      /\ Len(spaces) = 2 => VersionOf(Proto) = Version
  BY <1>3 DEF Method, Proto, Version
<1>a. Len(spaces) = 2 =>
          (SubSeq(head, 1, First(Spaces) - 1) \in {<<m>> : m \in SupportedMethods}
               <=> \E m \in SupportedMethods : Method = <<m>>)
  <2> DEFINE N == SubSeq(head, 1, First(Spaces) - 1)
  <2>1. Len(spaces) = 2 => Method = N
    BY <1>4
  <2> HIDE DEF N
  <2>2. Len(spaces) = 2 =>
            (N \in {<<m>> : m \in SupportedMethods} <=> \E m \in SupportedMethods : Method = <<m>>)
    BY <2>1
  <2> QED BY <2>2 DEF N
<1> DEFINE supported == SubSeq(head, 1, First(Spaces) - 1) \in {<<m>> : m \in SupportedMethods}
<1>b. LineVerdict = IF Cardinality(Spaces) # 2 THEN 400 ELSE IF ~supported THEN 501
                    ELSE IF Version = {} THEN 400 ELSE 0
  BY DEF LineVerdict
<1>c. Len(spaces) = 2 => (supported <=> \E m \in SupportedMethods : Method = <<m>>)
  BY <1>a
<1> HIDE DEF supported
<1>5. CASE Len(spaces) # 2 /\ Refuse(400)
  <2>1. Verdict = 400
    BY <1>3, <1>5 DEF Verdict, LineVerdict
  <2>2. DecisionAsLines'
    BY <1>1, <1>5, <2>1, Decided DEF Refuse
  <2> QED BY <1>5, <2>2 DEF Reading, Refuse
<1>6. CASE phase' = "dead"
  BY <1>6 DEF Reading, DecisionAsLines
<1>7. CASE Len(spaces) = 2 /\ (\A m \in SupportedMethods : Method # <<m>>) /\ Refuse(501)
  <2>1. LineVerdict = 501
    BY <1>3, <1>4, <1>7, <1>b, <1>c
  <2>2. Verdict = 501
    BY <2>1 DEF Verdict
  <2>3. DecisionAsLines'
    BY <1>1, <1>7, <2>2, Decided DEF Refuse
  <2> QED BY <1>7, <2>3 DEF Reading, Refuse
<1>8. CASE Len(spaces) = 2 /\ (\E m \in SupportedMethods : Method = <<m>>)
           /\ VersionOf(Proto) = {} /\ Refuse(400)
  <2>1. LineVerdict = 400
    BY <1>3, <1>4, <1>8, <1>b, <1>c
  <2>2. Verdict = 400
    BY <2>1 DEF Verdict
  <2>3. DecisionAsLines'
    BY <1>1, <1>8, <2>2, Decided DEF Refuse
  <2> QED BY <1>8, <2>3 DEF Reading, Refuse
<1>9. CASE Len(spaces) = 2 /\ (\E m \in SupportedMethods : Method = <<m>>)
           /\ http_version' \in VersionOf(Proto) /\ phase' = "options" /\ is_key' = TRUE
           /\ index' = index + 2 /\ key_at' = index + 2
  <2>1. Version = {http_version'}
    BY <1>4, <1>9 DEF VersionOf
  <2>2. LineVerdict = 0
    BY <1>3, <1>4, <1>9, <1>b, <1>c, <2>1
  <2>3. LineVerdict' = 0 /\ Version' = {http_version'}
    BY <1>1, <2>1, <2>2, Same
  <2>4. OptionsUpTo(index + 2, "unset", FALSE) /\ index + 2 <= Len(head) - 1
    BY <1>1, <1>2, FirstOptions DEF LineRead
  <2>5. hostname' = FALSE /\ option' = "unset"
    <3>1. hostname \in BOOLEAN
      BY DEF IInv, TypeOK
    <3> QED BY <1>1, <3>1
  <2>6. OptionsUpTo(key_at, option, hostname)'
    BY <1>1, <1>9, <2>4, <2>5, SameOptions
  <2>7. \A b \in LineBreaks' : b < key_at' \/ index' <= b
    <3>1. LineBreaks' = LineBreaks /\ LineBreaks \in SUBSET Nat
      BY <1>1, Same, Breaks
    <3> QED BY <1>1, <1>9, <3>1
  <2>8. \A i \in key_at' .. index' - 1 : head'[i] # "colon"
    BY <1>1, <1>9
  <2>9. OptionsRead'
    <3>1. key_at' <= index'
      BY <1>1, <1>9
    <3> QED BY <1>9, <2>6, <2>7, <2>8, <3>1 DEF OptionsRead
  <2> QED BY <1>9, <2>3, <2>9 DEF Reading, DecisionAsLines
<1> QED BY <1>5, <1>6, <1>7, <1>8, <1>9 DEF LineEnd

(* No line break is passed over in a name, but for the empty line's.       *)
LEMMA ReadKeyHolds ==
    ASSUME IInv, Reading, ReadKey
    PROVE  Reading' /\ DecisionAsLines'
<1>1. /\ head \in Heads /\ index \in 1 .. Len(head) /\ key_at \in Nat /\ is_key
      /\ head' = head /\ support_http_1_1' = support_http_1_1 /\ phase = "options"
      /\ phase' = "options" /\ http_version' = http_version /\ option' = option
      /\ hostname' = hostname /\ key_at' = key_at /\ index' = index + 1
  BY DEF IInv, TypeOK, Parsing, ReadKey, InOptions, requestVars
<1>2. ASSUME ColonsInAll PROVE OptionsRead'
  <2>1. OptionsRead
    BY <1>1, <1>2 DEF Reading
  <2>2. /\ OptionsUpTo(key_at, option, hostname) /\ key_at <= index
        /\ key_at = Len(head) - 1 \/ \A b \in LineBreaks : b < key_at \/ index <= b
        /\ \A i \in key_at .. index - 1 : head[i] # "colon"
    BY <1>1, <2>1 DEF OptionsRead
  <2>3. OptionsUpTo(key_at, option, hostname)'
    BY <1>1, <2>2, SameOptions
  <2>4. LineBreaks \in SUBSET Nat /\ index \in Nat /\ Len(head) \in Nat /\ LineBreaks' = LineBreaks
    BY <1>1, Breaks, Same
  <2>5. key_at = Len(head) - 1 \/ index \notin LineBreaks
    <3> SUFFICES ASSUME key_at # Len(head) - 1, index \in LineBreaks PROVE FALSE
      OBVIOUS
    <3>1. key_at - 2 \in LineBreaks
      BY <2>2 DEF OptionsUpTo
    <3>2. key_at # index
      <4> SUFFICES ASSUME key_at = index PROVE FALSE
        OBVIOUS
      <4>1. (key_at - 2) + 2 \in LineBreaks
        BY <1>1
      <4>2. key_at - 2 = Len(head) - 3
        BY <1>1, <3>1, <4>1, Breaks
      <4> QED BY <1>1, <2>4, <4>2
    <3>3. Line(key_at, index)
      <4>1. (key_at - 2) + 1 \notin LineBreaks
        BY <1>1, <3>1, Breaks
      <4>2. key_at < index
        BY <1>1, <2>2, <2>4, <3>2
      <4>3. ASSUME NEW b \in LineBreaks PROVE b <= key_at - 2 \/ index <= b
        <5>1. b < key_at \/ index <= b
          BY <2>2
        <5>2. b # key_at - 1
          BY <1>1, <4>1
        <5> QED BY <1>1, <2>4, <5>1, <5>2
      <4> QED BY <3>1, <4>2, <4>3 DEF Line
    <3>4. key_at .. index - 1 \in OptionLines
      BY <1>1, <3>3, OptionLinesAre, LineBounds
    <3> QED BY <1>2, <2>2, <3>4 DEF ColonsInAll, Colons
  <2>6. key_at' = Len(head') - 1 \/ \A b \in LineBreaks' : b < key_at' \/ index' <= b
    <3>1. ASSUME NEW b \in LineBreaks, b < key_at \/ index <= b, index \notin LineBreaks
          PROVE  b < key_at \/ index + 1 <= b
      BY <2>4, <3>1
    <3> QED BY <1>1, <2>2, <2>4, <2>5, <3>1
  <2>7. CASE Token = "colon"
    <3>1. is_key' = FALSE /\ value_at' = index + 1
      BY <2>7 DEF ReadKey
    <3>2. PICK c \in 1 .. Len(head) : c = index
      BY <1>1
    <3>3. /\ c \in key_at' .. index' - 1 /\ head[c] = "colon"
          /\ \A i \in key_at' .. c - 1 : head[i] # "colon"
      BY <1>1, <2>2, <2>4, <2>7, <3>2 DEF Token
    <3>4. value_at' \in c + 1 .. index' /\ ~(value_at' < index')
      BY <1>1, <2>4, <3>1, <3>2
    <3>5. /\ \A i \in c + 1 .. value_at' - 1 : head[i] \in {"sp", "tab"}
          /\ \A i \in c + 1 .. index' - 1 : head[i] # "cr"
      BY <1>1, <2>4, <3>1, <3>2
    <3>6. ValueRead(c)'
      BY <1>1, <3>3, <3>4, <3>5, SameOptions
    <3>7. c \in 1 .. Len(head') /\ key_at' <= index'
      BY <1>1, <2>2, <2>4
    <3> QED BY <2>3, <2>6, <3>1, <3>6, <3>7 DEF OptionsRead
  <2>8. CASE Token # "colon"
    <3>1. is_key'
      BY <1>1, <2>8 DEF ReadKey
    <3>2. \A i \in key_at' .. index' - 1 : head'[i] # "colon"
      BY <1>1, <2>2, <2>4, <2>8 DEF Token
    <3>3. key_at' <= index'
      BY <1>1, <2>2, <2>4
    <3> QED BY <2>3, <2>6, <3>1, <3>2, <3>3 DEF OptionsRead
  <2> QED BY <2>7, <2>8
<1> QED BY <1>1, <1>2, StillReading

(* A value goes on to a CR, and begins with what is not blank.             *)
LEMMA ReadValueHolds ==
    ASSUME IInv, Reading, ReadValue
    PROVE  Reading' /\ DecisionAsLines'
<1>1. /\ head \in Heads /\ index \in 1 .. Len(head) /\ key_at \in Nat /\ ~is_key
      /\ head' = head /\ support_http_1_1' = support_http_1_1 /\ phase = "options"
      /\ phase' = "options" /\ http_version' = http_version /\ option' = option
      /\ hostname' = hostname /\ key_at' = key_at /\ index' = index + 1 /\ is_key' = is_key
      /\ head[index] # "cr" /\ value_at \in Nat
      /\ value_at' = IF head[index] \in {"sp", "tab"} /\ value_at = index
                     THEN index + 1 ELSE value_at
  BY DEF IInv, TypeOK, Parsing, ReadValue, InOptions, requestVars, Token
<1>2. ASSUME ColonsInAll PROVE OptionsRead'
  <2>1. OptionsRead
    BY <1>1, <1>2 DEF Reading
  <2>2. /\ OptionsUpTo(key_at, option, hostname) /\ key_at <= index
        /\ key_at = Len(head) - 1 \/ \A b \in LineBreaks : b < key_at \/ index <= b
    BY <2>1 DEF OptionsRead
  <2>3. PICK c \in 1 .. Len(head) : ValueRead(c)
    BY <1>1, <2>1 DEF OptionsRead
  <2>4. LineBreaks \in SUBSET Nat /\ index \in Nat /\ Len(head) \in Nat /\ LineBreaks' = LineBreaks
        /\ index \notin LineBreaks
    BY <1>1, Breaks, Same DEF LineBreaks
  <2>5. OptionsUpTo(key_at, option, hostname)'
    BY <1>1, <2>2, SameOptions
  <2>6. key_at' = Len(head') - 1 \/ \A b \in LineBreaks' : b < key_at' \/ index' <= b
    BY <1>1, <2>2, <2>4
  <2>7. /\ c \in key_at .. index - 1 /\ head[c] = "colon"
        /\ \A i \in key_at .. c - 1 : head[i] # "colon"
        /\ value_at \in c + 1 .. index
        /\ \A i \in c + 1 .. value_at - 1 : head[i] \in {"sp", "tab"}
        /\ value_at < index => head[value_at] \notin {"sp", "tab"}
        /\ \A i \in c + 1 .. index - 1 : head[i] # "cr"
    BY <2>3 DEF ValueRead
  <2>8. c \in key_at' .. index' - 1 /\ value_at' \in c + 1 .. index'
    BY <1>1, <2>4, <2>7
  <2>9. \A i \in c + 1 .. value_at' - 1 : head[i] \in {"sp", "tab"}
    BY <1>1, <2>4, <2>7
  <2>10. value_at' < index' => head[value_at'] \notin {"sp", "tab"}
    BY <1>1, <2>4, <2>7
  <2>11. \A i \in c + 1 .. index' - 1 : head[i] # "cr"
    BY <1>1, <2>4, <2>7
  <2>12. ValueRead(c)'
    BY <1>1, <2>7, <2>8, <2>9, <2>10, <2>11, SameOptions
  <2>13. key_at' <= index' /\ c \in 1 .. Len(head')
    BY <1>1, <2>2, <2>4
  <2> QED BY <1>1, <2>5, <2>6, <2>12, <2>13 DEF OptionsRead
<1> QED BY <1>1, <1>2, StillReading

(* What is being read when a value is read is a line that is not empty.    *)
LEMMA LineBeingRead ==
    ASSUME head \in Heads, index \in 1 .. Len(head), OptionsRead, ~is_key, key_at \in Nat
    PROVE  /\ key_at < Len(head) - 1 /\ key_at \in 1 .. Len(head)
           /\ \A e \in LineBreaks :
                  /\ index <= e /\ \A k \in LineBreaks : k < index \/ e <= k
                  => Line(key_at, e)
<1>1. /\ OptionsUpTo(key_at, option, hostname) /\ key_at <= index
      /\ key_at = Len(head) - 1 \/ \A b \in LineBreaks : b < key_at \/ index <= b
  BY DEF OptionsRead
<1>2. PICK c \in key_at .. index - 1 : head[c] = "colon"
  BY DEF OptionsRead, ValueRead
<1>3. /\ key_at - 2 \in LineBreaks /\ key_at < Len(head) /\ LineBreaks \in SUBSET Nat
      /\ Len(head) \in Nat /\ Len(head) - 1 \in LineBreaks /\ (key_at - 2) + 1 \notin LineBreaks
      /\ index \in Nat
  <2>1. key_at - 2 \in LineBreaks /\ key_at < Len(head)
    BY <1>1 DEF OptionsUpTo
  <2>2. /\ LineBreaks \in SUBSET Nat /\ Len(head) \in Nat /\ Len(head) - 1 \in LineBreaks
        /\ \A i \in LineBreaks : i + 1 \notin LineBreaks
    BY Breaks
  <2> QED BY <2>1, <2>2
<1>4. key_at # Len(head) - 1
  <2> SUFFICES ASSUME key_at = Len(head) - 1 PROVE FALSE
    OBVIOUS
  <2>1. c = Len(head) - 1
    BY <1>3
  <2> QED BY <1>2, <1>3, <2>1 DEF LineBreaks
<1>5. ASSUME NEW e \in LineBreaks, index <= e, \A k \in LineBreaks : k < index \/ e <= k
      PROVE  Line(key_at, e)
  <2>1. key_at < e
    BY <1>2, <1>3, <1>5
  <2>2. ASSUME NEW k \in LineBreaks PROVE k <= key_at - 2 \/ e <= k
    <3>1. k < key_at \/ e <= k
      BY <1>1, <1>3, <1>4, <1>5
    <3>2. k # key_at - 1
      BY <1>3
    <3> QED BY <1>3, <3>1, <3>2
  <2> QED BY <1>3, <2>1, <2>2 DEF Line
<1>6. key_at < Len(head) - 1 /\ key_at \in 1 .. Len(head)
  BY <1>3, <1>4
<1> QED BY <1>5, <1>6

(* The end of an option adds its effect to that of those before it.        *)
LEMMA ValueEndHolds ==
    ASSUME IInv, Reading, ValueEnd
    PROVE  Reading' /\ DecisionAsLines'
<1>1. /\ head \in Heads /\ index \in 1 .. Len(head) /\ key_at \in Nat /\ value_at \in Nat
      /\ ~is_key /\ AtCrLf /\ is_key' /\ index' = index + 2 /\ key_at' = index + 2
      /\ head' = head /\ support_http_1_1' = support_http_1_1 /\ phase = "options"
      /\ phase' = "options" /\ http_version' = http_version
      /\ hostname' = (hostname \/ (value_at < index /\ head[key_at] \in HostNames))
  BY DEF IInv, TypeOK, Parsing, ValueEnd, InOptions
<1>2. Decides(option, option')
  <2>1. IF value_at < index /\ head[key_at] \in ConnectionNames
        THEN option' \in LastOption(OptionOf(head[value_at])) ELSE option' = option
    BY DEF ValueEnd
  <2> QED BY <2>1 DEF Decides, LastOption
<1>3. ASSUME ColonsInAll PROVE OptionsRead'
  <2>1. OptionsRead
    BY <1>1, <1>3 DEF Reading
  <2>2. index \in LineBreaks /\ LineBreaks \in SUBSET Nat /\ index \in Nat /\ Len(head) \in Nat
        /\ LineBreaks' = LineBreaks
    <3>1. index + 2 \in 1 .. Len(head) + 1
      BY <1>1, CrLfInside
    <3> QED BY <1>1, <3>1, Breaks, Same DEF AtCrLf, Token, LineBreaks
  <2>3. Line(key_at, index) /\ key_at < Len(head) - 1
    <3>1. \A k \in LineBreaks : k < index \/ index <= k
      BY <2>2
    <3> QED BY <1>1, <2>1, <2>2, <3>1, LineBeingRead
  <2>4. PICK c \in 1 .. Len(head) : ValueRead(c)
    BY <1>1, <2>1 DEF OptionsRead
  <2>5. OptionsUpTo(index + 2, option', hostname')
    <3>1. OptionsUpTo(key_at, option, hostname)
      BY <2>1 DEF OptionsRead
    <3>2. OptionsUpTo(index + 2, option',
                      hostname \/ (value_at < index /\ head[key_at] \in HostNames))
      BY <1>1, <1>2, <2>3, <2>4, <3>1, OneOptionMore
    <3> QED BY <1>1, <3>2
  <2>6. OptionsUpTo(key_at, option, hostname)'
    BY <1>1, <2>5, SameOptions
  <2>7. \A b \in LineBreaks' : b < key_at' \/ index' <= b
    BY <1>1, <2>2
  <2>8. key_at' <= index' /\ \A i \in key_at' .. index' - 1 : head'[i] # "colon"
    BY <1>1, <2>2
  <2> QED BY <1>1, <2>6, <2>7, <2>8 DEF OptionsRead
<1> QED BY <1>1, <1>3, StillReading

(* A CR in a value that no LF follows is refused, as the lines demand.     *)
LEMMA StrayCrHolds ==
    ASSUME IInv, Reading, StrayCr
    PROVE  Reading' /\ DecisionAsLines'
<1>1. /\ head \in Heads /\ index \in 1 .. Len(head) /\ key_at \in Nat /\ value_at \in Nat
      /\ ~is_key /\ head[index] = "cr" /\ index \notin LineBreaks
      /\ head' = head /\ support_http_1_1' = support_http_1_1 /\ phase = "options"
      /\ phase' = "handle" /\ http_status' = 400 /\ keep_alive' = FALSE
  BY DEF IInv, TypeOK, Parsing, StrayCr, InOptions, Refuse, Token, AtCrLf, LineBreaks
<1>2. ASSUME ColonsInAll PROVE Verdict = 400
  <2>1. OptionsRead /\ LineVerdict = 0
    BY <1>1, <1>2 DEF Reading
  <2>2. PICK c \in 1 .. Len(head) : ValueRead(c)
    BY <1>1, <2>1 DEF OptionsRead
  <2>3. index < Len(head) - 1 /\ index \in Nat /\ LineBreaks \in SUBSET Nat
    <3>1. Len(head) - 1 \in LineBreaks /\ Len(head) \in Nat /\ head[Len(head)] = "lf"
          /\ LineBreaks \in SUBSET Nat
      BY <1>1, Breaks, HeadEnds
    <3> QED BY <1>1, <3>1
  <2>4. PICK e \in LineBreaks : index < e /\ \A k \in LineBreaks : k <= index \/ e <= k
    BY <1>1, <2>3, NextBreak
  <2>5. Line(key_at, e) /\ key_at \in 1 .. Len(head)
    <3>1. index <= e /\ \A k \in LineBreaks : k < index \/ e <= k
      BY <1>1, <2>3, <2>4
    <3> QED BY <1>1, <2>1, <3>1, LineBeingRead
  <2>6. e \in 1 .. Len(head)
    BY <1>1, <2>5, LineBounds
  <2> DEFINE L == key_at .. e - 1
  <2>7. L \in OptionLines
    BY <1>1, <2>5, <2>6, OptionLinesAre
  <2>8. First(Colons(L)) = c
    <3>1. c \in key_at .. index - 1 /\ head[c] = "colon"
          /\ \A i \in key_at .. c - 1 : head[i] # "colon"
      BY <2>2 DEF ValueRead
    <3>2. Colons(L) \in SUBSET Int /\ c \in Colons(L)
      BY <1>1, <2>3, <2>4, <2>6, <3>1 DEF Colons
    <3>3. \A j \in Colons(L) : c <= j
      BY <1>1, <2>6, <3>1 DEF Colons
    <3> QED BY <3>2, <3>3, FirstIs
  <2>9. index \in Behind(L)
    <3>1. c \in key_at .. index - 1
      BY <2>2 DEF ValueRead
    <3>2. index \in L /\ index > c
      BY <1>1, <2>3, <2>4, <2>6, <3>1
    <3> QED BY <2>8, <3>2 DEF Behind
  <2>10. OptionVerdict = 400
    BY <1>1, <2>7, <2>9 DEF OptionVerdict
  <2> QED BY <2>1, <2>10 DEF Verdict
<1>3. DecisionAsLines'
  BY <1>1, <1>2, Decided
<1> QED BY <1>1, <1>3 DEF Reading

(* When all is read, the decision is that of the lines.                    *)
LEMMA ParseEndHolds ==
    ASSUME IInv, Reading, ParseEnd
    PROVE  Reading' /\ DecisionAsLines'
<1>1. /\ head \in Heads /\ index \in 1 .. Len(head) + 1 /\ key_at \in Nat /\ index > Len(head)
      /\ head' = head /\ support_http_1_1' = support_http_1_1 /\ phase = "options"
      /\ phase' = "handle" /\ keep_alive' = Kept /\ http_status = 0 /\ hostname \in BOOLEAN
      /\ http_status' = IF http_version = "1.1" /\ ~hostname THEN 400 ELSE 0
      /\ option \in {"unset", "keep-alive", "close"}
  BY DEF IInv, TypeOK, Parsing, ParseEnd, parserVars, requestVars
<1>2. ASSUME ColonsInAll
      PROVE  http_status' = Verdict /\ (keep_alive' <=> Verdict = 0 /\ Persistent)
  <2>1. OptionsRead /\ LineVerdict = 0 /\ Version = {http_version}
    BY <1>1, <1>2 DEF Reading
  <2>2. /\ LineBreaks \in SUBSET Nat /\ Len(head) \in Nat /\ Len(head) - 1 \in LineBreaks
    BY <1>1, Breaks
  <2>3. OptionsUpTo(key_at, option, hostname) /\ key_at < Len(head)
    BY <2>1 DEF OptionsRead, OptionsUpTo
  <2>4. key_at = Len(head) - 1
    <3>1. key_at = Len(head) - 1 \/ \A b \in LineBreaks : b < key_at \/ index <= b
      BY <2>1 DEF OptionsRead
    <3> QED BY <1>1, <2>2, <2>3, <3>1
  <2>5. \A b, e \in 1 .. Len(head) : Line(b, e) => b < key_at /\ e <= key_at
    BY <1>1, <2>4, LineBounds
  <2>6. \A line \in OptionLines : \A i \in Behind(line) : head[i] # "cr"
    <3> SUFFICES ASSUME NEW line \in OptionLines PROVE \A i \in Behind(line) : head[i] # "cr"
      OBVIOUS
    <3>1. PICK b \in 1 .. Len(head), e \in 1 .. Len(head) : Line(b, e) /\ line = b .. e - 1
      BY <1>1, OptionLinesAre
    <3> QED BY <2>3, <2>5, <3>1 DEF OptionsUpTo
  <2>7. hostname <=> Named(HostNames) # {}
    <3>1. hostname <=> \E line \in Named(HostNames) : First(line) < key_at
      BY <2>3 DEF OptionsUpTo
    <3>2. ASSUME NEW line \in Named(HostNames) PROVE First(line) < key_at
      <4>1. PICK b \in 1 .. Len(head), e \in 1 .. Len(head) : Line(b, e) /\ line = b .. e - 1
        BY <1>1, OptionLinesAre DEF Named
      <4>2. First(line) = b
        BY <1>1, <4>1, LineFirst, LineBounds
      <4> QED BY <2>5, <4>1, <4>2
    <3> QED BY <3>1, <3>2
  <2>8. {option} = WhatIsSaid
    <3>1. SaidBefore(key_at) = Said
      <4>1. ASSUME NEW i \in Said PROVE i < key_at
        <5>1. PICK b \in 1 .. Len(head), e \in 1 .. Len(head) : Says(b, e, i)
          BY <1>1, SaidIs
        <5>2. Line(b, e) /\ i \in b .. e - 1
          BY <1>1, <5>1, ValueInLine DEF Says
        <5>3. e <= key_at
          BY <2>5, <5>2
        <5> QED BY <1>1, <5>2, <5>3
      <4> QED BY <4>1 DEF SaidBefore
    <3> QED BY <2>3, <3>1 DEF OptionsUpTo, WhatIsSaid
  <2>9. OptionVerdict = IF http_version = "1.1" /\ ~hostname THEN 400 ELSE 0
    <3>1. Version = {"1.1"} <=> http_version = "1.1"
      BY <2>1
    <3> QED BY <2>6, <2>7, <3>1 DEF OptionVerdict
  <2>10. Verdict = IF http_version = "1.1" /\ ~hostname THEN 400 ELSE 0
    BY <2>1, <2>9 DEF Verdict
  <2>11. Persistent <=> IF http_version = "1.1" THEN option # "close" ELSE option = "keep-alive"
    <3>1. Version = {"1.1"} <=> http_version = "1.1"
      BY <2>1
    <3>2. (WhatIsSaid # {"close"} <=> option # "close")
          /\ (WhatIsSaid = {"keep-alive"} <=> option = "keep-alive")
      BY <2>8
    <3> QED BY <3>1, <3>2 DEF Persistent
  <2>12. http_status' = Verdict
    BY <1>1, <2>10
  <2>13. Verdict = 0 <=> ~(http_version = "1.1" /\ ~hostname)
    BY <2>10
  <2>14. keep_alive' <=> Verdict = 0 /\ Persistent
    BY <1>1, <2>11, <2>13 DEF Kept
  <2> QED BY <2>12, <2>14
<1>3. DecisionAsLines'
  BY <1>1, <1>2, Decided
<1> QED BY <1>1, <1>3 DEF Reading

-----------------------------------------------------------------------------
(* Nothing is read to begin with.                                          *)
LEMMA ReadingInitially == Init => Reading /\ DecisionAsLines
  BY DEF Init, Reading, DecisionAsLines

(* Every step keeps what the parser has read, and decides as the lines do. *)
LEMMA ReadingInductive ==
    IInv /\ Reading /\ DecisionAsLines /\ [Next]_vars => Reading' /\ DecisionAsLines'
<1> SUFFICES ASSUME IInv, Reading, DecisionAsLines, [Next]_vars
             PROVE  Reading' /\ DecisionAsLines'
  OBVIOUS
<1>1. CASE RequestEnd
  <2>1. /\ head' \in Heads /\ phase = "read" /\ phase' = "line" /\ index' = 1 /\ spaces' = <<>>
        /\ hostname' = FALSE /\ option' = option
    BY <1>1 DEF RequestEnd
  <2>2. LineRead'
    <3>1. \A b \in LineBreaks' : index' <= b
      BY <2>1 DEF LineBreaks
    <3>2. Len(spaces') = 0 /\ 1 .. index' - 1 = {} /\ 1 .. Len(spaces') = {}
      BY <2>1
    <3> QED BY <3>1, <3>2 DEF LineRead
  <2> QED BY <2>1, <2>2 DEF Reading, DecisionAsLines
<1>2. CASE HeadTooLong
  BY <1>2 DEF HeadTooLong, Reading, DecisionAsLines
<1>3. CASE LineSpace
  BY <1>3, LineSpaceHolds
<1>4. CASE LineOther
  BY <1>4, LineOtherHolds
<1>5. CASE LineEnd
  BY <1>5, LineEndHolds
<1>6. CASE ReadKey
  BY <1>6, ReadKeyHolds
<1>7. CASE ReadValue
  BY <1>7, ReadValueHolds
<1>8. CASE StrayCr
  BY <1>8, StrayCrHolds
<1>9. CASE ValueEnd
  BY <1>9, ValueEndHolds
<1>10. CASE ParseEnd
  BY <1>10, ParseEndHolds
<1>11. CASE HandleRequest
  BY <1>11 DEF HandleRequest, Reading, DecisionAsLines
<1>12. CASE ResponseStart
  BY <1>12 DEF ResponseStart, Reading, DecisionAsLines
<1>13. CASE NextRequest
  BY <1>13 DEF NextRequest, OptionReset, Reading, DecisionAsLines
<1>14. CASE UNCHANGED vars
  <2>1. /\ UNCHANGED <<head, support_http_1_1, phase, index, spaces, is_key, key_at, value_at>>
        /\ UNCHANGED <<http_version, option, hostname, http_status, keep_alive>>
    BY <1>14 DEF vars, parserVars, requestVars
  <2>2. /\ LineVerdict' = LineVerdict /\ Version' = Version /\ ColonsInAll' = ColonsInAll
        /\ Verdict' = Verdict /\ Persistent' = Persistent /\ LineBreaks' = LineBreaks
    BY <2>1, Same
  <2>3. LineRead' = LineRead
    BY <2>1, <2>2 DEF LineRead
  <2>4. OptionsRead' <=> OptionsRead
    <3>1. OptionsUpTo(key_at, option, hostname)' <=> OptionsUpTo(key_at, option, hostname)
      BY <2>1, SameOptions
    <3>2. \A c : ValueRead(c)' <=> ValueRead(c)
      BY <2>1 DEF ValueRead
    <3> QED BY <2>1, <2>2, <3>1, <3>2 DEF OptionsRead
  <2> QED BY <2>1, <2>2, <2>3, <2>4 DEF Reading, DecisionAsLines, ColonsInAll
<1> QED
  BY <1>1, <1>2, <1>3, <1>4, <1>5, <1>6, <1>7, <1>8, <1>9, <1>10, <1>11, <1>12, <1>13,
     <1>14 DEF Next

(* One pass over a head decides what its lines say, for every head whose   *)
(* option lines have a colon, and whatever was asked before it on the same *)
(* connection.                                                             *)
THEOREM DecidesAsLines == Spec => []DecisionAsLines
<1> QED BY Initially, Inductive, ReadingInitially, ReadingInductive, PTL DEF Spec
================================================================================
