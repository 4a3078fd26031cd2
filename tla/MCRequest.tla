------------------------------- MODULE MCRequest -------------------------------
(* Request with a set of heads for TLC: every kind of request line with    *)
(* two options, and well-formed ones with up to three.                     *)
EXTENDS Request, SequencesExt

CrLf == <<"cr", "lf">>

GoodLines == {<<"GET", "sp", "url", "sp", "HTTP/1.1">>, <<"POST", "sp", "url", "sp", "HTTP/1.0">>}

OtherLines ==
    {<<>>, <<"GET">>, <<"GET", "sp", "url">>, <<"sp", "url", "sp", "HTTP/1.1">>,
     <<"GET", "sp", "sp", "HTTP/1.1">>, <<"GET", "sp", "url", "sp", "HTTP/1.1", "sp">>,
     <<"GET", "sp", "url", "sp", "HTTP/2.0">>, <<"GET", "sp", "url", "sp">>,
     <<"GET", "sp", "url", "tab", "colon", "cr", "url", "sp", "HTTP/1.1">>,
     <<"GET", "sp", "url", "sp", "HTTP/1.1", "lf">>, <<"GET", "sp", "url", "sp", "HTTP/1.1", "cr">>,
     <<"PUT", "sp", "url", "sp", "HTTP/1.1">>, <<"get", "sp", "url", "sp", "HTTP/1.0">>,
     <<"GET", "tab", "sp", "url", "sp", "HTTP/1.0">>,
     <<"GET", "sp", "url", "sp", "HTTP/4294967297.1">>,
     <<"GET", "sp", "url", "sp", "HTTP/", "tab", "1.1">>,
     <<"GET", "sp", "url", "sp", "HTTP/1.", "tab", "00">>,
     <<"GET", "sp", "url", "sp", "HTTP/1.1", "tab">>}

Options ==
    {<<"Host", "colon", "sp", "name">>, <<"Host", "colon", "tab", "sp">>,
     <<"hostess", "colon", "name", "colon", "name">>,
     <<"Connection", "colon", "sp", "keep-alive">>, <<"connection", "colon", "closed">>,
     <<"Connecting", "colon", "tab", "close", "sp", "name">>,
     <<"Connection", "colon", "name">>, <<"sp", "Connection", "colon", "close">>,
     <<"Range", "colon", "name", "sp", "name">>, <<"colon", "close">>,
     <<"Host">>, <<"Range", "colon", "name", "cr", "name">>, <<"Host", "colon", "cr">>}

OptionLists(n) == UNION {[1 .. k -> Options] : k \in 0 .. n}

Written(line, options) ==
    line \o CrLf \o FlattenSeq([k \in DOMAIN options |-> options[k] \o CrLf]) \o CrLf

(* A line that is empty, or ends with a CR, may end the head early.        *)
Complete(h) == \A i \in 4 .. Len(h) - 1 : ~EndsAt(h, i)

MCHeads ==
    {h \in {Written(l, o) : l \in GoodLines, o \in OptionLists(3)}
            \cup {Written(l, o) : l \in OtherLines, o \in OptionLists(1)} :
        Len(h) >= 4 /\ Complete(h)}
================================================================================
