------------------------------ MODULE HttpUri ------------------------------
(***************************************************************************)
(* URIs in libevent's http.c: the parser of RFC3986 references, the setters *)
(* of the parts, the join of the parts into a text, percent encoding, the  *)
(* arguments of a query, and the escaping of HTML.  A text is a sequence   *)
(* of characters of a small alphabet that has members of every class the   *)
(* code tells apart; a part that is a NULL pointer is NULL.  IPv6          *)
(* addresses are those of Ipv6, the texts that evutil_inet_pton takes.     *)
(***************************************************************************)
EXTENDS Integers, Sequences, FiniteSets, SequencesExt

CONSTANTS IntBits,   \* the width of an int
          Ipv6       \* texts that evutil_inet_pton reads as an IPv6 address

IntBitsAssumption == IntBits \in 2 .. 31

DIGIT == {"0", "1", "2", "3", "4", "5", "6", "7", "8", "9"}
HEXLETTER == {"a", "b", "A", "B", "C", "D", "E", "F"}
ALPHA == HEXLETTER \cup {"l", "t", "g", "q", "u", "o", "m", "p", "v", "x"}
XDIGIT == DIGIT \cup HEXLETTER
UNRESERVED == ALPHA \cup DIGIT \cup {"-", "."}
SUBDELIMS == {"!", "'", "&", "+", ";", "="}

NULL == <<"NULL">>
Uri(flags, scheme, userinfo, host, port, path, query, fragment) ==
    [ok |-> TRUE, flags |-> flags, scheme |-> scheme, userinfo |-> userinfo,
     host |-> host, port |-> port, path |-> path, query |-> query,
     fragment |-> fragment]
NoUri == [ok |-> FALSE]
evhttp_uri_new == Uri(FALSE, NULL, NULL, NULL, -1, NULL, NULL, NULL)

From(s, i) == SubSeq(s, i, Len(s))
Upto(s, i) == SubSeq(s, 1, i)
IndexOf(s, C) == SelectInSeq(s, LAMBDA ch : ch \in C)     \* 0: there is none

(* A percent sign and two hexadecimal digits at position i.  In a part of  *)
(* a text the code looks past the end of the part, at characters that are  *)
(* never hexadecimal digits.                                               *)
Escape(s, i) ==
    /\ s[i] = "%" /\ i + 2 <= Len(s)
    /\ s[i + 1] \in XDIGIT /\ s[i + 2] \in XDIGIT

(* The first position from i on at which s is not in C* with escapes.      *)
RECURSIVE Span(_, _, _)
Span(s, i, C) ==
    IF i > Len(s) THEN i
    ELSE IF s[i] \in C THEN Span(s, i + 1, C)
    ELSE IF Escape(s, i) THEN Span(s, i + 3, C) ELSE i

scheme_ok(s) ==
    /\ s # <<>> /\ s[1] \in ALPHA
    /\ \A i \in 2 .. Len(s) : s[i] \in ALPHA \cup DIGIT \cup {"+", "-", "."}

userinfo_ok(s) == Span(s, 1, UNRESERVED \cup SUBDELIMS \cup {":"}) > Len(s)

regname_ok(s) == Span(s, 1, UNRESERVED \cup SUBDELIMS) > Len(s)

bracket_addr_ok(s) ==
    LET inner == SubSeq(s, 2, Len(s) - 1)
        dot == IndexOf(inner, {"."})
    IN  /\ Len(s) >= 3 /\ s[1] = "[" /\ s[Len(s)] = "]"
        /\ IF inner[1] = "v"
           THEN /\ dot >= 3
                /\ \A i \in 2 .. dot - 1 : inner[i] \in XDIGIT
                /\ \A i \in dot + 1 .. Len(inner) :
                       inner[i] \in UNRESERVED \cup SUBDELIMS \cup {":"}
           ELSE inner \in Ipv6

Val(ch) == CHOOSE n \in 0 .. 9 : ToString(n) = ch
Signed(n) == ((n + 2^(IntBits - 1)) % 2^IntBits) - 2^(IntBits - 1)

parse_port(s) ==
    FoldLeft(LAMBDA n, ch : IF n < 0 \/ Signed(n * 10 + Val(ch)) < 0 THEN -1
                            ELSE Signed(n * 10 + Val(ch)),
             0, s)

(* The text between "//" and the path: [userinfo "@"] host [":" port].     *)
HostPort(userinfo, s, nondigit) ==
    LET colon == nondigit > 0 /\ s[nondigit] = ":"
        host == IF colon THEN Upto(s, nondigit - 1) ELSE s
        port == IF ~colon \/ nondigit = Len(s) THEN -1
                ELSE parse_port(From(s, nondigit + 1))
        bracketed == Len(host) >= 2 /\ host[1] = "[" /\ Last(host) = "]"
    IN  IF \/ colon /\ nondigit < Len(s) /\ port < 0
           \/ ~(IF bracketed THEN bracket_addr_ok(host) ELSE regname_ok(host))
        THEN NoUri
        ELSE [ok |-> TRUE, userinfo |-> userinfo, host |-> host, port |-> port]

parse_authority(s) ==
    LET at == IndexOf(s, {"@"})
        rest == From(s, at + 1)
        nondigit == SelectLastInSeq(rest, LAMBDA ch : ch \notin DIGIT)
    IN  IF at > 0 /\ ~userinfo_ok(Upto(s, at - 1)) THEN NoUri
        ELSE HostPort(IF at > 0 THEN Upto(s, at - 1) ELSE NULL, rest, nondigit)

(* The position after a path, a query or a fragment that starts at i.      *)
PCHAR == UNRESERVED \cup SUBDELIMS \cup {":", "@", "/"}
end_of_path(s, i, part, nonconformant) ==
    LET stops == CASE part = "path" -> {"#", "?"} [] part = "query" -> {"#"}
                   [] part = "fragment" -> {}
        stop == IndexOf(From(s, i), stops)
    IN  IF nonconformant THEN IF stop = 0 THEN Len(s) + 1 ELSE i + stop - 1
        ELSE Span(s, i, IF part = "path" THEN PCHAR ELSE PCHAR \cup {"?"})

end_of_authority(s) ==
    LET stop == IndexOf(s, {"?", "#", "/"})
    IN  IF stop = 0 THEN Len(s) + 1 ELSE stop

StartsWith(s, t) == Len(t) <= Len(s) /\ Upto(s, Len(t)) = t

path_matches_noscheme(path) ==
    LET stop == IndexOf(path, {":", "/"})
    IN  stop = 0 \/ path[stop] = "/"

(* evhttp_uri_parse_with_flags, in the order of its steps: the rest of the *)
(* text after the scheme, after the authority, after the path, ...         *)
ParseEnd(flags, scheme, a, got, path, query, fragment, atEnd) ==
    IF \/ ~atEnd
       \/ ~got /\ StartsWith(path, <<"/", "/">>)
       \/ got /\ path # <<>> /\ path[1] # "/"
       \/ scheme = NULL /\ ~path_matches_noscheme(path)
    THEN NoUri
    ELSE Uri(flags, scheme, a.userinfo, a.host, a.port, path, query, fragment)

ParseFragment(flags, scheme, a, got, path, query, s) ==
    LET isFragment == s # <<>> /\ s[1] = "#"
        e == IF isFragment THEN end_of_path(s, 2, "fragment", flags) ELSE 1
    IN  ParseEnd(flags, scheme, a, got, path, query,
                 IF isFragment THEN SubSeq(s, 2, e - 1) ELSE NULL, e > Len(s))

ParseQuery(flags, scheme, a, got, path, s) ==
    LET isQuery == s # <<>> /\ s[1] = "?"
        e == IF isQuery THEN end_of_path(s, 2, "query", flags) ELSE 1
    IN  ParseFragment(flags, scheme, a, got, path,
                      IF isQuery THEN SubSeq(s, 2, e - 1) ELSE NULL, From(s, e))

ParsePath(flags, scheme, a, got, s) ==
    LET e == end_of_path(s, 1, "path", flags)
    IN  IF ~a.ok THEN NoUri
        ELSE ParseQuery(flags, scheme, a, got, Upto(s, e - 1), From(s, e))

ParseAuthority(flags, scheme, s) ==
    LET e == end_of_authority(From(s, 3))
    IN  IF StartsWith(s, <<"/", "/">>)
        THEN ParsePath(flags, scheme, parse_authority(SubSeq(s, 3, e + 1)), TRUE,
                       From(s, e + 2))
        ELSE ParsePath(flags, scheme,
                       [ok |-> TRUE, userinfo |-> NULL, host |-> NULL, port |-> -1],
                       FALSE, s)

evhttp_uri_parse_with_flags(s, flags) ==
    LET colon == IndexOf(s, {":"})
    IN  IF colon > 0 /\ scheme_ok(Upto(s, colon - 1))
        THEN ParseAuthority(flags, Upto(s, colon - 1), From(s, colon + 1))
        ELSE ParseAuthority(flags, NULL, s)

----------------------------------------------------------------------------
Opt(before, s, after) == IF s = NULL THEN <<>> ELSE before \o s \o after

Digits(n) == IF n < 10 THEN <<ToString(n)>>
             ELSE IF n < 100 THEN <<ToString(n \div 10), ToString(n % 10)>>
             ELSE <<ToString(n \div 100), ToString((n \div 10) % 10), ToString(n % 10)>>

(* The text of a URI, NULL when it does not fit in limit bytes with its    *)
(* terminator, or when a relative path follows a host.                     *)
(* Mutant of evhttp_uri_join: the authority is written for a host that is  *)
(* not empty only.                                                         *)
Joined(u, authority, limit) ==
    LET s == Opt(<<>>, u.scheme, <<":">>) \o authority \o Opt(<<>>, u.path, <<>>)
                 \o Opt(<<"?">>, u.query, <<>>) \o Opt(<<"#">>, u.fragment, <<>>)
    IN  IF \/ limit = 0 \/ Len(s) + 1 > limit
           \/ u.host # NULL /\ u.path \notin {NULL, <<>>} /\ u.path[1] # "/"
        THEN NULL ELSE s
Authority(u) ==
    <<"/", "/">> \o Opt(<<>>, u.userinfo, <<"@">>) \o u.host
        \o (IF u.port >= 0 THEN <<":">> \o Digits(u.port) ELSE <<>>)
evhttp_uri_join(u, limit) ==
    Joined(u, IF u.host = NULL THEN <<>> ELSE Authority(u), limit)

(* The setters: a part that is not well-formed leaves the URI as it is.    *)
Whole(s, part, flags) == end_of_path(s, 1, part, flags) = Len(s) + 1

evhttp_uri_set_scheme(u, s) ==
    IF s # NULL /\ ~scheme_ok(s) THEN u ELSE [u EXCEPT !.scheme = s]
evhttp_uri_set_userinfo(u, s) ==
    IF s # NULL /\ ~userinfo_ok(s) THEN u ELSE [u EXCEPT !.userinfo = s]
evhttp_uri_set_host(u, s) ==
    IF \/ s = NULL
       \/ IF s # <<>> /\ s[1] = "[" THEN bracket_addr_ok(s) ELSE regname_ok(s)
    THEN [u EXCEPT !.host = s] ELSE u
evhttp_uri_set_port(u, n) == IF n < -1 THEN u ELSE [u EXCEPT !.port = n]
evhttp_uri_set_path(u, s) ==
    IF s # NULL /\ ~Whole(s, "path", u.flags) THEN u ELSE [u EXCEPT !.path = s]
evhttp_uri_set_query(u, s) ==
    IF s # NULL /\ ~Whole(s, "query", u.flags) THEN u ELSE [u EXCEPT !.query = s]
evhttp_uri_set_fragment(u, s) ==
    IF s # NULL /\ ~Whole(s, "fragment", u.flags) THEN u
    ELSE [u EXCEPT !.fragment = s]
evhttp_uri_set_flags(u, flags) == [u EXCEPT !.flags = flags]

----------------------------------------------------------------------------
(* Percent encoding: the hexadecimal digits of the characters that are not *)
(* unreserved, and the character of a pair of digits ("other" if it is none *)
(* of the alphabet).                                                       *)
Hex(ch) ==
    CASE ch = " " -> <<"2", "0">> [] ch = "!" -> <<"2", "1">> [] ch = "#" -> <<"2", "3">>
      [] ch = "%" -> <<"2", "5">> [] ch = "&" -> <<"2", "6">> [] ch = "'" -> <<"2", "7">>
      [] ch = "+" -> <<"2", "B">> [] ch = "/" -> <<"2", "F">> [] ch = ":" -> <<"3", "A">>
      [] ch = ";" -> <<"3", "B">> [] ch = "=" -> <<"3", "D">> [] ch = "?" -> <<"3", "F">>
      [] ch = "@" -> <<"4", "0">> [] ch = "[" -> <<"5", "B">> [] ch = "]" -> <<"5", "D">>
      [] ch = "a" -> <<"6", "1">> [] ch = "b" -> <<"6", "2">>
Encoded == {" ", "!", "#", "%", "&", "'", "+", "/", ":", ";", "=", "?", "@", "[", "]",
            "a", "b"}
Upper(d) == CASE d = "a" -> "A" [] d = "b" -> "B" [] OTHER -> d
CharOf(h, l) ==
    IF \E ch \in Encoded : Hex(ch) = <<Upper(h), Upper(l)>>
    THEN CHOOSE ch \in Encoded : Hex(ch) = <<Upper(h), Upper(l)>> ELSE "other"

evhttp_uriencode(s, space_as_plus) ==
    FlattenSeq([i \in 1 .. Len(s) |->
        IF s[i] \in UNRESERVED THEN <<s[i]>>
        ELSE IF s[i] = " " /\ space_as_plus THEN <<"+">> ELSE <<"%">> \o Hex(s[i])])

(* ctl: 1 decodes plus signs, 0 does not, -1 does after a question mark.   *)
RECURSIVE Decode(_, _, _, _)
Decode(s, i, ctl, plus) ==
    IF i > Len(s) THEN <<>>
    ELSE IF s[i] = "?" THEN <<"?">> \o Decode(s, i + 1, ctl, plus \/ ctl < 0)
    ELSE IF s[i] = "+" /\ plus THEN <<" ">> \o Decode(s, i + 1, ctl, plus)
    ELSE IF Escape(s, i)
         THEN <<CharOf(s[i + 1], s[i + 2])>> \o Decode(s, i + 3, ctl, plus)
    ELSE <<s[i]>> \o Decode(s, i + 1, ctl, plus)
evhttp_decode_uri_internal(s, ctl) == Decode(s, 1, ctl, ctl = 1)
evhttp_decode_uri(s) == evhttp_decode_uri_internal(s, -1)
evhttp_uridecode(s, decode_plus) ==
    evhttp_decode_uri_internal(s, IF decode_plus THEN 1 ELSE 0)

(* The arguments of a query, NoArgument for one without a "=" or a key.    *)
(* strsep cuts at the first separator; the key is not decoded.             *)
NoArgument == <<NULL, NULL>>
Argument(s) ==
    LET eq == IndexOf(s, {"="})
    IN  IF eq <= 1 THEN NoArgument
        ELSE <<Upto(s, eq - 1), evhttp_decode_uri_internal(From(s, eq + 1), 1)>>

BadQuery == <<NoArgument>>
RECURSIVE Arguments(_)
Arguments(s) ==
    LET amp == IndexOf(s, {"&"})
        rest == IF amp = 0 THEN <<>> ELSE Arguments(From(s, amp + 1))
        one == Argument(IF amp = 0 THEN s ELSE Upto(s, amp - 1))
    IN  IF s = <<>> THEN <<>>
        ELSE IF one = NoArgument \/ rest = BadQuery THEN BadQuery ELSE <<one>> \o rest

(* The headers, BadQuery for the result -1: then no header is kept.        *)
evhttp_parse_query_str(s) == Arguments(s)
evhttp_parse_query(s) ==
    LET u == evhttp_uri_parse_with_flags(s, FALSE)
    IN  IF ~u.ok THEN BadQuery ELSE IF u.query = NULL THEN <<>> ELSE Arguments(u.query)

----------------------------------------------------------------------------
html_replace(ch) ==
    CASE ch = "<" -> <<"&", "l", "t", ";">>
      [] ch = ">" -> <<"&", "g", "t", ";">>
      [] ch = "\"" -> <<"&", "q", "u", "o", "t", ";">>
      [] ch = "'" -> <<"&", "#", "0", "3", "9", ";">>
      [] ch = "&" -> <<"&", "a", "m", "p", ";">>
      [] OTHER -> <<ch>>

evhttp_htmlescape(html) ==
    FlattenSeq([i \in 1 .. Len(html) |-> html_replace(html[i])])
=============================================================================
