------------------------------- MODULE MCText -------------------------------
(***************************************************************************)
(* What reads and writes text, for TLC: the HTTP parser, the parser of     *)
(* URLs, URIs with queries and HTML, socket addresses, the helpers of      *)
(* public_function.cpp, and the JSON library, whose parts are in MCJson.   *)
(* Each is a part, a behaviour is one of a single part, and what belongs   *)
(* to the others stands still.                                             *)
(***************************************************************************)
EXTENDS HttpParser, TLC

CONSTANTS IntBits, MaxLen,
          MaxInt, NullString      \* of the JSON library

VARIABLES part,
          input, flags,           \* what a function is asked
          out, done,              \* what it answered
          data, len, k, m,        \* AsciiStrToBcd
          r, given1, given2, given3, v, w, aborted, op   \* see MCJson

asked == <<input, flags, out, done>>
bcd == <<data, len, k, m>>
json == <<r, given1, given2, given3, v, w, aborted, op>>
allVars == <<part, vars, asked, bcd, json>>

Services == (<<"http", "tcp">> :> 80) @@ (<<"domain", "udp">> :> 53)
Ipv6Addresses == {<<":", ":", "1">>}

Uri == INSTANCE HttpUri WITH Ipv6 <- Ipv6Addresses
Inet == INSTANCE InetAddr WITH KnownServices <- Services
Helpers == INSTANCE PublicFunction WITH Byte <- {0, 129, 205}, Lens <- {0, 7, 254, 255},
               CharBits <- 8
Json == INSTANCE MCJson WITH x <- given1, y <- given2, z <- given3,
            RightMargin <- 14, IndentSize <- 1

ASSUME IntBitsAssumption == Uri!IntBitsAssumption
ASSUME WidthAssumption == Json!WidthAssumption

-----------------------------------------------------------------------------
(* Messages, put together from pieces that each know their bytes and what  *)
(* the callbacks are to be told of them.                                   *)
Bytes(b) == [b |-> b, l |-> <<>>]
Notify(f) == [b |-> <<>>, l |-> <<<<f, "">>>>]
Data(f, b) == [b |-> b, l |-> [i \in 1 .. Len(b) |-> <<f, b[i]>>]]
Cat(ps) == FoldLeft(LAMBDA a, c : [b |-> a.b \o c.b, l |-> a.l \o c.l], Bytes(<<>>), ps)

CRLF == <<CR, LF>>
Http(major, minor) == <<"H", "T", "T", "P", "/", major, ".", minor>>
Begin == Notify("message_begin")
Req(method, url, minor, eol) ==
    Cat(<<Begin, Bytes(method \o <<SP>>), Data("url", url),
          Bytes(<<SP>> \o Http("1", minor) \o eol)>>)
Res(code, reason, eol) ==
    Cat(<<Begin, Bytes(Http("1", "1") \o <<SP>> \o code),
          Bytes(IF reason = <<>> THEN <<>> ELSE <<SP>>), Data("status", reason),
          Bytes(eol)>>)
Hdr(name, value, eol) ==
    Cat(<<Data("header_field", name), Bytes(<<":", SP>>), Data("header_value", value),
          Bytes(eol)>>)
EndHeaders(eol) == Cat(<<Bytes(eol), Notify("headers_complete")>>)
Done == Notify("message_complete")
Chunk(size, bytes) ==
    Cat(<<Bytes(size \o CRLF), Notify("chunk_header"), Data("body", bytes), Bytes(CRLF),
          Notify("chunk_complete")>>)
LastChunk(trailer) ==
    Cat(<<Bytes(<<"0">> \o CRLF), Notify("chunk_header"), trailer, Bytes(CRLF),
          Notify("chunk_complete")>>)

M(type, skip, errno, ps) ==
    LET c == Cat(ps)
    IN  [bytes |-> c.b, type |-> type, skip |-> skip, log |-> c.l, errno |-> errno]

GetA == Req(<<"G", "e">>, <<"/">>, "1", <<LF>>)
PutA == Req(<<"P", "u">>, <<"/", "a">>, "1", CRLF)
Ok == Res(<<"2", "0", "0">>, <<"o", "k">>, CRLF)
Length(n) == Hdr(CONTENT_LENGTH, n, CRLF)
Chunked == Hdr(<<"T", "e">>, CHUNKED, CRLF)
Body(b) == Data("body", b)

Requests ==
  { \* pipelined requests, with either end of line
    M("REQUEST", FALSE, "OK", <<GetA, EndHeaders(<<LF>>), Done, PutA, Length(<<"2">>),
                                EndHeaders(CRLF), Body(<<"x", LF>>), Done, Bytes(<<LF>>)>>),
    \* nothing may follow when the connection closes
    M("REQUEST", FALSE, "CLOSED_CONNECTION",
      <<GetA, Hdr(CONNECTION, <<"a", ",", SP>> \o CLOSE, <<LF>>), EndHeaders(<<LF>>),
        Done, Bytes(<<CR, "G">>)>>),
    M("REQUEST", FALSE, "CLOSED_CONNECTION",
      <<Req(<<"H", "e">>, <<"*">>, "0", <<LF>>), EndHeaders(<<LF>>), Done, Bytes(<<"G">>)>>),
    M("REQUEST", FALSE, "OK",
      <<Req(<<"C", "p">>, <<"a", ":", "/", "/", "a", "?", "x">>, "0", CRLF),
        Hdr(PROXY_CONNECTION, KEEP_ALIVE \o <<",", "x">>, <<LF>>), EndHeaders(CRLF), Done,
        Begin, Bytes(<<"G", "e", SP, SP>>), Data("url", <<"/", "#", "a">>), Bytes(<<LF>>),
        EndHeaders(<<LF>>), Done>>),
    \* chunks, with a parameter and a trailer
    M("REQUEST", FALSE, "OK",
      <<GetA, Chunked, EndHeaders(CRLF), Chunk(<<"2", ";", "x">>, <<"a", CR>>),
        LastChunk(Hdr(<<"x">>, <<"1">>, CRLF)), Done>>),
    \* an upgrade, with and without a body before it
    M("REQUEST", FALSE, "OK",
      <<GetA, Hdr(UPGRADE, <<"x">>, <<LF>>), Hdr(CONNECTION, UPGRADE, <<LF>>),
        EndHeaders(<<LF>>), Done>>),
    M("REQUEST", FALSE, "OK",
      <<GetA, Hdr(UPGRADE, <<"x">>, <<LF>>), Length(<<"1">>),
        Hdr(CONNECTION, UPGRADE \o <<",", "k", "e">>, <<LF>>),
        EndHeaders(<<LF>>), Body(<<"a">>), Done>>),
    M("REQUEST", FALSE, "OK",
      <<Req(<<"C", "o">>, <<"a", ":", "8">>, "1", CRLF), EndHeaders(CRLF), Done>>),
    \* a value that goes on in the next line, one that is empty, white space before one
    M("REQUEST", FALSE, "OK",
      <<GetA, Data("header_field", <<"c", "x">>), Bytes(<<":", TAB, SP>>),
        Data("header_value", <<"1">>), Bytes(CRLF), Data("header_value", <<SP, "2">>),
        Bytes(<<LF>>), Data("header_field", <<"x">>), Bytes(<<":", SP>> \o CRLF),
        Data("header_field", <<"p">>), Bytes(<<":", LF, SP>>), Data("header_value", <<"a">>),
        Bytes(<<LF>>), EndHeaders(<<LF>>), Done>>),
    \* words that only begin like the ones the parser knows
    M("REQUEST", FALSE, "OK",
      <<GetA, Hdr(CONNECTION \o <<"x">>, CLOSE, <<LF>>),
        Hdr(CONNECTION, CLOSE \o <<"x">>, <<LF>>),
        Hdr(<<"t", "e">>, CHUNKED \o <<"x">>, <<LF>>), EndHeaders(<<LF>>), Done, GetA,
        EndHeaders(<<LF>>), Done>>) }

Refused ==
  { M("REQUEST", FALSE, "INVALID_CONTENT_LENGTH",
      <<GetA, Data("header_field", CONTENT_LENGTH), Bytes(<<":">>),
        Data("header_value", <<"9", "9", "9", "9">>)>>),
    M("REQUEST", FALSE, "INVALID_CONTENT_LENGTH",
      <<GetA, Chunked, EndHeaders(CRLF), Bytes(<<"c", "c", "c", "c">>)>>),
    M("REQUEST", FALSE, "INVALID_CHUNK_SIZE",
      <<GetA, Chunked, EndHeaders(CRLF), Bytes(<<"x">>)>>),
    M("REQUEST", FALSE, "INVALID_EOF_STATE", <<GetA, Length(<<"3">>), EndHeaders(CRLF),
                                               Body(<<"a", "a">>)>>),
    M("REQUEST", FALSE, "INVALID_METHOD", <<Begin, Bytes(<<"G", "o">>)>>),
    M("REQUEST", FALSE, "INVALID_URL", <<Begin, Bytes(<<"P", "o", SP>>), Data("url", <<"h", ":", "#">>)>>),
    M("REQUEST", FALSE, "INVALID_VERSION",
      <<Begin, Bytes(<<"P", "o", SP>>), Data("url", <<"/">>),
        Bytes(<<SP, "H", "T", "T", "P", "/", "0">>)>>),
    M("REQUEST", FALSE, "INVALID_HEADER_TOKEN",
      <<GetA, Data("header_field", <<"a", "x">>), Bytes(<<SP>>)>>),
    M("REQUEST", FALSE, "LF_EXPECTED",
      <<Begin, Bytes(<<"P", "u", SP>>), Data("url", <<"/">>), Bytes(<<CR, "x">>)>>),
    M("REQUEST", FALSE, "STRICT", <<GetA, Hdr(<<"x">>, <<"1">>, <<CR, CR>>)>>),
    M("RESPONSE", FALSE, "INVALID_STATUS",
      <<Begin, Bytes(Http("1", "1") \o <<SP, "1", "0", "0", "0">>)>>) }

Responses ==
  { M("RESPONSE", FALSE, "OK", <<Ok, EndHeaders(CRLF), Body(<<"a", "x">>), Done>>),
    M("RESPONSE", FALSE, "OK",
      <<Ok, Length(<<"2">>), EndHeaders(CRLF), Body(<<"a", "x">>), Done,
        Res(<<"3", "0", "4">>, <<>>, <<LF>>), EndHeaders(CRLF), Done>>),
    \* the answer to a HEAD request has a length and no body
    M("RESPONSE", TRUE, "OK",
      <<Ok, Length(<<"2">>), EndHeaders(CRLF), Done, Ok, EndHeaders(CRLF), Done>>),
    M("BOTH", FALSE, "OK",
      <<Bytes(CRLF), Ok, Chunked, EndHeaders(CRLF), Chunk(<<"1">>, <<"a">>),
        LastChunk(Bytes(<<>>)), Done>>),
    M("BOTH", FALSE, "OK", <<Req(<<"H", "e">>, <<"/">>, "1", CRLF), EndHeaders(CRLF), Done>>),
    M("BOTH", FALSE, "OK", <<GetA, Length(<<"0">>), EndHeaders(CRLF), Done>>) }

NoBytes == M("REQUEST", FALSE, "OK", <<>>)
Messages == {NoBytes} \cup Requests \cup Refused \cup Responses

-----------------------------------------------------------------------------
(* URLs put together from parts, as sequences of characters.               *)
UrlPart == [schema : {<<>>, <<"h", "t">>},
            userinfo : {<<>>, <<"a">>, <<"a", ":", "x">>},
            host : {<<"a", ".", "c">>, <<"[", ":", "1", "]">>,
                    <<"[", "a", "%", "x", "]">>},
            port : {<<>>, <<"8", "0">>, <<"6", "5", "5", "3", "6">>},
            path : {<<>>, <<"/">>, <<"/", "@">>},
            query : {<<>>, <<"a", "?">>},
            fragment : {<<>>, <<"x", "#">>}]

Before(s, t) == IF t = <<>> THEN <<>> ELSE s \o t
Followed(t, s) == IF t = <<>> THEN <<>> ELSE t \o s
UrlText(y) ==
    Followed(y.schema, <<":", "/", "/">>) \o Followed(y.userinfo, <<"@">>) \o y.host
        \o Before(<<":">>, y.port) \o y.path \o Before(<<"?">>, y.query)
        \o Before(<<"#">>, y.fragment)

(* A URL with a host needs a schema, unless it is the target of CONNECT;   *)
(* a fragment can only follow a path or a query.                           *)
Sensible(y) ==
    /\ y.schema = <<>> => /\ y.userinfo = <<>> /\ y.path = <<>> /\ y.query = <<>>
                          /\ y.fragment = <<>>
    /\ y.fragment # <<>> => y.path # <<>> \/ y.query # <<>>

Texts(C, n) == UNION {[1 .. i -> C] : i \in 0 .. n}
UrlAlphabet == {"a", "1", ":", "/", "@", "[", "]", "?"}
UriAlphabet == {"a", "2", ":", "/", "@", "?", "#", "%"}

-----------------------------------------------------------------------------
(* URIs put together from parts, or built with the setters.                *)
NULL == Uri!NULL
UriPart == [scheme : {NULL, <<"a", "+">>}, userinfo : {NULL, <<>>, <<"a", ":", "%", "2", "0">>},
            host : {NULL, <<>>, <<"a", ".", "%", "4", "0">>, <<"[", ":", ":", "1", "]">>,
                    <<"[", "v", "a", ".", ":", "]">>, <<"8">>},
            port : {-1, 0, 80, 127},
            path : {<<>>, <<"/">>, <<"a", ":">>, <<"/", "/", "@">>, <<"a", "/", ":">>},
            query : {NULL, <<>>, <<"a", "?">>}, fragment : {NULL, <<>>, <<"?", "/">>}]

(* What a URI must be for its text to name the same parts.                 *)
WellCombined(y) ==
    /\ y.host = NULL => /\ y.userinfo = NULL /\ y.port = -1
                        /\ y.path # NULL => ~Uri!StartsWith(y.path, <<"/", "/">>)
    /\ y.host # NULL => y.path \in {NULL, <<>>} \/ y.path[1] = "/"
    /\ y.scheme = NULL /\ y.host = NULL /\ y.path # NULL => Uri!path_matches_noscheme(y.path)

Fields(y) ==
    Uri!Uri(flags, y.scheme, y.userinfo, y.host, y.port,
            IF y.path = NULL THEN <<>> ELSE y.path, y.query, y.fragment)

Limit == 100
ParsedUri(s) == Uri!evhttp_uri_parse_with_flags(s, flags)
UriText(y) == Uri!evhttp_uri_join(y, Limit)

HtmlAlphabet == {"a", "<", ">", "\"", "'", "&", ";", "l", "t"}
Plain == {"a", "+", "&", "=", " ", "%", "2", "?"}
Keys == {<<"a">>, <<"b", "2">>}
Queries == {<<>>} \cup {<<a>> : a \in Keys \X Texts(Plain, 3)}
           \cup (Keys \X Texts(Plain, 1)) \X (Keys \X Texts(Plain, 1))

QueryText(q, plus) ==
    FlattenSeq([i \in 1 .. Len(q) |->
        (IF i = 1 THEN <<>> ELSE <<"&">>) \o q[i][1] \o <<"=">>
            \o Uri!evhttp_uriencode(q[i][2], plus)])

ReadQuery(s) ==
    IF Len(input) > 1 THEN Uri!evhttp_parse_query_str(s)
    ELSE Uri!evhttp_parse_query(<<"/">> \o Before(<<"?">>, s))

Setters(s) ==
    {Uri!evhttp_uri_set_scheme(out, s), Uri!evhttp_uri_set_userinfo(out, s),
     Uri!evhttp_uri_set_host(out, s), Uri!evhttp_uri_set_path(out, s),
     Uri!evhttp_uri_set_query(out, s), Uri!evhttp_uri_set_fragment(out, s),
     Uri!evhttp_uri_set_port(out, IF s = NULL THEN -1 ELSE Len(s))}
Values == {NULL, <<>>, <<"a">>, <<"a", ":", "a">>, <<"/", "a">>, <<"/", "/", "a">>,
           <<"[", ":", ":", "1", "]">>}

-----------------------------------------------------------------------------
(* Socket addresses: the words of an IPv6 address, its text with "::" in   *)
(* any place and with a dotted quad or none, and what getaddrinfo is asked.*)
V6 == [1 .. 8 -> {0, 26, 65535}]
V4 == {<<0, 1>>, <<32513, 65535>>}
SomeV6 == {<<0, 0, 0, 0, 0, 0, 0, 1>>, <<1, 0, 0, 65535, 0, 0, 1, 0>>, <<0, 0, 0, 0, 0, 65535, 1, 1>>}
Sockaddrs == {Inet!Sockaddr(Inet!AF_INET, a, port) : a \in V4, port \in {1, 65535}}
             \cup {Inet!Sockaddr(Inet!AF_INET6, a, port) : a \in SomeV6, port \in {1, 65535}}

Colon == Inet!Colon
Words(ws) == FlattenSeq([i \in DOMAIN ws |->
                IF i = Len(ws) THEN <<Inet!Word(ws[i])>> ELSE <<Inet!Word(ws[i]), Colon>>])
TheQuad == Inet!Quad(1, 65535)

Shapes == {s \in [before : 0 .. 8, gap : BOOLEAN, after : 0 .. 8, quad : BOOLEAN] :
             LET n == s.before + s.after + (IF s.quad THEN 2 ELSE 0) IN
             /\ s.gap => n <= 7
             /\ ~ s.gap => n = 8 /\ s.after = 0}
Numbered(a, n) == [i \in 1 .. n |-> a + i]
ShapeText(s) ==
    LET left == Words(Numbered(0, s.before))
        right == Words(Numbered(s.before, s.after))
        last == IF s.quad THEN <<TheQuad>> ELSE <<>>
        joint == IF (IF s.gap THEN s.after > 0 ELSE TRUE) /\ s.quad THEN <<Colon>> ELSE <<>>
    IN  left \o (IF s.gap THEN <<Colon, Colon>> \o right ELSE <<>>) \o joint \o last
ShapeAddress(s) ==
    LET quad == IF s.quad THEN TheQuad.v ELSE <<>> IN
    Numbered(0, s.before) \o [i \in 1 .. 8 - s.before - s.after - Len(quad) |-> 0]
        \o Numbered(s.before, s.after) \o quad

Hints == [family : {Inet!AF_UNSPEC, Inet!AF_INET, Inet!AF_INET6, 1},
          socktype : {"any", "stream", "dgram"}, proto : {"any", "tcp", "udp", "sctp"},
          flags : SUBSET {"passive", "numerichost", "numericserv"}]
Nodes == {Inet!NoNode, <<TheQuad>>, <<Colon, Colon, Inet!Word(1)>>, <<Colon, Inet!Word(1)>>}
Servs == {Inet!NoService, [name |-> "80", number |-> 80], [name |-> "70000", number |-> 70000],
          [name |-> "http", number |-> -1], [name |-> "domain", number |-> -1]}

SockaddrStorage == 128
Compare(a, b) == Inet!evutil_sockaddr_cmp(input[a], input[b], TRUE)

-----------------------------------------------------------------------------
ParserStill ==
    /\ msg = NoBytes /\ x = NewParser("REQUEST")
    /\ pos = 1 /\ log = <<>> /\ phase = "feed" /\ cuts = 0 /\ stops = 0
Nothing == input = <<>> /\ flags = FALSE /\ out = <<>> /\ done = FALSE
NoBcd == data = <<>> /\ len = 0 /\ k = 0 /\ m = 0
JsonStill ==
    /\ r = <<>> /\ given1 = <<>> /\ given2 = <<>> /\ given3 = <<>>
    /\ v = <<>> /\ w = <<>> /\ aborted = FALSE /\ op = <<>>

AskedInit ==
    /\ \/ part = "characters" /\ input \in Texts(UrlAlphabet, MaxLen) /\ flags \in BOOLEAN
       \/ part = "url" /\ input \in {y \in UrlPart : Sensible(y)} /\ flags = (input.schema = <<>>)
       \/ part = "text" /\ input \in Texts(UriAlphabet, MaxLen) /\ flags \in BOOLEAN
       \/ part = "parts" /\ input \in {y \in UriPart : WellCombined(y)} /\ flags \in BOOLEAN
       \/ part = "build" /\ input = <<>> /\ flags \in BOOLEAN
       \/ part = "query" /\ input \in Queries /\ flags \in BOOLEAN
       \/ part = "html" /\ input \in Texts(HtmlAlphabet, MaxLen) /\ flags = FALSE
       \/ part = "shape" /\ input \in Shapes /\ flags = FALSE
       \/ part = "address" /\ input \in V6 /\ flags = FALSE
       \/ part = "order" /\ input \in Sockaddrs \X Sockaddrs \X Sockaddrs /\ flags = FALSE
       \/ part = "info" /\ input \in Nodes \X Servs \X Hints /\ flags = FALSE
    /\ out = (IF part = "build" THEN Uri!evhttp_uri_set_flags(Uri!evhttp_uri_new, flags) ELSE <<>>)
    /\ done = FALSE

AllInit ==
    \/ part = "message" /\ Init /\ Nothing /\ NoBcd /\ JsonStill
    \/ AskedInit /\ ParserStill /\ NoBcd /\ JsonStill
    \/ /\ part = "bcd" /\ Helpers!Init /\ ParserStill /\ JsonStill
       /\ input = <<>> /\ flags = FALSE /\ out = <<>>
    \/ Json!AllInit /\ ParserStill /\ Nothing /\ NoBcd

Answer ==
    CASE part = "url" -> http_parser_parse_url(UrlText(input), flags)
      [] part = "characters" -> http_parser_parse_url(input, flags)
      [] part = "text" -> ParsedUri(input)
      [] part = "parts" -> ParsedUri(UriText(Fields(input)))
      [] part = "query" -> ReadQuery(QueryText(input, flags))
      [] part = "html" -> Uri!evhttp_htmlescape(input)
      [] part = "address" -> Inet!evutil_inet_pton(Inet!AF_INET6,
                                 Inet!evutil_inet_ntop(Inet!AF_INET6, input, 64))
      [] part = "shape" -> Inet!evutil_inet_pton(Inet!AF_INET6, ShapeText(input))
      [] part = "order" -> <<Compare(1, 2), Compare(2, 3), Compare(1, 3), Compare(2, 1)>>
      [] part = "info" -> Inet!evutil_getaddrinfo_common(input[1], input[2], input[3])

Ask ==
    /\ part \notin {"message", "build", "bcd"} \cup Json!Parts /\ ~done
    /\ done' = TRUE /\ out' = Answer
    /\ UNCHANGED <<part, vars, input, flags, bcd, json>>

Build ==
    /\ part = "build"
    /\ \E s \in Values : out' \in Setters(s)
    /\ UNCHANGED <<part, vars, input, flags, done, bcd, json>>

AllNext ==
    \/ part = "message" /\ Next /\ UNCHANGED <<part, asked, bcd, json>>
    \/ part = "bcd" /\ Helpers!Next /\ UNCHANGED <<part, vars, input, flags, out, json>>
    \/ Ask \/ Build
    \/ Json!AllNext /\ UNCHANGED <<vars, asked, bcd>>

AllSpec == AllInit /\ [][AllNext]_allVars

-----------------------------------------------------------------------------
(* Properties; ToldAsSent, SameVerdict and AssertsHold are HttpParser's.   *)

Bare(f, s) == IF f = "host" /\ s[1] = "[" THEN SubSeq(s, 2, Len(s) - 1) ELSE s

(* A URL that was put together from its parts is taken apart into exactly  *)
(* these, brackets of an IPv6 address not counted, and is refused exactly  *)
(* when its port does not fit into 16 bits or CONNECT lacks a port         *)
(* (http_parser.c:2343-2444).                                              *)
PartsFound ==
    part = "url" /\ done =>
        IF input.port = <<"6", "5", "5", "3", "6">> \/ (flags /\ input.port = <<>>)
        THEN ~out.ok
        ELSE /\ out.ok
             /\ DOMAIN out.u = {f \in DOMAIN input : input[f] # <<>>}
             /\ \A f \in DOMAIN out.u :
                   SubSeq(UrlText(input), out.u[f][1], out.u[f][1] + out.u[f][2] - 1)
                       = Bare(f, input[f])

(* Whatever is parsed, the fields of an accepted URL lie inside it, do not *)
(* overlap, and nothing but delimiters lies outside of them: no character  *)
(* is lost or counted twice (http_parser.c:2262-2337, 2356-2412).          *)
FieldsApart ==
    part = "characters" /\ done /\ out.ok =>
        LET Places(f) == out.u[f][1] .. out.u[f][1] + out.u[f][2] - 1
        IN  /\ \A f \in DOMAIN out.u : Places(f) \subseteq 1 .. Len(input)
            /\ \A f, g \in DOMAIN out.u : f # g => Places(f) \cap Places(g) = {}
            /\ \A i \in 1 .. Len(input) :
                  \/ \E f \in DOMAIN out.u : i \in Places(f)
                  \/ input[i] \in {":", "/", "@", "[", "]", "?", "#"}

(* A URI that was parsed can be joined, and its text parses to the same    *)
(* parts (the round trip of evhttp_uri_parse_with_flags and                *)
(* evhttp_uri_join that TT_URI of regress_http.c tries on 25 texts).       *)
JoinParses ==
    part = "text" /\ done /\ out.ok => UriText(out) # NULL /\ ParsedUri(UriText(out)) = out

(* The text of well-formed parts that go together parses to these parts:   *)
(* no separator in one part is taken for the start of another              *)
(* (evhttp_uri_join, http.c:4466-4529).                                    *)
PartsParsed == part = "parts" /\ done => out = Fields(input)

(* Parts that setters accept and that go together are read back from the   *)
(* joined text: what a setter lets through cannot change another part      *)
(* (evhttp_uri_set_scheme and the others, http.c).                         *)
BuiltCombinedParses ==
    part = "build" /\ WellCombined(out) => ParsedUri(UriText(out)) = Fields(out)

(* The arguments of a query are the keys and values it was made from, with *)
(* spaces as plus signs or not: evhttp_uriencode leaves no separator, and  *)
(* evhttp_parse_query_str cuts before it decodes.                          *)
QueryArguments == part = "query" /\ done => out = input

(* Decoding undoes encoding (evhttp_uriencode, evhttp_uridecode).          *)
DecodesEncoded ==
    part = "query" /\ done => \A i \in 1 .. Len(input) :
        Uri!evhttp_uridecode(Uri!evhttp_uriencode(input[i][2], flags), flags) = input[i][2]

(* What one character of escaped HTML stands for, and the text it shows.   *)
Shown(s) ==
    LET at(i) == {ch \in HtmlAlphabet : Uri!html_replace(ch) # <<ch>>
                       /\ IsPrefix(Uri!html_replace(ch), SubSeq(s, i, Len(s)))}
        f[i \in 1 .. Len(s) + 1] ==
            IF i > Len(s) THEN <<>>
            ELSE IF at(i) = {} THEN <<s[i]>> \o f[i + 1]
            ELSE LET ch == CHOOSE ch \in at(i) : TRUE
                 IN  <<ch>> \o f[i + Len(Uri!html_replace(ch))]
    IN  f[1]

(* Escaped HTML shows the text it was made from and nothing of it is taken *)
(* for markup (evhttp_htmlescape).                                         *)
HtmlShown ==
    part = "html" /\ done => /\ Shown(out) = input
                             /\ \A i \in 1 .. Len(out) : out[i] \notin {"<", ">", "\"", "'"}

(* The text that evutil_inet_ntop writes for an address is read back as    *)
(* the address, whichever zeros "::" stands for and whether or not the     *)
(* last words are written as an IPv4 address (evutil.c).                   *)
AddressRead == part = "address" /\ done => out = input

(* evutil_inet_pton reads every well-formed text, with "::" anywhere and   *)
(* with or without a dotted quad, as the words it stands for (evutil.c).   *)
ShapeRead == part = "shape" /\ done => out = ShapeAddress(input)

(* A socket address is read back from its text, the colons of an IPv6      *)
(* address apart from the one before the port; without the port the same   *)
(* text has port 0 (evutil_parse_sockaddr_port).                           *)
SockaddrRead ==
    part = "order" /\ done =>
        LET sa == input[1] IN
        /\ Inet!evutil_parse_sockaddr_port(Inet!evutil_format_sockaddr_port(sa), SockaddrStorage)
               = sa
        /\ Inet!evutil_parse_sockaddr_port(Inet!evutil_inet_ntop(sa.family, sa.addr, 128),
                                           SockaddrStorage)
               = [sa EXCEPT !.port = 0]

(* evutil_sockaddr_cmp orders socket addresses of both families: only      *)
(* equal ones compare as 0, and the signs are those of a total order.      *)
TotalOrder ==
    part = "order" /\ done =>
        /\ (out[1] = 0) = (input[1] = input[2])
        /\ (out[1] < 0) = (out[4] > 0)
        /\ (out[1] < 0 /\ out[2] < 0) => out[3] < 0

(* What evutil_getaddrinfo_common answers by itself fits the hints:        *)
(* family, socket type, protocol and port; a user that has not decided     *)
(* gets TCP and UDP for every address, and one that forbids a resolver is  *)
(* never sent to one.                                                      *)
FitsHints ==
    part = "info" /\ done =>
        LET serv == input[2]  hints == input[3] IN
        /\ \A i \in DOMAIN out.infos :
              LET info == out.infos[i] IN
              /\ hints.family \in {Inet!AF_UNSPEC, info.sa.family}
              /\ hints.socktype \in {"any", info.socktype} /\ hints.proto \in {"any", info.proto}
              /\ hints.socktype = "any" \/ hints.proto = "any" =>
                    <<info.socktype, info.proto>>
                        \in {<<"stream", "tcp">>, <<"dgram", "udp">>, <<"stream", "sctp">>}
              /\ serv.number >= 0 => info.sa.port = serv.number
              /\ hints.socktype = "any" /\ hints.proto = "any" =>
                    {"tcp", "udp"} = {out.infos[j].proto :
                                        j \in {n \in DOMAIN out.infos : out.infos[n].sa = info.sa}}
        /\ out.result = "ok" <=> out.infos # <<>>
        /\ "numerichost" \in hints.flags => out.result # "need_resolve"

(* A message followed by its check byte has the check byte 0, and bytes    *)
(* that change places do not change it (public_function.cpp:18-26).        *)
BccIsCheckByte == part = "bcd" => Helpers!BccIsCheckByte

(* GenerateCRC32 is the CRC of the message, but a byte 0xcd in the last    *)
(* word counts as zero (public_function.cpp:28-93).                        *)
CrcIsRemainder == part = "bcd" => Helpers!CrcIsRemainder

(* A byte is recovered from its two hexadecimal digits, and the low 16     *)
(* bits of a number from its two bytes (public_function.cpp:104-154).      *)
ConversionsInvert == part = "bcd" => Helpers!ConversionsInvert

(* A conversion writes one byte for every two characters and ends, unless  *)
(* there are 255 (public_function.cpp:96-140).                             *)
BcdSize == part = "bcd" => Helpers!BcdSize

-----------------------------------------------------------------------------
(* What the runs check: the properties above by what they are about. *)

(* http_parser.c tells what was sent, however it is cut into pieces, comes *)
(* to the same verdict, and its assertions hold.                           *)
ParserSound ==
    /\ ToldAsSent /\ SameVerdict /\ AssertsHold

(* URLs, URIs, queries, HTML and addresses that were written are read      *)
(* back, and parts that are found are those of the text (http_parser.c,    *)
(* http.c, evutil.c).                                                      *)
TextRead ==
    /\ PartsFound /\ FieldsApart /\ JoinParses /\ PartsParsed
    /\ BuiltCombinedParses /\ QueryArguments /\ DecodesEncoded /\ HtmlShown
    /\ AddressRead /\ ShapeRead /\ SockaddrRead /\ TotalOrder /\ FitsHints

(* The checksums and conversions of public_function.cpp compute what their *)
(* code is for, with two exceptions that are part of the property: the sum *)
(* of a message takes 0xcd in its last word for zero, and the conversion   *)
(* of 255 characters never ends.                                           *)
HelpersRight ==
    /\ BccIsCheckByte /\ CrcIsRemainder /\ ConversionsInvert /\ BcdSize

(* The JSON library is ordered, converted, read and written as its code    *)
(* and the grammar say: see MCJson (json_value.cpp, json_reader.cpp,       *)
(* json_writer.cpp).                                                       *)
JsonSound == Json!JsonSound

(* What a step of a program may never do to a JSON value: make a path that *)
(* is not found, lose an element when one is appended, change others when  *)
(* it is resized, move a comment (json_value.cpp).                         *)
JsonSteps == Json!JsonSteps

=============================================================================
