----------------------------- MODULE HttpParser -----------------------------
(***************************************************************************)
(* http_parser_execute of http_parser.c, and the application that feeds a  *)
(* message to it in pieces, may pause it in any callback and resumes it.   *)
(* One step is one pass through the switch, for the byte at p; a pass that *)
(* ends with "goto reexecute" leaves p where it is.  The struct and the    *)
(* locals of a call (p, the mark) are one record, and the cases of the     *)
(* switch are operators on it.  Words that the code compares letter by     *)
(* letter are words of two or three letters here.                          *)
(***************************************************************************)
EXTENDS Integers, Sequences, FiniteSets, SequencesExt

CONSTANTS Message,        \* records of bytes, type, skip, log and errno
          HTTP_MAX_HEADER_SIZE,
          UllongMax,      \* stands for 2^64 - 1
          MaxCuts,        \* bound on the cuts of a message
          MaxStops        \* bound on the callbacks that pause or fail

VARIABLES msg,    \* the message
          x,      \* the parser and the locals of http_parser_execute
          pos,    \* the next byte to hand over
          log,    \* what the callbacks were told
          phase, cuts, stops

vars == <<msg, x, pos, log, phase, cuts, stops>>

-----------------------------------------------------------------------------
(* The URL parser: parse_url_char, which the message parser shares,        *)
(* http_parse_host and http_parser_parse_url.  Characters are the members  *)
(* of a small alphabet with one or more of every class that the code tells *)
(* apart; a URL is a sequence of them.  The build is the default one,      *)
(* HTTP_PARSER_STRICT.                                                     *)

CR == "CR"   LF == "LF"   SP == " "   TAB == "TAB"
NUM == {"0", "1", "2", "3", "4", "5", "6", "7", "8", "9"}
ALPHA == {"a", "c", "e", "h", "k", "l", "n", "o", "p", "s", "t", "u", "x",
          "C", "G", "H", "P", "T"}
HEX == NUM \cup {"a", "c", "e"}
MARKS == {"-", "."}

Val(ch) == CHOOSE n \in 0 .. 9 : ToString(n) = ch

IS_ALPHA(ch) == ch \in ALPHA
IS_NUM(ch) == ch \in NUM
IS_USERINFO_CHAR(ch) == ch \in ALPHA \cup NUM \cup MARKS \cup {"%", ";", ":", ","}
IS_URL_CHAR(ch) ==
    ch \in ALPHA \cup NUM \cup MARKS
              \cup {"%", ";", ":", ",", "/", "*", "@", "[", "]"}
IS_HOST_CHAR(ch) == ch \in ALPHA \cup NUM \cup MARKS

parse_url_char(s, ch) ==
    LET server == {"s_req_server_start", "s_req_server", "s_req_server_with_at"}
        query == {"s_req_query_string_start", "s_req_query_string"}
    IN  CASE ch \in {SP, CR, LF, TAB} -> "s_dead"
          [] s = "s_req_spaces_before_url" /\ ch \in {"/", "*"} -> "s_req_path"
          [] s = "s_req_spaces_before_url" /\ IS_ALPHA(ch) -> "s_req_schema"
          [] s = "s_req_schema" /\ IS_ALPHA(ch) -> s
          [] s = "s_req_schema" /\ ch = ":" -> "s_req_schema_slash"
          [] s = "s_req_schema_slash" /\ ch = "/" -> "s_req_schema_slash_slash"
          [] s = "s_req_schema_slash_slash" /\ ch = "/" -> "s_req_server_start"
          [] s = "s_req_server_with_at" /\ ch = "@" -> "s_dead"
          [] s \in server /\ ch = "/" -> "s_req_path"
          [] s \in server /\ ch = "?" -> "s_req_query_string_start"
          [] s \in server /\ ch = "@" -> "s_req_server_with_at"
          [] s \in server /\ (IS_USERINFO_CHAR(ch) \/ ch \in {"[", "]"}) -> "s_req_server"
          [] s = "s_req_path" /\ IS_URL_CHAR(ch) -> s
          [] s = "s_req_path" /\ ch = "?" -> "s_req_query_string_start"
          [] s = "s_req_path" /\ ch = "#" -> "s_req_fragment_start"
          [] s \in query /\ (IS_URL_CHAR(ch) \/ ch = "?") -> "s_req_query_string"
          [] s \in query /\ ch = "#" -> "s_req_fragment_start"
          [] s = "s_req_fragment_start" /\ (IS_URL_CHAR(ch) \/ ch = "?") -> "s_req_fragment"
          [] s = "s_req_fragment_start" /\ ch = "#" -> s
          [] s = "s_req_fragment" /\ (IS_URL_CHAR(ch) \/ ch \in {"?", "#"}) -> s
          [] OTHER -> "s_dead"

http_parse_host_char(s, ch) ==
    CASE s \in {"userinfo", "userinfo_start"} /\ ch = "@" -> "host_start"
      [] s \in {"userinfo", "userinfo_start"} /\ IS_USERINFO_CHAR(ch) -> "userinfo"
      [] s = "host_start" /\ ch = "[" -> "v6_start"
      [] s \in {"host_start", "host"} /\ IS_HOST_CHAR(ch) -> "host"
      [] s \in {"host", "v6_end"} /\ ch = ":" -> "port_start"
      [] s \in {"v6", "v6_zone"} /\ ch = "]" -> "v6_end"
      [] s \in {"v6", "v6_start"} /\ ch \in HEX \cup {":", "."} -> "v6"
      [] s = "v6" /\ ch = "%" -> "v6_zone_start"
      [] s \in {"v6_zone", "v6_zone_start"}
             /\ ch \in ALPHA \cup NUM \cup MARKS \cup {"%"} -> "v6_zone"
      [] s \in {"port", "port_start"} /\ IS_NUM(ch) -> "port"
      [] OTHER -> "dead"

-----------------------------------------------------------------------------
(* struct http_parser_url: a field is <<offset, length>>; a field that is  *)
(* not in field_set is not in the domain.                                  *)

Failed == [ok |-> FALSE, u |-> <<>>]
Found(u) == [ok |-> TRUE, u |-> u]
Set(u, f, v) == [g \in DOMAIN u \cup {f} |-> IF g = f THEN v ELSE u[g]]
Longer(u, f) == [u EXCEPT ![f] = <<@[1], @[2] + 1>>]

(* One character of http_parse_host: the field that it starts or extends.  *)
HostChar(buf, st, p) ==
    LET new == http_parse_host_char(st.s, buf[p])
        u == st.u
        v == CASE new \in {"host", "v6"} ->
                    IF st.s # new THEN Set(u, "host", <<p, u["host"][2] + 1>>)
                                  ELSE Longer(u, "host")
               [] new \in {"v6_zone_start", "v6_zone"} -> Longer(u, "host")
               [] new \in {"port", "userinfo"} ->
                    IF st.s # new THEN Set(u, new, <<p, 1>>) ELSE Longer(u, new)
               [] OTHER -> u
    IN  IF st.s = "dead" THEN st ELSE [s |-> new, u |-> v]

http_parse_host(buf, u, found_at) ==
    LET first == u["host"][1]
        last == first + u["host"][2] - 1
        st == FoldLeft(LAMBDA y, i : HostChar(buf, y, i),
                       [s |-> IF found_at THEN "userinfo_start" ELSE "host_start",
                        u |-> [u EXCEPT !["host"] = <<first, 0>>]],
                       [i \in 1 .. last - first + 1 |-> first + i - 1])
    IN  IF st.s \in {"host", "v6_end", "port"} THEN Found(st.u) ELSE Failed

(* The field that a state of the parser belongs to; delimiters have none.  *)
FieldOf(s) ==
    CASE s = "s_req_schema" -> "schema"
      [] s \in {"s_req_server", "s_req_server_with_at"} -> "host"
      [] s = "s_req_path" -> "path"
      [] s = "s_req_query_string" -> "query"
      [] s = "s_req_fragment" -> "fragment"
      [] OTHER -> "none"

UrlChar(buf, st, p) ==
    LET s == parse_url_char(st.s, buf[p])
        uf == FieldOf(s)
    IN  IF st.s = "s_dead" THEN st
        ELSE [s |-> s,
              at |-> st.at \/ s = "s_req_server_with_at",
              old |-> IF uf = "none" THEN st.old ELSE uf,
              u |-> IF uf = "none" THEN st.u
                    ELSE IF uf = st.old THEN Longer(st.u, uf)
                    ELSE Set(st.u, uf, <<p, 1>>)]

PortValue(buf, u) ==
    FoldLeft(LAMBDA v, i : 10 * v + Val(buf[i]), 0,
             [i \in 1 .. u["port"][2] |-> u["port"][1] + i - 1])

(* http_parser_parse_url: the fields of the URL, or Failed.                *)
http_parser_parse_url(buf, is_connect) ==
    LET st == FoldLeft(LAMBDA y, i : UrlChar(buf, y, i),
                       [s |-> IF is_connect THEN "s_req_server_start"
                              ELSE "s_req_spaces_before_url",
                        at |-> FALSE, old |-> "none", u |-> <<>>],
                       [i \in 1 .. Len(buf) |-> i])
        has == DOMAIN st.u
        v == IF "host" \in has THEN http_parse_host(buf, st.u, st.at)
                               ELSE Found(st.u)
    IN  IF \/ st.s = "s_dead"
           \/ "schema" \in has /\ "host" \notin has
           \/ is_connect /\ DOMAIN v.u # {"host", "port"}
           \/ "port" \in DOMAIN v.u /\ PortValue(buf, v.u) > 65535
        THEN Failed ELSE v

-----------------------------------------------------------------------------
(* The message parser.                                                     *)

CONNECTION == <<"c", "n", "e">>
CONTENT_LENGTH == <<"c", "t", "l">>
PROXY_CONNECTION == <<"p", "c">>
TRANSFER_ENCODING == <<"t", "e">>
UPGRADE == <<"u", "p">>
CHUNKED == <<"c", "h">>
KEEP_ALIVE == <<"k", "a">>
CLOSE == <<"c", "s">>
method_strings == [GET |-> <<"G", "e">>, CONNECT |-> <<"C", "o">>,
                   COPY |-> <<"C", "p">>, HEAD |-> <<"H", "e">>,
                   POST |-> <<"P", "o">>, PUT |-> <<"P", "u">>]

LOWER(ch) == CASE ch = "C" -> "c" [] ch = "T" -> "t" [] OTHER -> ch
TOKEN(ch) == ch \in ALPHA \cup NUM \cup MARKS \cup {"*", "%", "#"}
Unlimited == -1   \* ULLONG_MAX in content_length

(* http_parser_init                                                        *)
NewParser(type) ==
    [type |-> type, state |-> CASE type = "REQUEST" -> "s_start_req"
                                [] type = "RESPONSE" -> "s_start_res"
                                [] OTHER -> "s_start_req_or_res",
     header_state |-> "h_general", index |-> 0, flags |-> {}, nread |-> 0,
     content_length |-> 0, major |-> 0, minor |-> 0, status |-> 0,
     method |-> "GET", upgrade |-> FALSE, errno |-> "OK",
     p |-> 1, end |-> 1, mark |-> "none", from |-> 0,
     cb |-> "none", to |-> 0, ret |-> 0, late |-> 0, go |-> "next",
     bad |-> FALSE]

Init ==
    /\ msg \in Message
    /\ x = NewParser(msg.type)
    /\ pos = 1
    /\ log = <<>>
    /\ phase = "feed"
    /\ cuts = 0
    /\ stops = 0

-----------------------------------------------------------------------------
(* The macros                                                              *)

To(y, s) == [y EXCEPT !.state = s]
Redo(y, s) == [y EXCEPT !.state = s, !.go = "redo"]
Fail(y, e) == [y EXCEPT !.errno = e, !.go = "return", !.ret = y.p]
CALLBACK_NOTIFY(y, f) == [y EXCEPT !.cb = f, !.ret = y.p + 1, !.to = 0]
CALLBACK_NOTIFY_NOADVANCE(y, f) == [y EXCEPT !.cb = f, !.ret = y.p, !.to = 0]
DataUpTo(y, f, to, ret) ==
    IF y.mark = f THEN [y EXCEPT !.cb = f, !.to = to, !.ret = ret] ELSE y
CALLBACK_DATA(y, f) == DataUpTo(y, f, y.p - 1, y.p + 1)
CALLBACK_DATA_NOADVANCE(y, f) == DataUpTo(y, f, y.p - 1, y.p)
MARK(y, f) ==
    IF y.mark = f THEN y
    ELSE [y EXCEPT !.mark = f, !.from = y.p, !.bad = @ \/ y.mark # "none"]
COUNT_HEADER_SIZE(y, n) ==
    LET z == [y EXCEPT !.nread = @ + n]
    IN  IF z.nread > HTTP_MAX_HEADER_SIZE THEN Fail(z, "HEADER_OVERFLOW") ELSE z
STRICT_CHECK(y, ok, z) == IF ok THEN z ELSE Fail(y, "STRICT")
PARSING_HEADER(s) ==
    s \notin {"s_chunk_data", "s_chunk_data_almost_done", "s_chunk_data_done",
              "s_body_identity", "s_body_identity_eof", "s_message_done"}

http_message_needs_eof(y) ==
    /\ y.type # "REQUEST"
    /\ y.status \div 100 # 1 /\ y.status \notin {204, 304}
    /\ {"SKIPBODY", "CHUNKED"} \cap y.flags = {}
    /\ y.content_length = Unlimited

http_should_keep_alive(y) ==
    /\ IF y.major > 0 /\ y.minor > 0 THEN "CONNECTION_CLOSE" \notin y.flags
                                     ELSE "CONNECTION_KEEP_ALIVE" \in y.flags
    /\ ~http_message_needs_eof(y)

NEW_MESSAGE(y) ==
    IF ~http_should_keep_alive(y) THEN "s_dead"
    ELSE IF y.type = "REQUEST" THEN "s_start_req" ELSE "s_start_res"

Fresh(y) == [y EXCEPT !.flags = {}, !.content_length = Unlimited]

-----------------------------------------------------------------------------
(* The first line                                                          *)

start_line(y, ch) ==
    LET crlf == ch \in {CR, LF}
    IN  CASE y.state = "s_dead" -> IF crlf THEN y ELSE Fail(y, "CLOSED_CONNECTION")
          [] y.state = "s_start_req_or_res" ->
               IF crlf THEN y
               ELSE IF ch = "H"
               THEN CALLBACK_NOTIFY(To(Fresh(y), "s_res_or_resp_H"), "message_begin")
               ELSE Redo([Fresh(y) EXCEPT !.type = "REQUEST"], "s_start_req")
          [] y.state = "s_res_or_resp_H" ->
               IF ch = "T" THEN To([y EXCEPT !.type = "RESPONSE"], "s_res_HT")
               ELSE IF ch = "e"
               THEN To([y EXCEPT !.type = "REQUEST", !.method = "HEAD", !.index = 2],
                       "s_req_method")
               ELSE Fail(y, "INVALID_CONSTANT")
          [] y.state = "s_start_res" ->
               IF ch \in {"H", CR, LF}
               THEN CALLBACK_NOTIFY(To(Fresh(y), IF crlf THEN y.state ELSE "s_res_H"),
                                    "message_begin")
               ELSE Fail(Fresh(y), "INVALID_CONSTANT")

(* "HTTP/" is the same for both kinds of first line.                       *)
ConstantNext ==
    [s_res_H |-> <<"T", "s_res_HT">>, s_res_HT |-> <<"T", "s_res_HTT">>,
     s_res_HTT |-> <<"P", "s_res_HTTP">>,
     s_res_HTTP |-> <<"/", "s_res_first_http_major">>,
     s_req_http_H |-> <<"T", "s_req_http_HT">>,
     s_req_http_HT |-> <<"T", "s_req_http_HTT">>,
     s_req_http_HTT |-> <<"P", "s_req_http_HTTP">>,
     s_req_http_HTTP |-> <<"/", "s_req_first_http_major">>]

http_constant(y, ch) ==
    STRICT_CHECK(y, ch = ConstantNext[y.state][1], To(y, ConstantNext[y.state][2]))

(* A further digit of a number that must stay below 1000.                  *)
Digit(y, f, ch, err) ==
    LET n == 10 * y[f] + Val(ch)
    IN  IF ~IS_NUM(ch) \/ n > 999 THEN Fail(y, err) ELSE [y EXCEPT ![f] = n]

http_version(y, ch) ==
    CASE y.state \in {"s_res_first_http_major", "s_req_first_http_major"} ->
           IF ~IS_NUM(ch) \/ (ch = "0" /\ y.state = "s_req_first_http_major")
           THEN Fail(y, "INVALID_VERSION")
           ELSE To([y EXCEPT !.major = Val(ch)],
                   IF y.type = "REQUEST" THEN "s_req_http_major" ELSE "s_res_http_major")
      [] y.state \in {"s_res_http_major", "s_req_http_major"} ->
           IF ch = "."
           THEN To(y, IF y.type = "REQUEST" THEN "s_req_first_http_minor"
                                            ELSE "s_res_first_http_minor")
           ELSE Digit(y, "major", ch, "INVALID_VERSION")
      [] y.state \in {"s_res_first_http_minor", "s_req_first_http_minor"} ->
           IF ~IS_NUM(ch) THEN Fail(y, "INVALID_VERSION")
           ELSE To([y EXCEPT !.minor = Val(ch)],
                   IF y.type = "REQUEST" THEN "s_req_http_minor" ELSE "s_res_http_minor")
      [] y.state = "s_res_http_minor" ->
           IF ch = SP THEN To(y, "s_res_first_status_code")
           ELSE Digit(y, "minor", ch, "INVALID_VERSION")
      [] y.state = "s_req_http_minor" ->
           IF ch = CR THEN To(y, "s_req_line_almost_done")
           ELSE IF ch = LF THEN To(y, "s_header_field_start")
           ELSE Digit(y, "minor", ch, "INVALID_VERSION")

res_status(y, ch) ==
    LET LineEnd(z) == IF ch = CR THEN To(z, "s_res_line_almost_done")
                                 ELSE To(z, "s_header_field_start")
    IN  CASE y.state = "s_res_first_status_code" ->
               IF ch = SP THEN y
               ELSE IF ~IS_NUM(ch) THEN Fail(y, "INVALID_STATUS")
               ELSE To([y EXCEPT !.status = Val(ch)], "s_res_status_code")
          [] y.state = "s_res_status_code" ->
               IF ch = SP THEN To(y, "s_res_status_start")
               ELSE IF ch \in {CR, LF} THEN LineEnd(y)
               ELSE Digit(y, "status", ch, "INVALID_STATUS")
          [] y.state = "s_res_status_start" ->
               IF ch \in {CR, LF} THEN LineEnd(y)
               ELSE To([MARK(y, "status") EXCEPT !.index = 0], "s_res_status")
          [] y.state = "s_res_status" ->
               IF ch \in {CR, LF} THEN CALLBACK_DATA(LineEnd(y), "status") ELSE y
          [] y.state = "s_res_line_almost_done" ->
               STRICT_CHECK(y, ch = LF, To(y, "s_header_field_start"))

(* The first letter picks a method, a later one may change it.             *)
req_method(y, ch) ==
    LET word == method_strings[y.method]
        z == [y EXCEPT !.index = @ + 1]
        first == ("G" :> "GET") @@ ("C" :> "CONNECT") @@ ("H" :> "HEAD") @@ ("P" :> "POST")
        other == (<<"CONNECT", "p">> :> "COPY") @@ (<<"POST", "u">> :> "PUT")
    IN  CASE y.state = "s_start_req" ->
               IF ch \in {CR, LF} THEN y
               ELSE IF ch \notin DOMAIN first THEN Fail(Fresh(y), "INVALID_METHOD")
               ELSE CALLBACK_NOTIFY(To([Fresh(y) EXCEPT !.method = first[ch], !.index = 1],
                                       "s_req_method"), "message_begin")
          [] y.state = "s_req_method" ->
               IF ch = SP /\ y.index = Len(word) THEN To(z, "s_req_spaces_before_url")
               ELSE IF y.index < Len(word) /\ ch = word[y.index + 1] THEN z
               ELSE IF y.index = 1 /\ <<y.method, ch>> \in DOMAIN other
               THEN [z EXCEPT !.method = other[<<y.method, ch>>]]
               ELSE Fail(y, "INVALID_METHOD")

UrlStates == {"s_req_schema", "s_req_schema_slash", "s_req_schema_slash_slash",
              "s_req_server_start", "s_req_server", "s_req_server_with_at",
              "s_req_path", "s_req_query_string_start", "s_req_query_string",
              "s_req_fragment_start", "s_req_fragment"}

req_url(y, ch) ==
    LET Url(z) == LET s == parse_url_char(z.state, ch)
                  IN  IF s = "s_dead" THEN Fail(To(z, s), "INVALID_URL") ELSE To(z, s)
        early == {"s_req_schema", "s_req_schema_slash", "s_req_schema_slash_slash",
                  "s_req_server_start"}
    IN  IF y.state = "s_req_spaces_before_url"
        THEN IF ch = SP THEN y
             ELSE Url(IF y.method = "CONNECT" THEN To(MARK(y, "url"), "s_req_server_start")
                                              ELSE MARK(y, "url"))
        ELSE IF ch \notin {SP, CR, LF} THEN Url(y)
        ELSE IF y.state \in early THEN Fail(y, "INVALID_URL")
        ELSE IF ch = SP THEN CALLBACK_DATA(To(y, "s_req_http_start"), "url")
        ELSE CALLBACK_DATA(To([y EXCEPT !.major = 0, !.minor = 9],
                              IF ch = CR THEN "s_req_line_almost_done"
                                         ELSE "s_header_field_start"), "url")

req_line_end(y, ch) ==
    CASE y.state = "s_req_http_start" ->
           IF ch = "H" THEN To(y, "s_req_http_H")
           ELSE IF ch = SP THEN y ELSE Fail(y, "INVALID_CONSTANT")
      [] y.state = "s_req_line_almost_done" ->
           IF ch = LF THEN To(y, "s_header_field_start") ELSE Fail(y, "LF_EXPECTED")

-----------------------------------------------------------------------------
(* Header lines                                                            *)

(* index++ and the next letter of a word: wrong, right, or right and last. *)
Match(h, word, c, wrong, done) ==
    LET i == h.i + 1
    IN  IF i + 1 > Len(word) \/ c # word[i + 1] THEN [h EXCEPT !.i = i, !.s = wrong]
        ELSE IF i = Len(word) - 1 THEN [h EXCEPT !.i = i, !.s = done]
        ELSE [h EXCEPT !.i = i]

(* One letter of a header's name.                                          *)
FieldChar(h, c) ==
    CASE h.s = "h_C" ->
           [i |-> h.i + 1,
            s |-> CASE c = "n" -> "h_matching_connection"
                    [] c = "t" -> "h_matching_content_length"
                    [] OTHER -> "h_general"]
      [] h.s = "h_matching_connection" ->
           Match(h, CONNECTION, c, "h_general", "h_connection")
      [] h.s = "h_matching_proxy_connection" ->
           Match(h, PROXY_CONNECTION, c, "h_general", "h_connection")
      [] h.s = "h_matching_content_length" ->
           Match(h, CONTENT_LENGTH, c, "h_general", "h_content_length")
      [] h.s = "h_matching_transfer_encoding" ->
           Match(h, TRANSFER_ENCODING, c, "h_general", "h_transfer_encoding")
      [] h.s = "h_matching_upgrade" -> Match(h, UPGRADE, c, "h_general", "h_upgrade")
      [] OTHER -> [h EXCEPT !.s = "h_general"]

header_field_start(y, ch) ==
    IF ch = CR THEN To(y, "s_headers_almost_done")
    ELSE IF ch = LF THEN Redo(y, "s_headers_almost_done")
    ELSE IF ~TOKEN(ch) THEN Fail(y, "INVALID_HEADER_TOKEN")
    ELSE To([MARK(y, "header_field") EXCEPT
                !.index = 0,
                !.header_state =
                    CASE LOWER(ch) = "c" -> "h_C"
                      [] LOWER(ch) = "p" -> "h_matching_proxy_connection"
                      [] LOWER(ch) = "t" -> "h_matching_transfer_encoding"
                      [] LOWER(ch) = "u" -> "h_matching_upgrade"
                      [] OTHER -> "h_general"], "s_header_field")

(* The first place from p on where the bytes of this call stop to be in S. *)
RunEnd(y, Stop(_)) ==
    LET stops_at == {i \in y.p .. y.end - 1 : Stop(msg.bytes[i])}
    IN  IF stops_at = {} THEN y.end ELSE Min(stops_at)

(* The rest of the name, as far as this call has it.                       *)
header_field(y, ch) ==
    LET q == RunEnd(y, LAMBDA c : ~TOKEN(c))
        h == FoldLeft(LAMBDA g, i : FieldChar(g, LOWER(msg.bytes[i])),
                      [s |-> y.header_state, i |-> y.index],
                      [i \in 1 .. q - y.p |-> y.p + i - 1])
        z == COUNT_HEADER_SIZE([y EXCEPT !.header_state = h.s, !.index = h.i, !.p = q],
                               q - y.p)
    IN  IF z.go = "return" THEN z
        ELSE IF q = y.end THEN [z EXCEPT !.p = q - 1]
        ELSE IF msg.bytes[q] = ":"
        THEN CALLBACK_DATA(To(z, "s_header_value_discard_ws"), "header_field")
        ELSE Fail(z, "INVALID_HEADER_TOKEN")

header_value_start(y, ch) ==
    LET z == To([MARK(y, "header_value") EXCEPT !.index = 0], "s_header_value")
        c == LOWER(ch)
        H(s) == [z EXCEPT !.header_state = s]
    IN  CASE y.header_state = "h_upgrade" ->
               [H("h_general") EXCEPT !.flags = @ \cup {"UPGRADE"}]
          [] y.header_state = "h_transfer_encoding" ->
               H(IF c = "c" THEN "h_matching_transfer_encoding_chunked" ELSE "h_general")
          [] y.header_state = "h_content_length" ->
               IF IS_NUM(ch) THEN [z EXCEPT !.content_length = Val(ch)]
                             ELSE Fail(z, "INVALID_CONTENT_LENGTH")
          [] y.header_state = "h_connection" ->
               H(CASE c = "k" -> "h_matching_connection_keep_alive"
                   [] c = "c" -> "h_matching_connection_close"
                   [] c = "u" -> "h_matching_connection_upgrade"
                   [] OTHER -> "h_matching_connection_token")
          [] y.header_state = "h_matching_connection_token_start" -> z
          [] OTHER -> H("h_general")

header_value_discard_ws(y, ch) ==
    CASE ch \in {SP, TAB} -> y
      [] ch = CR -> To(y, "s_header_value_discard_ws_almost_done")
      [] ch = LF -> To(y, "s_header_value_discard_lws")
      [] OTHER -> header_value_start(y, ch)

(* What a header that is complete says about the connection.               *)
FlagOf(s) ==
    CASE s = "h_connection_keep_alive" -> {"CONNECTION_KEEP_ALIVE"}
      [] s = "h_connection_close" -> {"CONNECTION_CLOSE"}
      [] s = "h_connection_upgrade" -> {"CONNECTION_UPGRADE"}
      [] s = "h_transfer_encoding_chunked" -> {"CHUNKED"}
      [] OTHER -> {}

(* One letter of a header's value; v has the state, the index, the flags,  *)
(* the length and whether the value is in error.                           *)
ValueChar(v, ch) ==
    LET c == LOWER(ch)
        token == "h_matching_connection_token"
        again == [v EXCEPT !.s = "h_matching_connection_token_start", !.i = 0]
    IN  CASE v.err \/ v.s = "h_general" -> v
          [] v.s = "h_content_length" ->
               IF ch = SP THEN v
               ELSE IF ~IS_NUM(ch) \/ (UllongMax - 10) \div 10 < v.n
               THEN [v EXCEPT !.err = TRUE]
               ELSE [v EXCEPT !.n = 10 * @ + Val(ch)]
          [] v.s = "h_matching_transfer_encoding_chunked" ->
               Match(v, CHUNKED, c, "h_general", "h_transfer_encoding_chunked")
          [] v.s = "h_matching_connection_token_start" ->
               [v EXCEPT !.s = CASE c = "k" -> "h_matching_connection_keep_alive"
                                 [] c = "c" -> "h_matching_connection_close"
                                 [] c = "u" -> "h_matching_connection_upgrade"
                                 [] c \in {SP, TAB} -> @
                                 [] TOKEN(c) /\ c \notin {"k", "c", "u"} -> token
                                 [] OTHER -> "h_general"]
          [] v.s = "h_matching_connection_keep_alive" ->
               Match(v, KEEP_ALIVE, c, token, "h_connection_keep_alive")
          [] v.s = "h_matching_connection_close" ->
               Match(v, CLOSE, c, token, "h_connection_close")
          [] v.s = "h_matching_connection_upgrade" ->
               Match(v, UPGRADE, c, token, "h_connection_upgrade")
          [] v.s = token -> IF ch = "," THEN again ELSE v
          [] v.s = "h_transfer_encoding_chunked" ->
               IF ch # SP THEN [v EXCEPT !.s = "h_general"] ELSE v
          [] v.s \in {"h_connection_keep_alive", "h_connection_close",
                      "h_connection_upgrade"} ->
               IF ch = "," THEN [again EXCEPT !.flags = @ \cup FlagOf(v.s)]
               ELSE IF ch # SP THEN [v EXCEPT !.s = token] ELSE v
          [] OTHER -> [v EXCEPT !.s = "h_general"]

(* The rest of the value, as far as this call has it.                      *)
header_value(y, ch) ==
    LET q == RunEnd(y, LAMBDA c : c \in {CR, LF})
        v == FoldLeft(LAMBDA w, i : ValueChar(w, msg.bytes[i]),
                      [s |-> y.header_state, i |-> y.index, flags |-> y.flags,
                       n |-> y.content_length, err |-> FALSE],
                      [i \in 1 .. q - y.p |-> y.p + i - 1])
        z == [y EXCEPT !.header_state = v.s, !.index = v.i, !.flags = v.flags,
                       !.content_length = v.n, !.p = q,
                       !.bad = @ \/ y.header_state \in {"h_connection",
                                                        "h_transfer_encoding"}]
        counted == COUNT_HEADER_SIZE(z, q - y.p)
    IN  IF v.err THEN Fail(z, "INVALID_CONTENT_LENGTH")
        ELSE IF q < y.end /\ msg.bytes[q] = CR
        THEN [CALLBACK_DATA(To(z, "s_header_almost_done"), "header_value")
                 EXCEPT !.late = q - y.p]
        ELSE IF counted.go = "return" THEN counted
        ELSE IF q = y.end THEN [counted EXCEPT !.p = q - 1]
        ELSE Redo(CALLBACK_DATA_NOADVANCE(counted, "header_value"),
                  "s_header_almost_done")

(* The end of a header line; a line that begins with white space goes on   *)
(* with the value.                                                         *)
header_line_end(y, ch) ==
    LET z == [y EXCEPT !.flags = @ \cup FlagOf(y.header_state)]
    IN  CASE y.state = "s_header_almost_done" ->
               STRICT_CHECK(y, ch = LF, To(y, "s_header_value_lws"))
          [] y.state = "s_header_value_lws" ->
               IF ch \in {SP, TAB} THEN Redo(y, "s_header_value_start")
               ELSE Redo(z, "s_header_field_start")
          [] y.state = "s_header_value_discard_ws_almost_done" ->
               STRICT_CHECK(y, ch = LF, To(y, "s_header_value_discard_lws"))
          [] y.state = "s_header_value_discard_lws" ->
               IF ch \in {SP, TAB} THEN To(y, "s_header_value_discard_ws")
               ELSE Redo(CALLBACK_DATA_NOADVANCE(MARK(z, "header_value"), "header_value"),
                         "s_header_field_start")

headers_almost_done(y, ch) ==
    STRICT_CHECK(y, ch = LF,
        IF "TRAILING" \in y.flags
        THEN CALLBACK_NOTIFY_NOADVANCE(Redo(y, "s_message_done"), "chunk_complete")
        ELSE CALLBACK_NOTIFY_NOADVANCE(
                 Redo([y EXCEPT !.upgrade = {"UPGRADE", "CONNECTION_UPGRADE"} \subseteq y.flags
                                               \/ y.method = "CONNECT"],
                      "s_headers_done"), "headers_complete"))

(* What follows has a count of header bytes of its own.                    *)
ResetCount(y) == [y EXCEPT !.nread = 0]

headers_done(y, ch) ==
    LET z == ResetCount(y)
        hasBody == "CHUNKED" \in y.flags \/ y.content_length > 0
        Complete == CALLBACK_NOTIFY(To(z, NEW_MESSAGE(z)), "message_complete")
    IN  STRICT_CHECK(y, ch = LF,
          IF y.upgrade /\ (y.method = "CONNECT" \/ "SKIPBODY" \in y.flags \/ ~hasBody)
          THEN [Complete EXCEPT !.go = "return"]
          ELSE IF "SKIPBODY" \in y.flags THEN Complete
          ELSE IF "CHUNKED" \in y.flags THEN To(z, "s_chunk_size_start")
          ELSE IF y.content_length = 0 THEN Complete
          ELSE IF y.content_length # Unlimited THEN To(z, "s_body_identity")
          ELSE IF ~http_message_needs_eof(z) THEN Complete
          ELSE To(z, "s_body_identity_eof"))

-----------------------------------------------------------------------------
(* The body                                                                *)

(* Up to content_length bytes of what this call has; p is the last one.    *)
TakeBody(y) ==
    LET n == Min({y.content_length, y.end - y.p})
    IN  [MARK(y, "body") EXCEPT !.content_length = @ - n, !.p = @ + n - 1,
                                !.bad = @ \/ y.content_length <= 0]

body(y, ch) ==
    CASE y.state = "s_body_identity" ->
           LET z == TakeBody(y)
           IN  IF z.content_length = 0
               THEN DataUpTo(Redo(z, "s_message_done"), "body", z.p, z.p) ELSE z
      [] y.state = "s_body_identity_eof" -> [MARK(y, "body") EXCEPT !.p = y.end - 1]
      [] y.state = "s_message_done" ->
           [CALLBACK_NOTIFY(To(y, NEW_MESSAGE(y)), "message_complete")
               EXCEPT !.go = IF y.upgrade THEN "return" ELSE @]

Unhex(ch) == IF IS_NUM(ch) THEN Val(ch)
             ELSE CASE ch = "a" -> 10 [] ch = "c" -> 12 [] OTHER -> 14

chunk(y, ch) ==
    CASE y.state = "s_chunk_size_start" ->
           IF ch \notin HEX THEN Fail(y, "INVALID_CHUNK_SIZE")
           ELSE To([y EXCEPT !.content_length = Unhex(ch),
                             !.bad = @ \/ y.nread # 1 \/ "CHUNKED" \notin y.flags],
                   "s_chunk_size")
      [] y.state = "s_chunk_size" ->
           IF ch = CR THEN To(y, "s_chunk_size_almost_done")
           ELSE IF ch \in {";", SP} THEN To(y, "s_chunk_parameters")
           ELSE IF ch \notin HEX THEN Fail(y, "INVALID_CHUNK_SIZE")
           ELSE IF (UllongMax - 16) \div 16 < y.content_length
           THEN Fail(y, "INVALID_CONTENT_LENGTH")
           ELSE [y EXCEPT !.content_length = 16 * @ + Unhex(ch)]
      [] y.state = "s_chunk_parameters" ->
           IF ch = CR THEN To(y, "s_chunk_size_almost_done") ELSE y
      [] y.state = "s_chunk_size_almost_done" ->
           STRICT_CHECK(y, ch = LF, CALLBACK_NOTIFY(
               IF y.content_length = 0
               THEN To([ResetCount(y) EXCEPT !.flags = @ \cup {"TRAILING"}],
                       "s_header_field_start")
               ELSE To(ResetCount(y), "s_chunk_data"), "chunk_header"))
      [] y.state = "s_chunk_data" ->
           LET z == TakeBody(y)
           IN  IF z.content_length = 0 THEN To(z, "s_chunk_data_almost_done") ELSE z
      [] y.state = "s_chunk_data_almost_done" ->
           STRICT_CHECK(y, ch = CR, CALLBACK_DATA(To(y, "s_chunk_data_done"), "body"))
      [] y.state = "s_chunk_data_done" ->
           STRICT_CHECK(y, ch = LF, CALLBACK_NOTIFY(
               To(ResetCount(y), "s_chunk_size_start"), "chunk_complete"))

Switch(y, ch) ==
    CASE y.state \in {"s_dead", "s_start_req_or_res", "s_res_or_resp_H",
                      "s_start_res"} -> start_line(y, ch)
      [] y.state \in DOMAIN ConstantNext -> http_constant(y, ch)
      [] y.state \in {"s_res_first_http_major", "s_req_first_http_major",
                      "s_res_http_major", "s_req_http_major",
                      "s_res_first_http_minor", "s_req_first_http_minor",
                      "s_res_http_minor", "s_req_http_minor"} -> http_version(y, ch)
      [] y.state \in {"s_res_first_status_code", "s_res_status_code",
                      "s_res_status_start", "s_res_status",
                      "s_res_line_almost_done"} -> res_status(y, ch)
      [] y.state \in {"s_start_req", "s_req_method"} -> req_method(y, ch)
      [] y.state \in UrlStates \cup {"s_req_spaces_before_url"} -> req_url(y, ch)
      [] y.state \in {"s_req_http_start", "s_req_line_almost_done"} -> req_line_end(y, ch)
      [] y.state = "s_header_field_start" -> header_field_start(y, ch)
      [] y.state = "s_header_field" -> header_field(y, ch)
      [] y.state = "s_header_value_discard_ws" -> header_value_discard_ws(y, ch)
      [] y.state = "s_header_value_start" -> header_value_start(y, ch)
      [] y.state = "s_header_value" -> header_value(y, ch)
      [] y.state \in {"s_header_almost_done", "s_header_value_lws",
                      "s_header_value_discard_ws_almost_done",
                      "s_header_value_discard_lws"} -> header_line_end(y, ch)
      [] y.state = "s_headers_almost_done" -> headers_almost_done(y, ch)
      [] y.state = "s_headers_done" -> headers_done(y, ch)
      [] y.state \in {"s_body_identity", "s_body_identity_eof",
                      "s_message_done"} -> body(y, ch)
      [] OTHER -> chunk(y, ch)

-----------------------------------------------------------------------------
(* A call of http_parser_execute                                           *)

(* The application hands over the next piece; the mark of a piece that     *)
(* begins inside of a name, a value, a URL or a status is set.             *)
execute(n) ==
    /\ phase = "feed"
    /\ pos <= Len(msg.bytes)
    /\ x.errno = "OK"
    /\ n = Len(msg.bytes) \/ cuts < MaxCuts
    /\ x' = [x EXCEPT !.p = pos, !.end = n + 1, !.from = pos, !.go = "next",
                      !.mark = CASE x.state = "s_header_field" -> "header_field"
                                 [] x.state = "s_header_value" -> "header_value"
                                 [] x.state \in UrlStates -> "url"
                                 [] x.state = "s_res_status" -> "status"
                                 [] OTHER -> "none"]
    /\ cuts' = IF n = Len(msg.bytes) THEN cuts ELSE cuts + 1
    /\ phase' = "run"
    /\ UNCHANGED <<msg, pos, log, stops>>

(* After a pass: a callback, an error, a return, or the next byte.         *)
After(y) ==
    /\ UNCHANGED <<msg, log, cuts, stops>>
    /\ IF y.cb # "none" THEN phase' = "callback" /\ x' = y /\ UNCHANGED pos
       ELSE IF y.go = "return" THEN phase' = "feed" /\ x' = y /\ pos' = y.ret
       ELSE /\ phase' = "run"
            /\ x' = IF y.go = "redo" THEN y ELSE [y EXCEPT !.p = @ + 1]
            /\ UNCHANGED pos

byte ==
    /\ phase = "run"
    /\ x.p < x.end
    /\ LET y == [x EXCEPT !.go = "next"]
           z == IF PARSING_HEADER(x.state) /\ x.go # "redo"
                THEN COUNT_HEADER_SIZE(y, 1) ELSE y
       IN  After(IF z.go = "return" THEN z ELSE Switch(z, msg.bytes[x.p]))

(* Mutant of leftovers: what is marked at the end of a piece is dropped.   *)
Mutant_drop_mark ==
    /\ phase = "run"
    /\ x.p = x.end
    /\ After([x EXCEPT !.go = "return", !.ret = x.end])

(* The loop is over: what is marked is handed to its callback.             *)
leftovers ==
    /\ phase = "run"
    /\ x.p = x.end
    /\ After(CALLBACK_DATA_NOADVANCE([x EXCEPT !.go = "return", !.ret = x.end], x.mark))

Told == IF x.to = 0 THEN <<<<x.cb, "">>>>
        ELSE [i \in 1 .. x.to - x.from + 1 |-> <<x.cb, msg.bytes[x.from + i - 1]>>]

(* The callback returns 0, or 1 from on_headers_complete to skip the body. *)
callback_ok ==
    /\ phase = "callback"
    /\ LET y == [x EXCEPT !.cb = "none", !.late = 0,
                          !.mark = IF x.to = 0 THEN @ ELSE "none",
                          !.flags = IF x.cb = "headers_complete" /\ msg.skip
                                    THEN @ \cup {"SKIPBODY"} ELSE @]
           z == IF x.late > 0 THEN COUNT_HEADER_SIZE(y, x.late) ELSE y
       IN  IF z.go \in {"return", "eof"}
           THEN /\ phase' = IF z.go = "eof" THEN "done" ELSE "feed"
                /\ x' = z /\ pos' = z.ret
           ELSE /\ phase' = "run"
                /\ x' = IF z.go = "redo" THEN z ELSE [z EXCEPT !.p = @ + 1]
                /\ UNCHANGED pos
    /\ log' = log \o Told
    /\ UNCHANGED <<msg, cuts, stops>>

(* The callback calls http_parser_pause or returns something else: execute *)
(* returns at once, with the byte consumed or not.                         *)
callback_stop(e) ==
    /\ phase = "callback"
    /\ stops < MaxStops
    /\ x' = [x EXCEPT !.cb = "none", !.errno = e, !.late = 0]
    /\ pos' = x.ret
    /\ phase' = "feed"
    /\ log' = log \o Told
    /\ stops' = stops + 1
    /\ UNCHANGED <<msg, cuts>>

http_parser_pause ==
    /\ phase = "feed"
    /\ x.errno = "PAUSED"
    /\ x' = [x EXCEPT !.errno = "OK",
                      !.flags = IF Last(log) = <<"headers_complete", "">> /\ msg.skip
                                THEN @ \cup {"SKIPBODY"} ELSE @]
    /\ UNCHANGED <<msg, pos, log, phase, cuts, stops>>

(* The end of the connection: a call with no bytes, which leaves the state *)
(* as it is.  on_message_complete may pause or fail in it too, and then    *)
(* the application makes the call again when it has resumed the parser.    *)
execute_eof ==
    /\ phase = "feed"
    /\ pos > Len(msg.bytes)
    /\ x.errno = "OK"
    /\ CASE x.state = "s_body_identity_eof" ->
               /\ phase' = "callback"
               /\ x' = [x EXCEPT !.cb = "message_complete", !.ret = pos, !.to = 0,
                                 !.go = "eof"]
         [] x.state \in {"s_dead", "s_start_req_or_res", "s_start_res", "s_start_req"} ->
               phase' = "done" /\ UNCHANGED x
         [] OTHER -> phase' = "done" /\ x' = [x EXCEPT !.errno = "INVALID_EOF_STATE"]
    /\ UNCHANGED <<msg, pos, log, cuts, stops>>

Next ==
    \/ \E n \in pos .. Len(msg.bytes) : execute(n)
    \/ byte \/ leftovers \/ callback_ok
    \/ \E e \in {"PAUSED", "CB"} : callback_stop(e)
    \/ http_parser_pause \/ execute_eof

Spec == Init /\ [][Next]_vars

-----------------------------------------------------------------------------
(* Properties                                                              *)

Over == phase = "done" \/ (phase = "feed" /\ x.errno \notin {"OK", "PAUSED"})

(* The callbacks are told the message that was sent, its data unchanged    *)
(* and in order, however it is cut into pieces and wherever the parser is  *)
(* paused and resumed; nothing is told out of turn, and at the end of a    *)
(* message that is accepted nothing is missing.  One thing is told twice:  *)
(* the end of a body that ends with the connection, when the parser was    *)
(* paused in telling it, because its state does not change there           *)
(* (http_parser.c:628-2099, 648-656).                                      *)
ToldAgain(n) == [i \in 1 .. n |-> <<"message_complete", "">>]
ToldAsSent ==
    /\ \/ IsPrefix(log, msg.log)
       \/ /\ x.state = "s_body_identity_eof"
          /\ \E n \in 1 .. stops : log = msg.log \o ToldAgain(n)
    /\ Over /\ x.errno = "OK" => IsPrefix(msg.log, log)

(* A message is accepted or refused for what it is: neither the cuts nor   *)
(* the pauses change the error.                                            *)
SameVerdict == Over /\ x.errno # "CB" => x.errno = msg.errno

(* The assertions in the code hold: at most one mark is set, the length of *)
(* the body is known where it is read, and a chunk begins with a new count *)
(* of the header bytes (http_parser.c:1575, 1894, 1942, 2025, 2073).       *)
AssertsHold == ~x.bad

=============================================================================
