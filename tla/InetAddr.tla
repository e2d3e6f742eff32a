------------------------------ MODULE InetAddr ------------------------------
(***************************************************************************)
(* Addresses as texts in evutil.c: inet_ntop and inet_pton as libevent     *)
(* compiles them (USE_INTERNAL_NTOP and USE_INTERNAL_PTON), texts with a   *)
(* port, the order of socket addresses, and the part of getaddrinfo that   *)
(* asks no resolver.                                                       *)
(*                                                                         *)
(* A text is a sequence of tokens: a colon, a bracket, a word of           *)
(* hexadecimal digits with its value v, its length n and the number dec    *)
(* that atoi reads from it, or four decimal numbers up to 255 with dots,   *)
(* two to each word of v; no two of these last two stand side by side.  An *)
(* address is a sequence of 16 bit words, two for IPv4, eight for IPv6.    *)
(* Memory for an answer never runs out, and the buffer that a text with a  *)
(* port is written to is long enough for it.                               *)
(***************************************************************************)
EXTENDS Integers, Sequences, FiniteSets, SequencesExt

CONSTANTS KnownServices      \* what getservbyname knows: <<name, protocol>> -> port

AF_UNSPEC == 0
AF_INET == 2
AF_INET6 == 10

Colon == [t |-> ":"]
Open == [t |-> "["]
Close == [t |-> "]"]

(* The digits of "%x" and "%d", and what strtol and atoi make of digits.    *)
Digits(v, base) ==
    LET n == CHOOSE n \in 1 .. 5 : v < base ^ n /\ (n = 1 \/ v >= base ^ (n - 1))
    IN  [i \in 1 .. n |-> (v \div base ^ (n - i)) % base]
Value(digits, base) == FoldLeft(LAMBDA r, d : r * base + d, 0, digits)
Decimal(digits) ==
    LET n == CHOOSE n \in 0 .. Len(digits) :
                /\ \A i \in 1 .. n : digits[i] < 10
                /\ n = Len(digits) \/ digits[n + 1] >= 10
    IN  SubSeq(digits, 1, n)
Spelled(digits) == [t |-> "word", v |-> Value(digits, 16), n |-> Len(digits),
                    dec |-> Value(Decimal(digits), 10)]
Word(v) == Spelled(Digits(v, 16))
Number(p) == Spelled(Digits(p, 10))
Quad(hi, lo) == [t |-> "quad", v |-> <<hi, lo>>]

NULL == <<[t |-> "NULL"]>>
NoAddress == <<>>

-----------------------------------------------------------------------------
(* evutil_inet_ntop *)

Decimals(b) == Len(Digits(b, 10))
Chars(tok) ==
    CASE tok.t = "word" -> tok.n
      [] tok.t = "quad" -> 3 + Decimals(tok.v[1] \div 256) + Decimals(tok.v[1] % 256)
                             + Decimals(tok.v[2] \div 256) + Decimals(tok.v[2] % 256)
      [] OTHER -> 1
strlen(text) == FoldLeft(LAMBDA n, tok : n + Chars(tok), 0, text)

(* The words that "::" stands for: the first of the longest runs of zeros,  *)
(* if it has two words or more.                                             *)
Zeros(w, a, b) == \A i \in a .. b : w[i] = 0
(* Mutant of LongestGap: of the longest runs the last one is taken twice.   *)
Mutant_LongestGap(w) == {i \in 1 .. 7 : w[i] = 0 /\ w[i + 1] = 0}
                        \cup {i \in 2 .. 8 : w[i] = 0 /\ w[i - 1] = 0}

LongestGap(w) ==
    LET runs == {r \in (1 .. 8) \X (1 .. 8) : r[1] < r[2] /\ Zeros(w, r[1], r[2])}
        longest == {r \in runs : \A s \in runs : s[2] - s[1] <= r[2] - r[1]}
        first == CHOOSE r \in longest : \A s \in longest : r[1] <= s[1]
    IN  IF runs = {} THEN {} ELSE first[1] .. first[2]

Piece(w, gap, i) ==
    CASE i \in gap /\ i - 1 \in gap -> <<>>
      [] i \in gap /\ i - 1 \notin gap -> IF i = 1 THEN <<Colon, Colon>> ELSE <<Colon>>
      [] OTHER -> IF i = 8 THEN <<Word(w[i])>> ELSE <<Word(w[i]), Colon>>

LooksLikeV4(w) ==
    Zeros(w, 1, 5) /\ ((w[6] = 0 /\ w[7] # 0 /\ w[8] # 0) \/ w[6] = 65535)

Ipv6Text(w) ==
    IF LooksLikeV4(w)
    THEN <<Colon, Colon>> \o (IF w[6] = 0 THEN <<>> ELSE <<Word(w[6]), Colon>>) \o <<Quad(w[7], w[8])>>
    ELSE FlattenSeq([i \in 1 .. 8 |-> Piece(w, LongestGap(w), i)])

(* strlcpy into a buffer of len bytes, the last of them for the NUL.        *)
Cut(text) == Append(text, [t |-> "cut"])
evutil_inet_ntop(af, w, len) ==
    LET text == IF af = AF_INET6 THEN Ipv6Text(w) ELSE <<Quad(w[1], w[2])>> IN
    CASE af \notin {AF_INET, AF_INET6} -> NULL
      [] af = AF_INET -> IF strlen(text) >= len THEN NULL ELSE text
      [] af = AF_INET6 ->
            IF strlen(text) > len THEN NULL ELSE IF strlen(text) = len THEN Cut(text) ELSE text

-----------------------------------------------------------------------------
(* evutil_inet_pton.  NoAddress stands for every result but 1. *)

Is(text, k, t) == k \in DOMAIN text /\ text[k].t = t

(* The loop over the words before a dotted quad.  gap counts the words in   *)
(* front of "::" and is -1 without it.  A word takes the colon after it     *)
(* with it, so one colon may end a text.                                    *)
RECURSIVE Scan(_, _, _, _)
Scan(text, k, ws, gap) ==
    CASE k > Len(text) -> [ok |-> TRUE, ws |-> ws, gap |-> gap]
      [] /\ k <= Len(text) /\ Len(ws) <= 7 /\ Is(text, k, "word") /\ text[k].n <= 4
         /\ (k = Len(text) \/ Is(text, k + 1, ":")) ->
            Scan(text, k + 2, Append(ws, text[k].v), gap)
      [] /\ k <= Len(text) /\ Len(ws) \in 1 .. 7 /\ Is(text, k, ":") /\ gap = -1 ->
            Scan(text, k + 1, ws, Len(ws))
      [] /\ k <= Len(text) /\ ws = <<>> /\ Is(text, k, ":") /\ Is(text, k + 1, ":") /\ gap = -1 ->
            Scan(text, k + 2, ws, 0)
      [] OTHER -> [ok |-> FALSE]

Filled(r, quad) ==
    LET set == Len(r.ws) + Len(quad) IN
    CASE set > 8 \/ (set = 8 /\ r.gap # -1) \/ (set < 8 /\ r.gap = -1) -> NoAddress
      [] set = 8 /\ r.gap = -1 -> r.ws \o quad
      [] OTHER -> SubSeq(r.ws, 1, r.gap) \o [i \in 1 .. 8 - set |-> 0]
                    \o SubSeq(r.ws, r.gap + 1, Len(r.ws)) \o quad

Read(r, quad) == IF r.ok THEN Filled(r, quad) ELSE NoAddress

evutil_inet_pton(af, text) ==
    LET quads == {k \in DOMAIN text : text[k].t = "quad"} IN
    CASE af = AF_INET -> IF quads = {1} /\ Len(text) = 1 THEN text[1].v ELSE NoAddress
      [] af = AF_INET6 /\ quads = {} -> Read(Scan(text, 1, <<>>, -1), <<>>)
      [] af = AF_INET6 /\ quads = {Len(text)} -> Read(Scan(Front(text), 1, <<>>, -1), Last(text).v)
      [] OTHER -> NoAddress

-----------------------------------------------------------------------------
(* Socket addresses *)

Sockaddr(family, addr, port) == [family |-> family, addr |-> addr, port |-> port]
NoSockaddr == Sockaddr(AF_UNSPEC, NoAddress, 0)

atoi(text) ==
    CASE Is(text, 1, "word") -> text[1].dec
      [] Is(text, 1, "quad") -> text[1].v[1] \div 256
      [] OTHER -> 0

(* The parts of the text: the family, the address, and the port or NULL.    *)
(* An address in front of something else is copied to a buffer.             *)
Fits(ip) == strlen(ip) <= 127
Parts(text) ==
    LET colons == {k \in DOMAIN text : text[k].t = ":"}
        cp == CHOOSE k \in colons : \A j \in colons : k <= j
        closes == {k \in DOMAIN text : text[k].t = "]"}
        close == CHOOSE k \in closes : \A j \in closes : k <= j
        From(k) == SubSeq(text, k, Len(text))
    IN  CASE Is(text, 1, "[") /\ closes = {} -> [ok |-> FALSE]
          [] Is(text, 1, "[") /\ closes # {} ->
                [ok |-> Fits(SubSeq(text, 2, close - 1)), af |-> AF_INET6,
                 ip |-> SubSeq(text, 2, close - 1),
                 port |-> IF Is(text, close + 1, ":") THEN From(close + 2) ELSE NULL]
          [] ~ Is(text, 1, "[") /\ Cardinality(colons) > 1 ->
                [ok |-> TRUE, af |-> AF_INET6, ip |-> text, port |-> NULL]
          [] ~ Is(text, 1, "[") /\ Cardinality(colons) = 1 ->
                [ok |-> Fits(SubSeq(text, 1, cp - 1)), af |-> AF_INET,
                 ip |-> SubSeq(text, 1, cp - 1), port |-> From(cp + 1)]
          [] OTHER -> [ok |-> TRUE, af |-> AF_INET, ip |-> text, port |-> NULL]

Port(part) == IF part = NULL THEN 0
              ELSE IF atoi(part) \in 1 .. 65535 THEN atoi(part) ELSE -1

Sizeof(af) == IF af = AF_INET6 THEN 28 ELSE 16

Parsed(p, outlen) ==
    LET ip == evutil_inet_pton(p.af, p.ip) IN
    IF Port(p.port) = -1 \/ ip = NoAddress \/ Sizeof(p.af) > outlen THEN NoSockaddr
    ELSE Sockaddr(p.af, ip, Port(p.port))

evutil_parse_sockaddr_port(text, outlen) ==
    IF Parts(text).ok THEN Parsed(Parts(text), outlen) ELSE NoSockaddr

(* "<addr with socktype %d>" *)
OtherFamily(af) == <<[t |-> "other", v |-> af]>>

evutil_format_sockaddr_port(sa) ==
    LET b == evutil_inet_ntop(sa.family, sa.addr, 128) IN
    CASE b = NULL -> OtherFamily(sa.family)
      [] b # NULL /\ sa.family = AF_INET -> b \o <<Colon, Number(sa.port)>>
      [] OTHER -> <<Open>> \o b \o <<Close, Colon, Number(sa.port)>>

(* memcmp: the sign of the first difference.                                *)
Compared(v, w) ==
    LET differ == {i \in DOMAIN v : v[i] # w[i]}
        first == CHOOSE i \in differ : \A j \in differ : i <= j
    IN  CASE differ = {} -> 0
          [] differ # {} -> IF v[first] < w[first] THEN -1 ELSE 1

(* s_addr and the ports are compared as the integers that their bytes, in   *)
(* network order, are on a little endian machine.                           *)
Swapped(v) == (v % 256) * 256 + v \div 256
s_addr(addr) == <<Swapped(addr[2]), Swapped(addr[1])>>
Ports(sa1, sa2, include_port) ==
    IF include_port THEN Swapped(sa1.port) - Swapped(sa2.port) ELSE 0

evutil_sockaddr_cmp(sa1, sa2, include_port) ==
    LET addr == IF sa1.family = AF_INET THEN Compared(s_addr(sa1.addr), s_addr(sa2.addr))
                ELSE Compared(sa1.addr, sa2.addr)
    IN  CASE sa1.family # sa2.family -> sa1.family - sa2.family
          [] sa1.family = sa2.family /\ sa1.family \in {AF_INET, AF_INET6} ->
                IF addr # 0 THEN addr ELSE Ports(sa1, sa2, include_port)
          [] OTHER -> 1

-----------------------------------------------------------------------------
(* evutil_getaddrinfo_common.  hints is [family, socktype, proto, flags],   *)
(* with "any" for 0 and a protocol as the name getservbyname knows it by; a *)
(* service is a text or a number, as [name, number], number -1 if it is not *)
(* decimal; NoService and NoNode stand for NULL.                            *)
NoService == [name |-> "NULL", number |-> -1]
NoNode == NULL

Inferred(hints) ==
    LET proto == IF hints.proto # "any" THEN hints.proto
                 ELSE IF hints.socktype = "dgram" THEN "udp"
                 ELSE IF hints.socktype = "stream" THEN "tcp" ELSE "any"
        socktype == IF hints.socktype # "any" THEN hints.socktype
                    ELSE IF proto = "udp" THEN "dgram"
                    ELSE IF proto \in {"tcp", "sctp"} THEN "stream" ELSE "any"
    IN  [hints EXCEPT !.proto = proto, !.socktype = socktype]

evutil_parse_servname(serv, hints) ==
    CASE serv.number \in 0 .. 65535 -> serv.number
      [] /\ serv.number \notin 0 .. 65535 /\ "numericserv" \notin hints.flags
         /\ <<serv.name, hints.proto>> \in DOMAIN KnownServices -> KnownServices[<<serv.name, hints.proto>>]
      [] OTHER -> -1

evutil_new_addrinfo(sa, hints) ==
    LET Info(socktype, proto) == [sa |-> sa, socktype |-> socktype, proto |-> proto] IN
    IF hints.socktype = "any" /\ hints.proto = "any"
    THEN <<Info("stream", "tcp"), Info("dgram", "udp")>>
    ELSE <<Info(hints.socktype, hints.proto)>>

AnyOrLoopback(hints, port) ==
    LET passive == "passive" \in hints.flags
        six == Sockaddr(AF_INET6, IF passive THEN <<0, 0, 0, 0, 0, 0, 0, 0>> ELSE <<0, 0, 0, 0, 0, 0, 0, 1>>, port)
        four == Sockaddr(AF_INET, IF passive THEN <<0, 0>> ELSE <<127 * 256, 1>>, port)
    IN  (IF hints.family # AF_INET6 THEN evutil_new_addrinfo(four, hints) ELSE <<>>)
        \o (IF hints.family # AF_INET THEN evutil_new_addrinfo(six, hints) ELSE <<>>)

(* The result, *res, and *portnum, which only need_resolve writes.          *)
Answer(result, infos, port) == [result |-> result, infos |-> infos, port |-> port]

Numeric(node, hints, port) ==
    LET six == evutil_inet_pton(AF_INET6, node)
        four == evutil_inet_pton(AF_INET, node)
    IN  CASE hints.family # AF_INET /\ six # NoAddress ->
                Answer("ok", evutil_new_addrinfo(Sockaddr(AF_INET6, six, port), hints), 0)
          [] hints.family # AF_INET6 /\ (hints.family = AF_INET \/ six = NoAddress) /\ four # NoAddress ->
                Answer("ok", evutil_new_addrinfo(Sockaddr(AF_INET, four, port), hints), 0)
          [] OTHER -> IF "numerichost" \in hints.flags THEN Answer("noname", <<>>, 0)
                      ELSE Answer("need_resolve", <<>>, port)

WithPort(node, hints, port) ==
    CASE port < 0 -> Answer("noname", <<>>, 0)
      [] port >= 0 /\ node = NoNode -> Answer("ok", AnyOrLoopback(hints, port), 0)
      [] OTHER -> Numeric(node, hints, port)

evutil_getaddrinfo_common(node, serv, hints) ==
    CASE node = NoNode /\ serv = NoService -> Answer("noname", <<>>, 0)
      [] (node # NoNode \/ serv # NoService) /\ hints.family \notin {AF_UNSPEC, AF_INET, AF_INET6} ->
            Answer("family", <<>>, 0)
      [] OTHER -> WithPort(node, Inferred(hints),
                           IF serv = NoService THEN 0 ELSE evutil_parse_servname(serv, Inferred(hints)))
=============================================================================
