---------------------------- MODULE EvdnsPacket ----------------------------
(***************************************************************************)
(* The packets of libevent's DNS code, evdns.c: a query is built by the    *)
(* resolver and parsed by the server, which collects records and formats a *)
(* response with compressed names, and the resolver parses that.  A packet *)
(* is a sequence of bytes; a byte of the buffer that was never written is  *)
(* Garbage.  A name is a sequence of bytes too, with Dot between labels.   *)
(***************************************************************************)
EXTENDS Integers, Sequences, FiniteSets, SequencesExt

CONSTANTS BufLen,     \* size of the buffer of a response (1500)
          MaxReply,   \* what a response by UDP may have (512)
          LabelMax,   \* longest label that is written (63)
          NameLimit,  \* longest name that is written (255)
          NameMax,    \* size of the buffers for names (256)
          MaxAddrs    \* MAX_V4_ADDRS and MAX_V6_ADDRS

Garbage == -1
Dot == 46
Lower(c) == IF c \in 65 .. 90 THEN c + 32 ELSE c
SameName(a, b, exact) ==
    IF exact THEN a = b ELSE Len(a) = Len(b) /\ \A i \in DOMAIN a : Lower(a[i]) = Lower(b[i])

TYPE_A == 1  TYPE_CNAME == 5  TYPE_SOA == 6  TYPE_PTR == 12  TYPE_AAAA == 28
CLASS_INET == 1
AddrSize(type) == IF type = TYPE_A THEN 4 ELSE 16

Put16(n) == <<n \div 256, n % 256>>
Put32(n) == <<0, 0>> \o Put16(n)
Get16(p, j) == p[j + 1] * 256 + p[j + 2]
Get32(p, j) == Get16(p, j + 2)    \* times to live below 2^16
Bit(flags, n) == (flags \div 2^n) % 2 = 1

Bad == [ok |-> FALSE]

(* A name at offset j; pointers are followed, and idx is the offset after  *)
(* the first one.                                                          *)
RECURSIVE NameFrom(_, _, _, _, _)
NameFrom(p, j, name, after, jumps) ==
    IF j >= Len(p) THEN Bad
    ELSE LET n == p[j + 1]
             end == IF name = <<>> THEN <<>> ELSE Append(name, Dot)
         IN  IF n = 0 THEN [ok |-> Len(name) < NameMax, name |-> name,
                            idx |-> IF after < 0 THEN j + 1 ELSE after]
             ELSE IF n >= 64
             THEN IF j + 2 > Len(p) THEN Bad
                  ELSE LET to == (n % 64) * 256 + p[j + 2]
                       IN  IF to >= Len(p) \/ jumps + 1 > Len(p) THEN Bad
                           ELSE NameFrom(p, to, name, IF after < 0 THEN j + 2 ELSE after,
                                         jumps + 1)
             ELSE IF Len(end) + n >= NameMax \/ j + n >= Len(p) THEN Bad
             ELSE NameFrom(p, j + 1 + n, end \o SubSeq(p, j + 2, j + 1 + n), after, jumps)
name_parse(p, j) == NameFrom(p, j, <<>>, -1, 0)

----------------------------------------------------------------------------
(* Writing.  w is a buffer with its table of the names that were written   *)
(* and their offsets; size is what the buffer can hold.                    *)
Writer(size) == [ok |-> TRUE, stop |-> FALSE, buf |-> <<>>, table |-> <<>>, size |-> size]
Failed(w) == [w EXCEPT !.ok = FALSE]
Bytes(w, s) ==                     \* APPEND16, APPEND32, memcpy
    IF ~w.ok THEN w
    ELSE IF Len(w.buf) + Len(s) > w.size THEN Failed(w) ELSE [w EXCEPT !.buf = @ \o s]

MAX_LABELS == 128
dnslabel_table_get_pos(w, name) == SelectInSeq(w.table, LAMBDA e : e.v = name)
dnslabel_table_add(w, name) ==
    IF Len(w.table) = MAX_LABELS THEN w
    ELSE [w EXCEPT !.table = Append(@, [v |-> name, pos |-> Len(w.buf)])]

(* A failed check leaves what was written before it.  The last byte, 0, is *)
(* written without a look at the size of the buffer.                       *)
Terminated(w) ==
    IF w.buf = <<>> \/ Last(w.buf) # 0 THEN [w EXCEPT !.buf = Append(@, 0)] ELSE w

Label(w, name, label, compress) ==
    IF Len(label) > LabelMax \/ Len(w.buf) + Len(label) + 1 > w.size THEN Failed(w)
    ELSE LET x == IF compress THEN dnslabel_table_add(w, name) ELSE w
         IN  [x EXCEPT !.buf = Append(@, Len(label)) \o label]

RECURSIVE Labels(_, _, _)
Labels(w, name, compress) ==
    LET seen == IF compress THEN dnslabel_table_get_pos(w, name) ELSE 0
        dot == SelectInSeq(name, LAMBDA c : c = Dot)
    IN  IF ~w.ok THEN w
        ELSE IF seen > 0 THEN Bytes(w, Put16(w.table[seen].pos + 49152))
        ELSE IF dot = 0
        THEN LET x == Label(w, name, name, compress) IN IF x.ok THEN Terminated(x) ELSE x
        ELSE Labels(Label(w, name, SubSeq(name, 1, dot - 1), compress),
                    SubSeq(name, dot + 1, Len(name)), compress)

dnsname_to_labels(w, name, compress) ==
    IF ~w.ok THEN w ELSE IF Len(name) > NameLimit THEN Failed(w) ELSE Labels(w, name, compress)

evdns_request_len(n) == 96 + n + 2 + 4

Header(id, flags, counts) ==
    Put16(id) \o Put16(flags) \o Put16(counts[1]) \o Put16(counts[2])
        \o Put16(counts[3]) \o Put16(counts[4])

evdns_request_data_build(id, name, type) ==
    LET w == Bytes(dnsname_to_labels(Bytes(Writer(evdns_request_len(Len(name))),
                                           Header(id, 256, <<1, 0, 0, 0>>)),
                                     name, FALSE),
                   Put16(type) \o Put16(CLASS_INET))
    IN  IF w.ok THEN [ok |-> TRUE, packet |-> w.buf] ELSE Bad

----------------------------------------------------------------------------
(* The server: the questions of a query, and the request that waits for    *)
(* its answer.                                                             *)
RECURSIVE QuestionsFrom(_, _, _)
QuestionsFrom(p, j, n) ==
    IF n = 0 THEN [ok |-> TRUE, questions |-> <<>>]
    ELSE LET a == name_parse(p, j)
         IN  IF ~a.ok THEN Bad
             ELSE IF a.idx + 4 > Len(p) THEN Bad
             ELSE LET rest == QuestionsFrom(p, a.idx + 4, n - 1)
                  IN  IF ~rest.ok THEN Bad
                      ELSE [ok |-> TRUE,
                            questions |-> <<[name |-> a.name, type |-> Get16(p, a.idx),
                                             class |-> Get16(p, a.idx + 2)]>>
                                              \o rest.questions]

request_parse(p) ==
    IF Len(p) < 12 \/ Bit(Get16(p, 2), 15) THEN Bad
    ELSE LET q == QuestionsFrom(p, 12, Get16(p, 4))
             flags == Get16(p, 2)
         IN  IF ~q.ok THEN Bad
             ELSE [ok |-> TRUE, id |-> Get16(p, 0), questions |-> q.questions,
                   flags |-> (IF Bit(flags, 8) THEN 256 ELSE 0) + (IF Bit(flags, 4) THEN 16 ELSE 0),
                   items |-> [s \in {"answer", "authority", "additional"} |-> <<>>],
                   response |-> <<>>]

Item(name, type, ttl, isName, data) ==
    [name |-> name, type |-> type, ttl |-> ttl, isName |-> isName, data |-> data]
(* Nothing is added once the response is there.                            *)
evdns_server_request_add_reply(r, section, item) ==
    IF r.response # <<>> THEN r ELSE [r EXCEPT !.items[section] = Append(@, item)]
evdns_server_request_add_a_reply(r, name, addrs, ttl) ==
    evdns_server_request_add_reply(r, "answer", Item(name, TYPE_A, ttl, FALSE, FlattenSeq(addrs)))
evdns_server_request_add_aaaa_reply(r, name, addrs, ttl) ==
    evdns_server_request_add_reply(r, "answer",
        Item(name, TYPE_AAAA, ttl, FALSE, FlattenSeq(addrs)))
evdns_server_request_add_ptr_reply(r, name, host, ttl) ==
    evdns_server_request_add_reply(r, "answer", Item(name, TYPE_PTR, ttl, TRUE, host))
evdns_server_request_add_cname_reply(r, name, cname, ttl) ==
    evdns_server_request_add_reply(r, "answer", Item(name, TYPE_CNAME, ttl, TRUE, cname))
(* AA and RD are those of flags.                                           *)
evdns_server_request_set_flags(r, flags) ==
    [r EXCEPT !.flags = (IF Bit(@, 4) THEN 16 ELSE 0) + flags]

(* The length of a name is filled in when the name is written.             *)
PutName(w, name) ==
    LET x == dnsname_to_labels([w EXCEPT !.buf = @ \o <<0, 0>>], name, TRUE)
        n == Len(x.buf) - Len(w.buf) - 2
    IN  IF ~x.ok THEN Failed(w)
        ELSE [x EXCEPT !.buf = SubSeq(@, 1, Len(w.buf)) \o Put16(n)
                                  \o SubSeq(@, Len(w.buf) + 3, Len(@))]
PutItem(w, item) ==
    LET x == Bytes(Bytes(Bytes(dnsname_to_labels(w, item.name, TRUE), Put16(item.type)),
                         Put16(CLASS_INET)), Put32(item.ttl))
    IN  IF ~x.ok THEN x
        ELSE IF item.isName THEN PutName(x, item.data)
        ELSE Bytes(Bytes(x, Put16(Len(item.data))), item.data)
PutQuestion(w, q) ==
    LET x == dnsname_to_labels(w, q.name, TRUE)
    IN  IF w.ok /\ ~x.ok THEN [x EXCEPT !.stop = TRUE]
        ELSE Bytes(Bytes(x, Put16(q.type)), Put16(q.class))

Counts(r) == <<Len(r.questions), Len(r.items["answer"]), Len(r.items["authority"]),
               Len(r.items["additional"])>>
AllItems(r) == r.items["answer"] \o r.items["authority"] \o r.items["additional"]

Cut(buf) ==
    [i \in 1 .. MaxReply |->
        IF i > Len(buf) THEN Garbage ELSE IF i = 3 /\ ~Bit(buf[3], 1) THEN buf[3] + 2 ELSE buf[i]]

evdns_server_request_format_response(r, err) ==
    LET h == Bytes(Writer(BufLen), Header(r.id, 32768 + r.flags + err, Counts(r)))
        q == FoldLeft(PutQuestion, h, r.questions)
        w == FoldLeft(PutItem, q, AllItems(r))
    IN  IF q.stop THEN r
        ELSE [r EXCEPT !.items = [s \in DOMAIN r.items |-> <<>>],
                       !.response = IF ~w.ok \/ Len(w.buf) > MaxReply THEN Cut(w.buf) ELSE w.buf]

(* How many bytes the writers put into the buffer.                         *)
Written(r) == Len(FoldLeft(PutItem, FoldLeft(PutQuestion,
                  Bytes(Writer(BufLen), Header(r.id, 0, Counts(r))), r.questions), AllItems(r)).buf)

----------------------------------------------------------------------------
(* The resolver: c is a request of its own with its packet.                *)
NoTtl == 2^30
Lesser(a, b) == IF a < b THEN a ELSE b

RECURSIVE Questions(_, _, _, _, _)
Questions(c, p, j, n, matches) ==
    IF n = 0 THEN [ok |-> matches, j |-> j]
    ELSE LET a == name_parse(p, j)
             b == name_parse(c.packet, j)
         IN  IF ~a.ok \/ ~b.ok THEN Bad
             ELSE IF a.idx + 4 > Len(p) THEN Bad
             ELSE Questions(c, p, a.idx + 4, n - 1,
                            matches \/ SameName(a.name, b.name, c.randomize))

(* A record at offset j: its name is skipped.                              *)
Record(p, j) ==
    LET a == name_parse(p, j)
    IN  IF ~a.ok THEN Bad
        ELSE IF a.idx + 10 > Len(p) THEN Bad
        ELSE [ok |-> TRUE, type |-> Get16(p, a.idx), class |-> Get16(p, a.idx + 2),
              ttl |-> Get32(p, a.idx + 4), len |-> Get16(p, a.idx + 8), j |-> a.idx + 10]

(* What the answers gave so far.                                           *)
Nothing == [ok |-> TRUE, have |-> FALSE, addrs |-> <<>>, ptr |-> <<>>, cname |-> <<>>,
            ttl |-> NoTtl, j |-> 0]

Copy(p, j, size, n) == [i \in 1 .. n |-> SubSeq(p, j + (i - 1) * size + 1, j + i * size)]

Addresses(p, r, acc) ==
    LET size == AddrSize(r.type)
        n == Lesser(MaxAddrs - Len(acc.addrs), r.len \div size)
    IN  IF r.len % size # 0 \/ r.j + size * n > Len(p) THEN Bad
        ELSE [acc EXCEPT !.have = TRUE, !.ttl = Lesser(@, r.ttl),
                         !.addrs = @ \o Copy(p, r.j, size, n), !.j = r.j + size * n]

RECURSIVE Answers(_, _, _, _)
Answers(c, p, n, acc) ==
    IF n = 0 \/ ~acc.ok THEN acc
    ELSE LET r == Record(p, acc.j)
         IN  IF ~r.ok THEN Bad
             ELSE IF r.type \in {TYPE_A, TYPE_AAAA} /\ r.class = CLASS_INET /\ c.type = r.type
             THEN LET x == Addresses(p, r, acc)
                  IN  IF x.ok /\ Len(x.addrs) = MaxAddrs THEN x ELSE Answers(c, p, n - 1, x)
             ELSE IF r.type = TYPE_PTR /\ r.class = CLASS_INET /\ c.type = TYPE_PTR
             THEN LET a == name_parse(p, r.j)
                  IN  IF ~a.ok THEN Bad
                      ELSE [acc EXCEPT !.have = TRUE, !.ptr = a.name,
                                       !.ttl = Lesser(@, r.ttl), !.j = a.idx]
             ELSE IF r.type = TYPE_CNAME /\ c.wantsCname /\ acc.cname = <<>>
             THEN LET a == name_parse(p, r.j)
                  IN  IF ~a.ok THEN Bad
                      ELSE Answers(c, p, n - 1, [acc EXCEPT !.cname = a.name, !.j = a.idx])
             ELSE Answers(c, p, n - 1, [acc EXCEPT !.j = r.j + r.len])

(* Without an answer the time to live is that of the start of authority.   *)
Soa(p, r, acc) ==
    LET a == name_parse(p, r.j)
        b == IF a.ok THEN name_parse(p, a.idx) ELSE Bad
    IN  IF ~b.ok THEN Bad
        ELSE IF b.idx + 20 > Len(p) THEN Bad
        ELSE [acc EXCEPT !.ttl = Lesser(@, Lesser(r.ttl, Get32(p, b.idx + 16))), !.j = b.idx + 20]
RECURSIVE Authority(_, _, _)
Authority(p, n, acc) ==
    IF n = 0 \/ ~acc.ok \/ acc.have THEN acc
    ELSE LET r == Record(p, acc.j)
         IN  IF ~r.ok THEN Bad
             ELSE IF r.type = TYPE_SOA /\ r.class = CLASS_INET
                  THEN Authority(p, n - 1, Soa(p, r, acc))
             ELSE Authority(p, n - 1, [acc EXCEPT !.j = r.j + r.len])

(* What reply_handle is told: the flags and a reply or none; Bad when the  *)
(* packet belongs to no request.                                           *)
Handled(flags, a) ==
    IF ~a.ok THEN [ok |-> TRUE, flags |-> flags, reply |-> Bad]
    ELSE [ok |-> TRUE, flags |-> flags,
          reply |-> [a EXCEPT !.ttl = IF @ = NoTtl THEN 0 ELSE @]]
ErrorBits(flags) == Bit(flags, 9) \/ flags % 16 \notin {0, 3}

(* Mutant of AfterQuestions: the name of the question is not compared.     *)
Mutant_AfterQuestions(c, p, q) ==
    IF "j" \notin DOMAIN q THEN Bad
    ELSE Authority(p, Get16(p, 8), Answers(c, p, Get16(p, 6), [Nothing EXCEPT !.j = q.j]))
AfterQuestions(c, p, q) ==
    IF ~q.ok THEN Bad
    ELSE Authority(p, Get16(p, 8), Answers(c, p, Get16(p, 6), [Nothing EXCEPT !.j = q.j]))
reply_parse(c, p) ==
    IF Len(p) < 12 THEN Bad
    ELSE IF Get16(p, 0) # c.id \/ ~Bit(Get16(p, 2), 15) THEN Bad
    ELSE IF ErrorBits(Get16(p, 2)) THEN Handled(Get16(p, 2), Bad)
    ELSE Handled(Get16(p, 2), AfterQuestions(c, p, Questions(c, p, 12, Get16(p, 4), FALSE)))
=============================================================================
