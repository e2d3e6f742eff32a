------------------------------- MODULE MCDns -------------------------------
(***************************************************************************)
(* The DNS modules for TLC: each instance below is a part, and a behaviour *)
(* is one of a single part.  Names that the parts share are one variable.  *)
(***************************************************************************)
EXTENDS EvdnsPacket, TLC

CONSTANTS h1, h2, NoValue, BadValue

VARIABLES part, d, op, r, p, servers, opts, search, states, lookups, hosts, heads, calls,
          stage, c, answered, reader, got

allVars == <<part, d, op, r, p, servers, opts, search, states, lookups, hosts, heads, calls,
             stage, c, answered, reader, got>>

(* The resolver: lookups that are sent again and to other servers, names   *)
(* that are searched, and servers that are removed and added.              *)
MaxInflight == 1
MaxReissues == 1
MaxRetransmits == 1
MaxTimeouts == 0
MaxAsked == 2

Lookups_ == INSTANCE Evdns WITH Servers <- {"A", "B"}, Domains <- 0, Handles <- {1, 2, 3},
                Results <- {"ok", "refused"}, Does <- {"resolve", "timeout", "probe", "reply"}
Searches == INSTANCE Evdns WITH Servers <- {"A"}, Domains <- 2, Handles <- {1, 2},
                Results <- {"ok", "missing", "failed", "refused"},
                Does <- {"resolve", "reply", "timeout", "cancel"}
Clears == INSTANCE Evdns WITH Servers <- {"A", "B"}, Domains <- 0, Handles <- {1, 2},
              Results <- {"ok"},
              Does <- {"resolve", "cancel", "reply", "clear", "add", "resume", "free"}

(* A port that answers.                                                    *)
Port == INSTANCE EvdnsServer WITH Requests <- {1, 2, 3},
            Plans <- {"later", "respond", "drop", "close"}

(* Configuration: files of a few lines, one of each kind and with each     *)
(* kind of value; search lists that change; the table of requests.         *)
A1 == [ip |-> "a1", port |-> 0]
A1p == [ip |-> "a1", port |-> 53]
A2 == [ip |-> "a2", port |-> 54]
A3 == [ip |-> "a3", port |-> 0]
SomeAddresses == {A1, A1p, A2, A3, BadValue}
Unusable == {"a3"}

Opt(name, val) == [name |-> name, val |-> val]
Line(key, args) == [key |-> key, args |-> args]

SomeLines == {Line("nameserver", <<A1>>), Line("nameserver", <<BadValue>>), Line("nameserver", <<>>),
              Line("nameserver", <<A3>>),
              Line("domain", <<"d1">>), Line("search", <<"d1", "d2">>), Line("search", <<>>),
              Line("options", <<Opt("ndots", 2), Opt("bind-to", 7)>>),
              Line("options", <<Opt("timeout", 5), Opt("attempts", 300)>>),
              Line("options", <<Opt("max-inflight", 7)>>), Line("sortlist", <<"d1">>)}
FileOptions == {Opt("ndots", BadValue), Opt("timeout", BadValue), Opt("timeout", 0),
                Opt("max-timeouts", 300), Opt("randomize-case", BadValue),
                Opt("initial-probe-timeout", 4000), Opt("max-inflight", 0),
                Opt("max-inflight", 12), Opt("getaddrinfo-allow-skew", 3)}
FlightOptions == {Opt("max-inflight", n) : n \in {0, 6, 12, 17}}

Says(name, hash) == [name |-> name, hash |-> hash]
SomeHostsLines == {[addr |-> "v4", port |-> 0, names |-> <<Says("h1", "no"), Says("h2", "end"), Says("h3", "no")>>],
                   [addr |-> "v6", port |-> 0, names |-> <<Says("h2", "no"), Says("h3", "start")>>],
                   [addr |-> "v6", port |-> 9, names |-> <<Says("h1", "no")>>],
                   [addr |-> BadValue, port |-> 0, names |-> <<Says("h1", "no")>>]}
Everything == {"search", "nameservers", "misc", "hostsfile"}
SomeFlags == {Everything} \cup {Everything \ {x} : x \in Everything}
Dots == [www |-> 0, wwwdot |-> 1, wwwdots |-> 2]

Domains == {"d1", "d2", "d3"}
HostDomain == "d3"
MaxLines == 1
Lines == SomeLines
HostsLines == SomeHostsLines
FlagSets == SomeFlags

Files_ == INSTANCE EvdnsConf WITH Names <- Dots, GivenServers <- SomeAddresses,
              Options <- FileOptions, Handles <- {h1}, Ids <- {1}, MaxCalls <- 2,
             Bad <- BadValue, None <- NoValue
Lists == INSTANCE EvdnsConf WITH Names <- Dots, GivenServers <- SomeAddresses,
             Options <- {}, Handles <- {h1, h2}, Ids <- {1}, MaxCalls <- 4,
             Bad <- BadValue, None <- NoValue
Table == INSTANCE EvdnsConf WITH Names <- Dots, GivenServers <- SomeAddresses,
             Options <- FlightOptions, Handles <- {h1}, Ids <- {1, 6, 13, 20}, MaxCalls <- 5,
             Bad <- BadValue, None <- NoValue

-----------------------------------------------------------------------------
(* One query: it is built, parsed by the server, answered with a few       *)
(* records, and the response is parsed for the query or for another one    *)
(* that has the same identifier.                                           *)
A == <<97>>
BA == <<98, 46, 97>>
UpperA == <<65>>
ADot == <<97, 46>>
Names == {A, BA, UpperA}
RecordNames == {BA, ADot}
Types == {TYPE_A, TYPE_PTR, TYPE_AAAA}
MaxItems == 2    \* bound on the records of a response

Clients ==
    {[id |-> 7, name |-> n, type |-> t, randomize |-> e, wantsCname |-> TRUE,
      packet |-> evdns_request_data_build(7, n, t).packet] :
        n \in {x \in Names : evdns_request_data_build(7, x, TYPE_A).ok}, t \in Types,
        e \in BOOLEAN}

PacketInit ==
    /\ stage = "query" /\ c \in Clients
    /\ r = Bad /\ answered = Bad /\ reader = c /\ got = Bad

Receive ==
    /\ stage = "query" /\ stage' = "answering"
    /\ r' = request_parse(c.packet)
    /\ UNCHANGED <<c, answered, reader, got>>

Addr(type, n) == [i \in 1 .. AddrSize(type) |-> n]
SoaData == [i \in 1 .. 22 |-> IF i = 22 THEN 1 ELSE 0]    \* minimum 1

AddReply ==
    /\ stage = "answering" /\ Len(AllItems(r)) < MaxItems
    /\ \E n \in RecordNames, ttl \in {1, 2} :
          r' \in {evdns_server_request_add_a_reply(r, n, <<Addr(TYPE_A, ttl)>>, ttl),
                  evdns_server_request_add_a_reply(r, n, <<Addr(TYPE_A, 1), Addr(TYPE_A, 2)>>, ttl),
                  evdns_server_request_add_aaaa_reply(r, n, <<Addr(TYPE_AAAA, ttl)>>, ttl),
                  evdns_server_request_add_ptr_reply(r, A, n, ttl),
                  evdns_server_request_add_cname_reply(r, A, n, ttl),
                  evdns_server_request_add_reply(r, "authority",
                      Item(n, TYPE_SOA, 2, FALSE, SoaData)),
                  evdns_server_request_add_reply(r, "additional",
                      Item(n, TYPE_A, ttl, FALSE, Addr(TYPE_A, 2)))}
    /\ UNCHANGED <<stage, c, answered, reader, got>>

Respond ==
    /\ stage = "answering"
    /\ \E how \in {<<0, 1024>>, <<3, 256>>, <<5, 0>>} :    \* error code, flags
          /\ answered' = evdns_server_request_set_flags(r, how[2])
          /\ r' = evdns_server_request_format_response(answered', how[1])
    /\ stage' = "answered"
    /\ UNCHANGED <<c, reader, got>>

Read ==
    /\ stage = "answered" /\ r.response # <<>>
    /\ stage' = "read"
    /\ reader' \in {x \in Clients : x = c \/ (x.type = c.type /\ x.name # c.name)}
    /\ got' = reply_parse(reader', r.response)
    /\ UNCHANGED <<c, r, answered>>

PacketNext == Receive \/ AddReply \/ Respond \/ Read

-----------------------------------------------------------------------------
Idle(v) == v = <<>>
NoResolver == Idle(d)
NoConf == /\ Idle(servers) /\ Idle(opts) /\ Idle(search) /\ Idle(states) /\ Idle(lookups)
          /\ Idle(hosts) /\ Idle(heads) /\ Idle(calls)
NoPacket == Idle(stage) /\ Idle(c) /\ Idle(answered) /\ Idle(reader) /\ Idle(got)
ResolverOnly == Idle(r) /\ Idle(p) /\ NoConf /\ NoPacket
ConfOnly == NoResolver /\ Idle(op) /\ Idle(r) /\ Idle(p) /\ NoPacket

Init ==
    \/ part = "lookups" /\ Lookups_!Init /\ ResolverOnly
    \/ part = "searches" /\ Searches!Init /\ ResolverOnly
    \/ part = "clears" /\ Clears!Init /\ ResolverOnly
    \/ part = "port" /\ Port!Init /\ NoResolver /\ Idle(r) /\ NoConf /\ NoPacket
    \/ part = "files" /\ Files_!Init /\ ConfOnly
    \/ part = "lists" /\ Lists!Init /\ ConfOnly
    \/ part = "table" /\ Table!Init /\ ConfOnly
    \/ part = "packet" /\ PacketInit /\ NoResolver /\ Idle(op) /\ Idle(p) /\ NoConf

NoConfStep == UNCHANGED <<servers, opts, search, states, lookups, hosts, heads, calls>>
NoPacketStep == UNCHANGED <<stage, c, answered, reader, got>>
InResolver == UNCHANGED <<part, r, p>> /\ NoConfStep /\ NoPacketStep
InConf == UNCHANGED <<part, d, op, r, p>> /\ NoPacketStep

Next ==
    \/ part = "lookups" /\ Lookups_!Next /\ InResolver
    \/ part = "searches" /\ Searches!Next /\ InResolver
    \/ part = "clears" /\ Clears!Next /\ InResolver
    \/ part = "port" /\ Port!Next /\ UNCHANGED <<part, d, r>> /\ NoConfStep /\ NoPacketStep
    \/ part = "files" /\ Files_!FileNext /\ InConf
    \/ part = "lists" /\ Lists!SearchNext /\ InConf
    \/ part = "table" /\ Table!FlightNext /\ InConf
    \/ part = "packet" /\ PacketNext /\ UNCHANGED <<part, d, op, p>> /\ NoConfStep

Spec == Init /\ [][Next]_allVars

-----------------------------------------------------------------------------
Bare(name) == IF name # <<>> /\ Last(name) = Dot THEN Front(name) ELSE name

(* The server sees the query as it was made: evdns_request_data_build,     *)
(* name_parse and request_parse agree on every name.                       *)
QueryRead ==
    part = "packet" /\ stage = "answering" =>
        /\ r.ok /\ r.id = c.id
        /\ r.questions = <<[name |-> Bare(c.name), type |-> c.type, class |-> CLASS_INET]>>

(* Of the records of the answer, those up to the one that fills the reply. *)
Addrs(item) == Len(item.data) \div AddrSize(item.type)
Mine(s, k) == SelectSeq(SubSeq(s, 1, k), LAMBDA x : x.type = reader.type)
Total(s, k) == FoldLeft(LAMBDA n, x : n + Addrs(x), 0, Mine(s, k))
Seen(s) ==
    LET full == {k \in DOMAIN s : /\ s[k].type = reader.type
                                  /\ \/ reader.type = TYPE_PTR
                                     \/ Total(s, k) >= MaxAddrs}
    IN  IF full = {} THEN Len(s) ELSE CHOOSE k \in full : \A l \in full : k <= l
MinTtl(S) == CHOOSE t \in S : \A u \in S : t <= u
Expected(s, k) ==
    LET mine == Mine(s, k)
        data == FlattenSeq([i \in DOMAIN mine |-> mine[i].data])
        cnames == SelectSeq(SubSeq(s, 1, k), LAMBDA x : x.type = TYPE_CNAME)
        n == IF reader.type = TYPE_PTR THEN 0 ELSE Lesser(MaxAddrs, Total(s, k))
    IN  [have |-> mine # <<>>,
         addrs |-> Copy(data, 0, AddrSize(reader.type), n),
         ptr |-> IF reader.type = TYPE_PTR /\ mine # <<>> THEN Bare(data) ELSE <<>>,
         cname |-> IF cnames = <<>> THEN <<>> ELSE Bare(cnames[1].data),
         ttl |-> IF mine # <<>> THEN MinTtl({mine[i].ttl : i \in DOMAIN mine})
                 ELSE IF answered.items["authority"] # <<>> THEN 1 ELSE 0]
TheReply == [f \in {"have", "addrs", "ptr", "cname", "ttl"} |-> got.reply[f]]

(* What the resolver reads is what the server was told to answer: the      *)
(* addresses in order, at most MaxAddrs, the first alias, and the least    *)
(* time to live, or that of the start of authority when there is none.     *)
(* Names that were compressed come out whole.                              *)
AnswersRead ==
    part = "packet" /\ stage = "read" /\ reader = c /\ ~ErrorBits(Get16(r.response, 2)) =>
        /\ got.ok /\ got.reply.ok
        /\ TheReply = LET s == answered.items["answer"] IN Expected(s, Seen(s))

(* A response is not taken for the answer to a query of another name, or   *)
(* of the same name in other letters where that is checked (0x20).         *)
OnlyOwnAnswer ==
    part = "packet" /\ stage = "read" /\ got.ok =>
        (got.reply.ok =>
            SameName(Bare(reader.name), Bare(c.name), reader.randomize))

(* The response is what was written, unless it is longer than a datagram:  *)
(* then it is as long as one, and the resolver is told that it was cut.    *)
CutIsTold ==
    part = "packet" /\ stage = "read" /\ got.ok =>
        /\ Bit(got.flags, 9) <=> Written(answered) > MaxReply
        /\ Len(r.response) = Lesser(MaxReply, Written(answered))
        /\ \A i \in DOMAIN r.response : r.response[i] # Garbage

-----------------------------------------------------------------------------
(* The properties of the parts, which state them.                          *)

(* The lists of the resolver, its counts and its servers agree (evdns.c).  *)
Consistent == /\ part = "lookups" => Lookups_!Consistent
              /\ part = "clears" => Clears!Consistent

(* A request in flight has a timer or waits for its socket (evdns.c).      *)
NothingForgotten == part = "lookups" => Lookups_!NothingForgotten

(* A server that is down is probed again (evdns.c:594-633).                *)
DownIsProbed == part = "lookups" => Lookups_!DownIsProbed

(* Every name that was looked up is answered once (evdns.c:774-850).       *)
AnsweredOnce == /\ part = "lookups" => Lookups_!AnsweredOnce
                /\ part = "searches" => Searches!AnsweredOnce
                /\ part = "clears" => Clears!AnsweredOnce

(* A name is missing only when every domain was tried (evdns.c:3200-3238). *)
SearchComplete == part = "searches" => Searches!SearchComplete

(* A port lives as long as something refers to it (evdns.c:2059-2104).     *)
References == part = "port" => Port!References

(* Replies that wait are listed and the socket tells (evdns.c:1992-2015).  *)
PendingArmed == part = "port" => Port!PendingArmed

(* A file changes what its flags allow (evdns.c:3388-3509).                *)
FlagsRespected == part = "files" => Files_!FlagsRespected

(* No server is listed twice (evdns.c:2469-2474).                          *)
ServersDistinct == part = "files" => Files_!ServersDistinct

(* A file that is read for servers leaves one (evdns.c:3592-3596).         *)
SomeServer == part = "files" => Files_!SomeServer

(* A name of the hosts file is not asked for (evdns.c:4495-4533).          *)
KnownNameAnswered == part = "files" => Files_!KnownNameAnswered

(* A search list lives as long as it is used (evdns.c:2999-3029).          *)
SearchRefs == part = "lists" => Lists!SearchRefs

(* A lookup that fails has tried the whole list (evdns.c:3199-3240).       *)
TriesAll == part = "lists" => Lists!TriesAll

(* A request is on the list where its answer is looked for                 *)
(* (evdns.c:3329-3358).                                                    *)
AnswersFind == part = "table" => Table!AnswersFind

-----------------------------------------------------------------------------
(* What the runs check: the properties above by what they are about. *)

(* Every lookup of the resolver of evdns.c is answered once, none is       *)
(* forgotten, servers that are down are probed, and a port answers as long *)
(* as something refers to it.                                              *)
ResolverSound ==
    /\ Consistent /\ NothingForgotten /\ DownIsProbed /\ AnsweredOnce
    /\ SearchComplete /\ References /\ PendingArmed

(* The configuration of evdns.c: a file changes what its flags allow,      *)
(* servers are distinct, names of the hosts file are not asked for, and    *)
(* search lists and the table of requests stay sound.                      *)
ConfSound ==
    /\ FlagsRespected /\ ServersDistinct /\ SomeServer /\ KnownNameAnswered
    /\ SearchRefs /\ TriesAll /\ AnswersFind

(* A query and its response on the wire: the server reads what was asked,  *)
(* the resolver what was answered to its own question, and whether it was  *)
(* cut (evdns.c).                                                          *)
PacketSound ==
    /\ QueryRead /\ AnswersRead /\ OnlyOwnAnswer /\ CutIsTold

=============================================================================
