----------------------------- MODULE EvdnsConf -----------------------------
(***************************************************************************)
(* The configuration of a DNS base (evdns.c): resolv.conf and hosts files, *)
(* options, the list of name servers, the search list, which lookups in    *)
(* progress share and count, the hosts entries, and the table of requests  *)
(* in flight, which an option resizes.                                     *)
(*                                                                         *)
(* A line of resolv.conf is a record of its first word and the others; an  *)
(* option is a name and a value, Bad when it is not a number; an address   *)
(* is [ip, port], port 0 when the text names none, and a domain stands for *)
(* its text without the dots in front.  Memory never runs out, every name  *)
(* fits into a query, and every operation holds the lock of the base.      *)
(* Evdns models the servers at work: which one is the head, and their end. *)
(***************************************************************************)
EXTENDS Integers, FiniteSets, SequencesExt

CONSTANTS
    Lines,              \* lines of resolv.conf, [key, args]
    HostsLines,         \* lines of a hosts file, [addr, names]
    Options,            \* [name, val] that a program sets
    FlagSets,           \* sets of "search", "nameservers", "misc", "hostsfile"
    GivenServers,       \* what a program adds as a name server
    Unusable,           \* IPs that no socket can be opened or bound for
    Domains,            \* search domains
    Names,              \* names in lookups: name -> number of dots
    HostDomain,         \* what the host's own name ends with, None if nothing
    Handles,            \* lookups
    Ids,                \* transaction ids
    MaxLines, MaxCalls, \* bounds: lines of a file, calls of the program
    Bad, None

VARIABLES servers,      \* base->server_head, as a sequence from the head
          opts,         \* the other options
          search,       \* base->global_search_state, 0 for NULL
          states,       \* the search_state structures
          lookups,      \* lookups that search
          hosts,        \* base->hostsdb
          heads,        \* base->req_heads
          calls         \* how much the program has done

vars == <<servers, opts, search, states, lookups, hosts, heads, calls>>

StateIds == 1 .. Cardinality(Handles) + 2

(* The part of the base that a configuration file changes. *)
Now == [servers |-> servers, opts |-> opts, search |-> search, states |-> states,
        hosts |-> hosts, heads |-> heads]
Becomes(s) == /\ servers' = s.servers /\ opts' = s.opts /\ search' = s.search
              /\ states' = s.states /\ hosts' = s.hosts /\ heads' = s.heads

-----------------------------------------------------------------------------
(* The search list *)

Freed == [ref |-> 0, ndots |-> 0, domains |-> <<>>]

search_state_new(s) ==
    LET i == CHOOSE j \in StateIds : s.states[j].ref = 0 IN
    [s EXCEPT !.search = i, !.states[i] = [ref |-> 1, ndots |-> 1, domains |-> <<>>]]

state_decref(sts, i) ==
    CASE i = 0 -> sts
      [] i # 0 /\ sts[i].ref = 1 -> [sts EXCEPT ![i] = Freed]
      [] OTHER -> [sts EXCEPT ![i].ref = @ - 1]

search_postfix_clear(s) ==
    search_state_new([s EXCEPT !.states = state_decref(s.states, s.search)])

WithState(s) == IF s.search = 0 THEN search_state_new(s) ELSE s

search_postfix_add(s, domain) ==
    LET t == WithState(s) IN [t EXCEPT !.states[t.search].domains = <<domain>> \o @]

search_reverse(s) == [s EXCEPT !.states[s.search].domains = Reverse(@)]

search_set_from_hostname(s) ==
    LET t == search_postfix_clear(s) IN
    IF HostDomain = None THEN t ELSE search_postfix_add(t, HostDomain)

ndots_set(s, n) == LET t == WithState(s) IN [t EXCEPT !.states[t.search].ndots = n]

(* Starting a lookup: search_request_new.  "tried" collects the names that  *)
(* are asked for, "" standing for the name alone; "owed" what the list held *)
(* at the start.                                                            *)
Nobody == [live |-> FALSE, name |-> None, state |-> 0, index |-> 0, tried |-> {}, owed |-> {},
           failed |-> FALSE]

search_request_new(s, name, no_search) ==
    LET st == s.states[s.search]
        plain == [Nobody EXCEPT !.live = TRUE, !.name = name, !.tried = {""}, !.owed = {""}]
        first == IF Names[name] >= st.ndots THEN [tried |-> {""}, index |-> -1]
                 ELSE [tried |-> {st.domains[1]}, index |-> 0]
    IN  IF no_search \/ s.search = 0 THEN plain
        ELSE IF st.domains = <<>> THEN plain
        ELSE [plain EXCEPT !.state = s.search, !.index = first.index, !.tried = first.tried,
                           !.owed = Range(st.domains) \cup {""}]

(* search_try_next, on an answer that there is no such name.                *)
Fails(l) == [l EXCEPT !.live = FALSE, !.failed = TRUE, !.state = 0]

(* Mutant of search_try_next: the last domain of the list is not reached. *)
Mutant_search_try_next(l) ==
    LET st == states[l.state]
        i == l.index + 1
    IN  IF l.state = 0 THEN Fails(l)
        ELSE IF i >= Len(st.domains) - 1
        THEN IF Names[l.name] < st.ndots
             THEN [l EXCEPT !.state = 0, !.tried = @ \cup {""}]
             ELSE Fails(l)
        ELSE [l EXCEPT !.index = i, !.tried = @ \cup {st.domains[i + 1]}]

search_try_next(l) ==
    LET st == states[l.state]
        i == l.index + 1
    IN  IF l.state = 0 THEN Fails(l)
        ELSE IF i >= Len(st.domains)
        THEN IF Names[l.name] < st.ndots
             THEN [l EXCEPT !.state = 0, !.tried = @ \cup {""}]
             ELSE Fails(l)
        ELSE [l EXCEPT !.index = i, !.tried = @ \cup {st.domains[i + 1]}]

-----------------------------------------------------------------------------
(* Name servers, options and files *)

nameserver_ip_add(s, a) ==
    LET b == IF a.port = 0 THEN [a EXCEPT !.port = 53] ELSE a IN
    CASE a = Bad -> s
      [] a # Bad /\ (b \in Range(s.servers) \/ a.ip \in Unusable) -> s
      [] OTHER -> [s EXCEPT !.servers = IF @ = <<>> THEN <<b>> ELSE <<Head(@), b>> \o Tail(@)]

Local == [ip |-> "127.0.0.1", port |-> 0]

clipped(val, min, max) == IF val < min THEN min ELSE IF val > max THEN max ELSE val

(* evdns_base_set_max_requests_inflight: the requests move to the lists of  *)
(* a new table.  heads is a sequence; the list of an id is REQ_HEAD.        *)
REQ_HEAD(table, id) == (id % Len(table)) + 1

Rehashed(table, n) ==
    [j \in 1 .. n |-> SelectSeq(FlattenSeq(table), LAMBDA id : (id % n) + 1 = j)]

set_max_requests_inflight(s, maxinflight) ==
    LET max == IF maxinflight < 1 THEN 1 ELSE maxinflight IN
    [s EXCEPT !.heads = Rehashed(@, (max + 4) \div 5), !.opts["max-inflight"] = max]

set_option_impl(s, o, flags) ==
    CASE o.name # "randomize-case" /\ (o.val = Bad \/ o.val = -1) -> s
      [] o.name = "ndots" /\ o.val # Bad /\ o.val # -1 ->
            IF "search" \in flags THEN ndots_set(s, o.val) ELSE s
      [] o.name = "bind-to" /\ o.val # Bad ->
            IF "nameservers" \in flags THEN [s EXCEPT !.opts["bind-to"] = o.val] ELSE s
      [] o.name = "randomize-case" ->
            IF "misc" \in flags THEN [s EXCEPT !.opts[o.name] = IF o.val = Bad THEN -1 ELSE o.val]
            ELSE s
      [] o.name = "max-inflight" /\ o.val # Bad /\ o.val # -1 ->
            IF "misc" \in flags THEN set_max_requests_inflight(s, clipped(o.val, 1, 65000)) ELSE s
      [] o.name = "max-timeouts" /\ o.val # Bad /\ o.val # -1 ->
            IF "misc" \in flags THEN [s EXCEPT !.opts[o.name] = clipped(o.val, 1, 255)] ELSE s
      [] o.name = "attempts" /\ o.val # Bad /\ o.val # -1 ->
            IF "misc" \in flags THEN [s EXCEPT !.opts[o.name] = IF o.val > 255 THEN 255 ELSE o.val]
            ELSE s
      [] o.name = "initial-probe-timeout" /\ o.val # Bad /\ o.val > 0 ->
            IF "misc" \in flags THEN [s EXCEPT !.opts[o.name] = IF o.val > 3600 THEN 3600 ELSE o.val]
            ELSE s
      [] o.name \in {"timeout", "getaddrinfo-allow-skew"} /\ o.val # Bad /\ o.val > 0 ->
            IF "misc" \in flags THEN [s EXCEPT !.opts[o.name] = o.val] ELSE s
      [] OTHER -> s

resolv_conf_parse_line(s, line, flags) ==
    LET Set(t, o) == set_option_impl(t, o, flags) IN
    CASE line.key = "nameserver" /\ "nameservers" \in flags /\ line.args # <<>> ->
            nameserver_ip_add(s, Head(line.args))
      [] line.key = "domain" /\ "search" \in flags /\ line.args # <<>> ->
            search_postfix_add(search_postfix_clear(s), Head(line.args))
      [] line.key = "search" /\ "search" \in flags ->
            search_reverse(FoldLeft(search_postfix_add, search_postfix_clear(s), line.args))
      [] line.key = "options" -> FoldLeft(Set, s, line.args)
      [] OTHER -> s

(* The names of a line of a hosts file end at the first "#". *)
Spoken(names) ==
    LET marked == {i \in DOMAIN names : names[i].hash # "no"}
        k == CHOOSE i \in marked : \A j \in marked : i <= j
    IN  IF marked = {} THEN names
        ELSE SubSeq(names, 1, IF names[k].hash = "start" THEN k - 1 ELSE k)

parse_hosts_line(db, line) ==
    IF line.addr = Bad \/ line.port # 0 THEN db
    ELSE db \o [i \in DOMAIN Spoken(line.names) |->
                  [family |-> line.addr, hostname |-> Spoken(line.names)[i].name]]

Localhosts == <<[addr |-> "v4", port |-> 0, names |-> <<[name |-> "localhost", hash |-> "no"]>>],
                [addr |-> "v6", port |-> 0, names |-> <<[name |-> "localhost", hash |-> "no"]>>]>>

(* What evutil_read_file gives for a file that cannot be opened, and for    *)
(* one that cannot be read.                                                 *)
NoFile == <<None>>
Unreadable == <<Bad>>
load_hosts(db, file) ==
    FoldLeft(parse_hosts_line, db, IF file \in {NoFile, Unreadable} THEN Localhosts ELSE file)

resolv_set_defaults(s, flags) ==
    LET t == IF "search" \in flags THEN search_set_from_hostname(s) ELSE s IN
    IF "nameservers" \in flags THEN nameserver_ip_add(t, Local) ELSE t

ReadLines(s, flags, file) ==
    LET Line(t, line) == resolv_conf_parse_line(t, line, flags)
        read == FoldLeft(Line, s, file)
        served == IF read.servers = <<>> /\ "nameservers" \in flags
                  THEN nameserver_ip_add(read, Local) ELSE read
        empty == IF served.search = 0 THEN TRUE ELSE served.states[served.search].domains = <<>>
    IN  IF "search" \in flags /\ empty THEN search_set_from_hostname(served) ELSE served

resolv_conf_parse(s, flags, file, hfile) ==
    LET t == IF "hostsfile" \in flags THEN [s EXCEPT !.hosts = load_hosts(@, hfile)] ELSE s IN
    CASE file = NoFile -> resolv_set_defaults(t, flags)
      [] file = Unreadable -> t
      [] OTHER -> ReadLines(t, flags, file)

fromhosts(db, name, family) ==
    LET found == SelectSeq(db, LAMBDA e : e.hostname = name) IN
    [known |-> found # <<>>, answer |-> SelectSeq(found, LAMBDA e : family \in {e.family, "any"})]

-----------------------------------------------------------------------------
Init == /\ servers = <<>> /\ search = 0 /\ hosts = <<>> /\ calls = 0
        /\ states = [i \in StateIds |-> Freed]
        /\ lookups = [h \in Handles |-> Nobody]
        /\ opts = ("timeout" :> 5 @@ "getaddrinfo-allow-skew" :> 3 @@ "max-timeouts" :> 3
                    @@ "max-inflight" :> 64 @@ "attempts" :> 3 @@ "randomize-case" :> 1
                    @@ "bind-to" :> None @@ "initial-probe-timeout" :> 10)
        /\ heads = [i \in 1 .. 13 |-> <<>>]

Call == calls < MaxCalls /\ calls' = calls + 1

Files == UNION {[1 .. n -> Lines] : n \in 0 .. MaxLines} \cup {NoFile, Unreadable}
HostsFiles == UNION {[1 .. n -> HostsLines] : n \in 0 .. MaxLines} \cup {NoFile, Unreadable}

ParseResolvConf == \E flags \in FlagSets, file \in Files, hfile \in HostsFiles :
    /\ Call /\ (hfile = NoFile \/ "hostsfile" \in flags)
    /\ Becomes(resolv_conf_parse(Now, flags, file, hfile)) /\ UNCHANGED lookups

SetOption == \E o \in Options :
    /\ Call /\ UNCHANGED lookups
    /\ Becomes(set_option_impl(Now, o, {"search", "nameservers", "misc", "hostsfile"}))

NameserverIpAdd == \E a \in GivenServers : /\ Call /\ Becomes(nameserver_ip_add(Now, a))
                                        /\ UNCHANGED lookups
SearchClear == Call /\ Becomes(search_postfix_clear(Now)) /\ UNCHANGED lookups
SearchAdd == \E d \in Domains : /\ Call /\ Becomes(search_postfix_add(Now, d))
                                /\ UNCHANGED lookups
NdotsSet == \E n \in 0 .. 2 : Call /\ Becomes(ndots_set(Now, n)) /\ UNCHANGED lookups

(* A lookup takes a reference to the list, and gives it back when it ends.  *)
Resolve(h, name, no_search) ==
    /\ Call /\ ~ lookups[h].live
    /\ lookups' = [lookups EXCEPT ![h] = search_request_new(Now, name, no_search)]
    /\ states' = IF lookups'[h].state = 0 THEN states ELSE [states EXCEPT ![search].ref = @ + 1]
    /\ UNCHANGED <<servers, opts, search, hosts, heads>>

Released(h) == states' = IF lookups'[h].state = lookups[h].state THEN states
                         ELSE state_decref(states, lookups[h].state)

NoSuchName(h) ==
    /\ lookups[h].live
    /\ lookups' = [lookups EXCEPT ![h] = search_try_next(@)]
    /\ Released(h)
    /\ UNCHANGED <<servers, opts, search, hosts, heads, calls>>

(* An answer, or the end of the lookup by evdns_cancel_request.             *)
Answered(h) ==
    /\ lookups[h].live
    /\ lookups' = [lookups EXCEPT ![h] = Nobody]
    /\ Released(h)
    /\ UNCHANGED <<servers, opts, search, hosts, heads, calls>>

(* evdns_request_insert and, when the answer comes, request_find_from_trans_id. *)
InFlight == UNION {Range(heads[i]) : i \in DOMAIN heads}
Send(id) == /\ Call /\ id \notin InFlight
            /\ Cardinality(InFlight) < opts["max-inflight"]
            /\ heads' = [heads EXCEPT ![REQ_HEAD(heads, id)] = Append(@, id)]
            /\ UNCHANGED <<servers, opts, search, states, lookups, hosts>>
Reply(id) == /\ Contains(heads[REQ_HEAD(heads, id)], id)
             /\ heads' = [heads EXCEPT ![REQ_HEAD(heads, id)] = Remove(@, id)]
             /\ UNCHANGED <<servers, opts, search, states, lookups, hosts, calls>>

LoadHosts == \E file \in HostsFiles :
    /\ Call /\ hosts' = load_hosts(hosts, file)
    /\ UNCHANGED <<servers, opts, search, states, lookups, heads>>

FileNext == ParseResolvConf \/ SetOption \/ NameserverIpAdd \/ LoadHosts \/ NdotsSet
LookupStep == \E h \in Handles : \/ \E name \in DOMAIN Names, no_search \in BOOLEAN :
                                       Resolve(h, name, no_search)
                                 \/ NoSuchName(h) \/ Answered(h)
SearchNext == LookupStep \/ SearchClear \/ SearchAdd
FlightNext == (\E id \in Ids : Send(id) \/ Reply(id)) \/ SetOption

-----------------------------------------------------------------------------
Reading(flags, file) == resolv_conf_parse(Now, flags, file, NoFile)

(* What the flags of evdns_base_resolv_conf_parse leave out, a file does not *)
(* change, whichever of its lines would: the search list, the servers and    *)
(* what is bound with them, the other options.                               *)
FlagsRespected ==
    \A flags \in FlagSets, file \in Files :
        LET s == Reading(flags, file) IN
        /\ "search" \notin flags => s.search = search /\ s.states = states
        /\ "nameservers" \notin flags => s.servers = servers /\ s.opts["bind-to"] = opts["bind-to"]
        /\ "misc" \notin flags => /\ s.heads = heads
                                  /\ \A o \in DOMAIN opts \ {"bind-to"} : s.opts[o] = opts[o]

(* No server is listed twice, with or without its port spelt out, from files *)
(* and from calls.                                                           *)
ServersDistinct == IsInjective(servers) /\ \A i \in DOMAIN servers : servers[i].port # 0

(* A file that is read for name servers, or missing, leaves at least one. *)
SomeServer ==
    \A flags \in FlagSets, file \in Files \ {Unreadable} :
        "nameservers" \in flags => Reading(flags, file).servers # <<>>

(* The comment in evdns_getaddrinfo_fromhosts: a name with entries, none of  *)
(* the family asked for, has an empty answer; only a name without entries is *)
(* left to the name servers.                                                 *)
KnownNameAnswered ==
    \A i \in DOMAIN hosts : \A family \in {"v4", "v6", "any"} :
        fromhosts(hosts, hosts[i].hostname, family).known

(* A search list lives as long as the base or a lookup uses it, and is freed *)
(* with the last one: lookups in progress survive a new configuration.       *)
SearchRefs ==
    \A i \in StateIds :
        states[i].ref = Cardinality({h \in Handles : lookups[h].state = i})
                        + (IF search = i THEN 1 ELSE 0)

(* A lookup that fails has asked for the name alone and in every domain that *)
(* was in the list when it began, although domains are put in front of the   *)
(* list that it counts through.                                              *)
TriesAll == \A h \in Handles : lookups[h].failed => lookups[h].owed \subseteq lookups[h].tried

(* Every request in flight is on the list where its answer looks for it, in  *)
(* the table of any size.                                                    *)
AnswersFind == \A i \in DOMAIN heads : \A k \in DOMAIN heads[i] : REQ_HEAD(heads, heads[i][k]) = i

=============================================================================
