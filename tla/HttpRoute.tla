----------------------------- MODULE HttpRoute -----------------------------
(***************************************************************************)
(* The servers of libevent's http.c: their listening sockets, virtual      *)
(* hosts, aliases and callbacks, and how a request finds its callback.     *)
(* A virtual host is a server of its own that hangs on the list of         *)
(* another one.  Host names and patterns are sequences of characters.      *)
(***************************************************************************)
EXTENDS Integers, Sequences, FiniteSets, SequencesExt

CONSTANTS Servers,    \* evhttp objects
          Patterns,   \* patterns that the user gives to virtual hosts
          Names,      \* aliases
          Hosts,      \* host names in requests, some with a port
          Paths,      \* paths of callbacks and requests
          Escaped,    \* those with escapes, and what they decode to
          Methods,    \* methods of requests that the parser knows
          Fds,        \* descriptors of sockets
          MaxList     \* bound on the lists of aliases and callbacks

VARIABLES status,   \* "none", "live" or "freed"
          pattern,  \* vhost_pattern, or None
          vhosts,   \* virtualhosts, in order
          aliases, cbs, gencb, allowed,
          sockets,  \* descriptors that listen for the server
          conns,    \* how many connections it serves
          open,     \* descriptors that are open
          lost,     \* those of them that a failed bind left behind
          last      \* what became of the last request

vars == <<status, pattern, vhosts, aliases, cbs, gencb, allowed, sockets, conns, open,
          lost, last>>
hosts == <<pattern, vhosts, aliases>>
dispatch == <<cbs, gencb, allowed>>
sock == <<sockets, conns, open, lost>>

None == <<"none">>
NoRequest == [what |-> "none"]

Live(h) == status[h] = "live"

Lower(ch) == IF ch = "A" THEN "a" ELSE IF ch = "B" THEN "b" ELSE ch
SameText(s, t) ==                  \* evutil_ascii_strcasecmp
    Len(s) = Len(t) /\ \A i \in DOMAIN s : Lower(s[i]) = Lower(t[i])

(* A star stands for any text, but the loop ends at the end of the name    *)
(* before it has tried the empty rest.                                     *)
(* Mutant of prefix_suffix_match: a star stands for one character.         *)
RECURSIVE Mutant_prefix_suffix_match(_, _)
Mutant_prefix_suffix_match(p, name) ==
    IF p = <<>> THEN name = <<>>
    ELSE /\ name # <<>>
         /\ p[1] = "*" \/ Lower(p[1]) = Lower(name[1])
         /\ Mutant_prefix_suffix_match(Tail(p), Tail(name))
RECURSIVE prefix_suffix_match(_, _)
prefix_suffix_match(p, name) ==
    IF p = <<>> THEN name = <<>>
    ELSE IF p[1] = "*"
    THEN \E i \in DOMAIN name :
             prefix_suffix_match(Tail(p), SubSeq(name, i, Len(name)))
    ELSE /\ name # <<>> /\ Lower(p[1]) = Lower(name[1])
         /\ prefix_suffix_match(Tail(p), Tail(name))

(* The first server in the tree of h with the alias, as a sequence.        *)
HasAlias(h, name) == \E i \in DOMAIN aliases[h] : SameText(aliases[h][i], name)
RECURSIVE evhttp_find_alias(_, _)
evhttp_find_alias(h, name) ==
    LET Found(v) == evhttp_find_alias(v, name) # <<>>
        i == SelectInSeq(vhosts[h], Found)
    IN  IF HasAlias(h, name) THEN <<h>>
        ELSE IF i = 0 THEN <<>> ELSE evhttp_find_alias(vhosts[h][i], name)

RECURSIVE FollowPatterns(_, _)
FollowPatterns(h, name) ==
    LET Matches(v) == prefix_suffix_match(pattern[v], name)
        i == SelectInSeq(vhosts[h], Matches)
    IN  IF i = 0 THEN h ELSE FollowPatterns(vhosts[h][i], name)

(* Mutant of evhttp_find_vhost: patterns are tried before aliases.         *)
Mutant_evhttp_find_vhost(h, name) ==
    IF FollowPatterns(h, name) # h THEN FollowPatterns(h, name)
    ELSE IF evhttp_find_alias(h, name) = <<>> THEN h ELSE evhttp_find_alias(h, name)[1]
evhttp_find_vhost(h, name) ==
    IF evhttp_find_alias(h, name) # <<>> THEN evhttp_find_alias(h, name)[1]
    ELSE FollowPatterns(h, name)

(* The host of a request: that of its URI if it names one, or the Host     *)
(* header without a port; None if there is neither.                        *)
evhttp_request_get_host(uriHost, header) ==
    LET n == SelectLastInSeq(header, LAMBDA ch : ch # "8")
    IN  IF uriHost # None THEN uriHost
        ELSE IF header # None /\ n > 1 /\ header[n] = ":" THEN SubSeq(header, 1, n - 1)
        ELSE header

Decoded(path) == IF path \in DOMAIN Escaped THEN Escaped[path] ELSE path
evhttp_dispatch_callback(h, path) ==
    LET i == SelectInSeq(cbs[h], LAMBDA what : what = Decoded(path))
    IN  IF i = 0 THEN "none" ELSE cbs[h][i]

----------------------------------------------------------------------------
Init ==
    /\ status = [h \in Servers |-> "none"]
    /\ pattern = [h \in Servers |-> None]
    /\ vhosts = [h \in Servers |-> <<>>]
    /\ aliases = [h \in Servers |-> <<>>]
    /\ cbs = [h \in Servers |-> <<>>]
    /\ gencb = [h \in Servers |-> FALSE]
    /\ allowed = [h \in Servers |-> {"GET"}]
    /\ sockets = [h \in Servers |-> <<>>]
    /\ conns = [h \in Servers |-> 0]
    /\ open = {} /\ lost = {}
    /\ last = NoRequest

Forget == last' = NoRequest

(* evhttp_new and evhttp_start: the latter also listens, or leaves nothing. *)
New(h) ==
    /\ status[h] = "none"
    /\ status' = [status EXCEPT ![h] = "live"]
    /\ Forget /\ UNCHANGED <<hosts, dispatch, sock>>

Insert(h, fd) == sockets' = [sockets EXCEPT ![h] = Append(@, fd)]

(* A server of its own is made to listen (event2/http.h: a virtual host    *)
(* has no sockets of its own).  When it cannot be bound the socket is      *)
(* closed, and so is one whose listener finds no place; but it stays open  *)
(* when there is no memory for the listener.                               *)
Bound(h, fd) == Insert(h, fd) /\ open' = open \cup {fd} /\ UNCHANGED lost
Unbound == UNCHANGED <<sockets, open, lost>>
Unlistened(fd) == open' = open \cup {fd} /\ lost' = lost \cup {fd} /\ UNCHANGED sockets

evhttp_bind_socket(h, fd) ==
    /\ Live(h) /\ pattern[h] = None /\ fd \notin open
    /\ Bound(h, fd) \/ Unbound \/ Unlistened(fd)
    /\ Forget /\ UNCHANGED <<status, hosts, dispatch, conns>>

evhttp_start(h, fd) ==
    /\ status[h] = "none" /\ fd \notin open
    /\ \/ status' = [status EXCEPT ![h] = "live"] /\ Bound(h, fd)
       \/ UNCHANGED status /\ (Unbound \/ Unlistened(fd))
    /\ Forget /\ UNCHANGED <<hosts, dispatch, conns>>

(* A socket of the user, who keeps it if there is no memory for the        *)
(* listener; it is closed if there is none for its place on the list.      *)
evhttp_accept_socket(h, fd) ==
    /\ Live(h) /\ pattern[h] = None /\ fd \notin open
    /\ Bound(h, fd) \/ Unbound
    /\ Forget /\ UNCHANGED <<status, hosts, dispatch, conns>>

evhttp_del_accept_socket(h, fd) ==
    /\ Live(h) /\ fd \in Range(sockets[h])
    /\ sockets' = [sockets EXCEPT ![h] = Remove(@, fd)]
    /\ open' = open \ {fd}
    /\ Forget /\ UNCHANGED <<status, hosts, dispatch, conns, lost>>

RECURSIVE Tree(_)
Tree(h) == {h} \cup UNION {Tree(vhosts[h][i]) : i \in DOMAIN vhosts[h]}

(* The user hangs up a server that h is not itself a virtual host of.      *)
evhttp_add_virtual_host(h, p, v) ==
    /\ Live(h) /\ Live(v) /\ h \notin Tree(v)
    /\ IF pattern[v] # None \/ sockets[v] # <<>> THEN UNCHANGED <<pattern, vhosts>>
       ELSE /\ pattern' = [pattern EXCEPT ![v] = p]
            /\ vhosts' = [vhosts EXCEPT ![h] = Append(@, v)]
    /\ Forget /\ UNCHANGED <<status, aliases, dispatch, sock>>

evhttp_remove_virtual_host(h, v) ==
    /\ Live(h) /\ Live(v) /\ v \in Range(vhosts[h])
    /\ IF pattern[v] = None THEN UNCHANGED <<pattern, vhosts>>
       ELSE /\ vhosts' = [vhosts EXCEPT ![h] = Remove(@, v)]
            /\ pattern' = [pattern EXCEPT ![v] = None]
    /\ Forget /\ UNCHANGED <<status, aliases, dispatch, sock>>

evhttp_add_server_alias(h, name) ==
    /\ Live(h) /\ Len(aliases[h]) < MaxList
    /\ aliases' = [aliases EXCEPT ![h] = Append(@, name)]
    /\ Forget /\ UNCHANGED <<status, pattern, vhosts, dispatch, sock>>

evhttp_remove_server_alias(h, name) ==
    /\ Live(h)
    /\ LET i == SelectInSeq(aliases[h], LAMBDA a : SameText(a, name))
       IN  aliases' = IF i = 0 THEN aliases ELSE [aliases EXCEPT ![h] = RemoveAt(@, i)]
    /\ Forget /\ UNCHANGED <<status, pattern, vhosts, dispatch, sock>>

evhttp_set_cb(h, path) ==
    /\ Live(h) /\ Len(cbs[h]) < MaxList
    /\ cbs' = IF path \in Range(cbs[h]) THEN cbs ELSE [cbs EXCEPT ![h] = Append(@, path)]
    /\ Forget /\ UNCHANGED <<status, hosts, gencb, allowed, sock>>

evhttp_del_cb(h, path) ==
    /\ Live(h)
    /\ cbs' = [cbs EXCEPT ![h] = Remove(@, path)]    \* the first one, if any
    /\ Forget /\ UNCHANGED <<status, hosts, gencb, allowed, sock>>

evhttp_set_gencb(h) ==
    /\ Live(h)
    /\ \E b \in BOOLEAN : gencb' = [gencb EXCEPT ![h] = b]
    /\ Forget /\ UNCHANGED <<status, hosts, cbs, allowed, sock>>

evhttp_set_allowed_methods(h) ==
    /\ Live(h)
    /\ \E m \in SUBSET Methods : allowed' = [allowed EXCEPT ![h] = m]
    /\ Forget /\ UNCHANGED <<status, hosts, cbs, gencb, sock>>

(* The user frees a server that is no virtual host: its sockets, its       *)
(* connections, and its virtual hosts with it.                             *)
(* Mutant of evhttp_free: the virtual hosts are left.                      *)
Emptied(f, h, e) == [x \in Servers |-> IF x \in Tree(h) THEN e ELSE f[x]]
evhttp_free(h) ==
    /\ Live(h) /\ pattern[h] = None
    /\ status' = Emptied(status, h, "freed")
    /\ vhosts' = Emptied(vhosts, h, <<>>) /\ pattern' = Emptied(pattern, h, None)
    /\ aliases' = Emptied(aliases, h, <<>>) /\ cbs' = Emptied(cbs, h, <<>>)
    /\ sockets' = Emptied(sockets, h, <<>>)
    /\ open' = open \ UNION {Range(sockets[v]) : v \in Tree(h)}
    /\ conns' = Emptied(conns, h, 0)
    /\ Forget /\ UNCHANGED <<gencb, allowed, lost>>

(* A connection comes in on a listening socket, and goes.                  *)
accept_socket_cb(h) ==
    /\ Live(h) /\ sockets[h] # <<>> /\ conns[h] < 1
    /\ conns' = [conns EXCEPT ![h] = @ + 1]
    /\ Forget /\ UNCHANGED <<status, hosts, dispatch, sockets, open, lost>>

ConnectionEnds(h) ==
    /\ conns[h] > 0
    /\ conns' = [conns EXCEPT ![h] = @ - 1]
    /\ Forget /\ UNCHANGED <<status, hosts, dispatch, sockets, open, lost>>

(* What becomes of a request on a connection of h.                         *)
Outcome(v, path) ==
    IF evhttp_dispatch_callback(v, path) # "none"
    THEN [what |-> "cb", server |-> v, cb |-> evhttp_dispatch_callback(v, path)]
    ELSE [what |-> IF gencb[v] THEN "gencb" ELSE "404", server |-> v]
Routed(h, name, path) ==
    Outcome(IF name = None THEN h ELSE evhttp_find_vhost(h, name), path)
evhttp_handle_request(h, uriHost, header, path, method) ==
    /\ conns[h] > 0
    /\ LET name == evhttp_request_get_host(uriHost, header)
       IN  last' = [root |-> h, host |-> name, path |-> path, method |-> method]
                      @@ (IF method \notin allowed[h] THEN [what |-> "501", server |-> h]
                          ELSE Routed(h, name, path))
    /\ UNCHANGED <<status, hosts, dispatch, sock>>

(* The host of a URI has no port (http.c:3604): its parser takes it off.   *)
BareHosts == {n \in Hosts : \A i \in DOMAIN n : n[i] # ":"}
Request(h) ==
    \E uriHost \in BareHosts \cup {None}, header \in Hosts \cup {None},
       path \in Paths, method \in Methods :
        evhttp_handle_request(h, uriHost, header, path, method)

Hosting(h) ==
    \/ New(h) \/ evhttp_free(h)
    \/ \E fd \in Fds : \/ evhttp_bind_socket(h, fd) \/ evhttp_start(h, fd)
                       \/ evhttp_accept_socket(h, fd) \/ evhttp_del_accept_socket(h, fd)
    \/ \E v \in Servers : \/ \E p \in Patterns : evhttp_add_virtual_host(h, p, v)
                          \/ evhttp_remove_virtual_host(h, v)
    \/ \E n \in Names : evhttp_add_server_alias(h, n) \/ evhttp_remove_server_alias(h, n)
    \/ accept_socket_cb(h) \/ ConnectionEnds(h)

Dispatching(h) ==
    \/ \E p \in Paths : evhttp_set_cb(h, p) \/ evhttp_del_cb(h, p)
    \/ evhttp_set_gencb(h) \/ evhttp_set_allowed_methods(h) \/ Request(h)

Next == \E h \in Servers : Hosting(h) \/ Dispatching(h)

Spec == Init /\ [][Next]_vars
HostingNext == \E h \in Servers : Hosting(h)

----------------------------------------------------------------------------
(* Shell matching, what a star stands for is any text, the empty one too.  *)
RECURSIVE Glob(_, _)
Glob(p, name) ==
    IF p = <<>> THEN name = <<>>
    ELSE IF p[1] = "*"
    THEN \E i \in 1 .. Len(name) + 1 : Glob(Tail(p), SubSeq(name, i, Len(name)))
    ELSE name # <<>> /\ Lower(p[1]) = Lower(name[1]) /\ Glob(Tail(p), Tail(name))

Roots == {h \in Servers : Live(h) /\ pattern[h] = None}

(* Virtual hosts form a forest: a server has a pattern when it is once on  *)
(* one list, of a live server, and a freed server is on none.              *)
Forest ==
    \A v \in Servers :
        LET places == {<<h, i>> \in Servers \X (1 .. Cardinality(Servers)) :
                          i \in DOMAIN vhosts[h] /\ vhosts[h][i] = v}
        IN  /\ Cardinality(places) = IF Live(v) /\ pattern[v] # None THEN 1 ELSE 0
            /\ \A q \in places : Live(q[1])

(* The server r is the one for the host n in the tree of h: one with the   *)
(* alias, if there is one; else the end of a way down the patterns that    *)
(* match, ignoring case, where no virtual host matches (evhttp_find_vhost). *)
Best(h, n, r) ==
    LET Up == {x \in Tree(h) : r \in Tree(x)} \ {h}
    IN  /\ r \in Tree(h) /\ Live(r)
        /\ IF \E x \in Tree(h) : HasAlias(x, n) THEN HasAlias(r, n)
           ELSE /\ \A x \in Up : Glob(pattern[x], n)
                /\ \A i \in DOMAIN vhosts[r] : ~Glob(pattern[vhosts[r][i]], n)

RouteBest == \A h \in Roots, n \in BareHosts : Best(h, n, evhttp_find_vhost(h, n))

(* A request that the server it came to does not allow is answered 501;    *)
(* any other is for the best server for its host, without a port: it goes  *)
(* to the callback of its decoded path, else to the general one, and is    *)
(* answered 404 only when that server has neither (http.c:2992-3062).      *)
RequestsDispatched ==
    last # NoRequest =>
        LET r == last.server
            known == Decoded(last.path) \in Range(cbs[r])
        IN  IF last.method \notin allowed[last.root] THEN last.what = "501"
            ELSE /\ IF last.host = None THEN r = last.root
                    ELSE last.host \in BareHosts /\ Best(last.root, last.host, r)
                 /\ last.what = IF known THEN "cb" ELSE IF gencb[r] THEN "gencb" ELSE "404"
                 /\ known => last.cb = Decoded(last.path)

(* Patterns follow shell matching (event2/http.h, evhttp_add_virtual_host). *)
ShellMatching ==
    \A v \in Servers, n \in BareHosts :
        pattern[v] # None => (prefix_suffix_match(pattern[v], n) <=> Glob(pattern[v], n))

(* A descriptor is open while it is on the list of one live server, and    *)
(* closed by deletion, by free and by a bind that fails; the one exception *)
(* is the socket of a bind that fails for want of memory for its listener, *)
(* which nobody closes (http.c:3099-3119).                                 *)
SocketsOwned ==
    /\ \A fd \in Fds :
           IF fd \in lost THEN fd \in open /\ \A h \in Servers : fd \notin Range(sockets[h])
           ELSE fd \in open <=> \E h \in Servers : Live(h) /\ fd \in Range(sockets[h])
    /\ \A h, g \in Servers : h # g => Range(sockets[h]) \cap Range(sockets[g]) = {}

(* A path has one callback, so that a deleted one is never called again.   *)
DeletedNotCalled == \A h \in Servers : IsInjective(cbs[h])

=============================================================================
