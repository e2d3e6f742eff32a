------------------------------- MODULE MCHttp -------------------------------
(***************************************************************************)
(* The connections of libevent's HTTP client and server, and the hosts and *)
(* callbacks of a server, for TLC: each instance below is a part, and a    *)
(* behaviour is one of a single part.                                      *)
(***************************************************************************)
EXTENDS Integers, Sequences, FiniteSets, TLC

CONSTANT f1    \* a descriptor

VARIABLES part, h, sent,
          status, pattern, vhosts, aliases, cbs, gencb, allowed, sockets, conns, open,
          lost, last

routes == <<status, pattern, vhosts, aliases, cbs, gencb, allowed, sockets, conns, open,
            lost, last>>
allVars == <<part, h, sent, routes>>

(* A client whose requests are kept, cancelled and made in callbacks while *)
(* the server says what nobody asked; one that retries; and a server.      *)
MaxHeaders == 9
IntBits == 3

Client == INSTANCE HttpClient WITH Ids <- {1, 2}, MaxBody <- 3, RetryMax <- 0,
              Allowed <- {"GET"}, Outcomes <- {"pending", "error"},
              Does <- {"cancel", "own", "chunk", "inside"}, OwnIn <- {"done"},
              Faults <- {"stray"}, Answers <- 1 .. 5
Retrying == INSTANCE HttpClient WITH Ids <- {1, 2}, MaxBody <- 3, RetryMax <- 1,
                Allowed <- {"GET"}, Outcomes <- {"pending", "error", "port"},
                Does <- {"cancel", "free", "inside"}, OwnIn <- {"done"},
                Faults <- {"timeout"}, Answers <- {2, 4}
Serving == INSTANCE HttpServer WITH Ids <- 1 .. 3, MaxBody <- 1, RetryMax <- 0,
               Allowed <- {"GET", "POST", "HEAD"}, MaxSent <- 2,
               Requests <- {1, 2, 3, 4, 6, 8, 9, 10, 11, 12, 13}, Codes <- {200},
               Bodies <- {0, 1}, Streams <- TRUE, MaxOut <- 4, MaxWire <- 12

(* Host names of two letters and a dot, patterns with a star in front or   *)
(* inside: servers that host each other, names that are matched, and       *)
(* requests that find their callback.                                      *)
HostNames == {<<"a">>, <<"b", ".", "A">>, <<"a", ".", "b">>}
Starred == {<<"*", ".", "a">>, <<"a">>}
StarsInside == {<<"*", ".", "a">>, <<"a", "*", "b">>, <<"*", "b", "*", "a">>}
NoEscapes == [p \in {} |-> p]
Methods == {"GET"}
MaxList == 2

Hosts_ == INSTANCE HttpRoute WITH Servers <- {1, 2, 3}, Patterns <- Starred,
              Names <- {<<"a">>}, Hosts <- HostNames, Paths <- {},
              Escaped <- NoEscapes, Fds <- {f1}
Matches == INSTANCE HttpRoute WITH Servers <- {1, 2}, Patterns <- StarsInside,
               Names <- {<<"B", ".", "a">>, <<"a">>}, Hosts <- HostNames, Paths <- {},
               Escaped <- NoEscapes, Fds <- {f1}
Calls == INSTANCE HttpRoute WITH Servers <- {1, 2}, Patterns <- {<<"a">>}, Names <- {},
             Hosts <- {<<"a">>, <<"a", ":", "8">>}, Paths <- {"/a b", "/a%20b"},
             Escaped <- [p \in {"/a%20b"} |-> "/a b"], Fds <- {f1}

ASSUME PartAssumptions ==
    Client!HttpAssumption /\ Retrying!HttpAssumption /\ Serving!HttpAssumption

Idle(v) == v = <<>>
NoRoutes == /\ Idle(status) /\ Idle(pattern) /\ Idle(vhosts) /\ Idle(aliases) /\ Idle(cbs)
            /\ Idle(gencb) /\ Idle(allowed) /\ Idle(sockets) /\ Idle(conns) /\ Idle(open)
            /\ Idle(lost) /\ Idle(last)
RoutesOnly == Idle(h) /\ Idle(sent)

Init ==
    \/ part = "client" /\ Client!Init /\ Idle(sent) /\ NoRoutes
    \/ part = "retrying" /\ Retrying!Init /\ Idle(sent) /\ NoRoutes
    \/ part = "serving" /\ Serving!Init /\ NoRoutes
    \/ part = "hosts" /\ Hosts_!Init /\ RoutesOnly
    \/ part = "matches" /\ Matches!Init /\ RoutesOnly
    \/ part = "calls" /\ Calls!Init /\ RoutesOnly

InClient == UNCHANGED <<part, sent, routes>>
InRoutes == UNCHANGED <<part, h, sent>>

Next ==
    \/ part = "client" /\ Client!Next /\ InClient
    \/ part = "retrying" /\ Retrying!Next /\ InClient
    \/ part = "serving" /\ Serving!Next /\ UNCHANGED <<part, routes>>
    \/ part = "hosts" /\ Hosts_!HostingNext /\ InRoutes
    \/ part = "matches" /\ Matches!HostingNext /\ InRoutes
    \/ part = "calls" /\ Calls!Next /\ InRoutes

Spec == Init /\ [][Next]_allVars

-----------------------------------------------------------------------------
(* The properties of the parts, which state them.                          *)

(* Only the first request that waits has been sent (http.c:2420-2440).     *)
FirstOnly == part = "client" => Client!FirstOnly

(* The assertions of http.c that no user can break hold.                   *)
ClientAsserted == part = "client" => Client!Asserted
ServerAsserted == part = "serving" => Serving!Asserted

(* A request's callback runs once, never when it was cancelled (http.c).   *)
ToldOnce == part = "client" => Client!ToldOnce

(* No request is freed before its user is told (http.c).                   *)
NobodyLost == part = "client" => Client!NobodyLost

(* An answer is that to the request whose callback sees it (http.c).       *)
RightAnswer == part = "client" => Client!RightAnswer

(* Without retries a request is sent once (http.c).                        *)
SentOnce == part = "client" => Client!SentOnce

(* While requests wait something goes on with them (http.c:1196-1290).     *)
Attended == part = "retrying" => Retrying!Attended

(* Replies are framed as the client is told (http.c:480-580).              *)
Framing == part = "serving" => Serving!Framing

(* Requests are answered once and in their order (http.c).                 *)
InOrder == part = "serving" => Serving!InOrder

(* A callback sees the request that was sent (http.c).                     *)
RightRequest == part = "serving" => Serving!RightRequest

(* What the user still answers is not freed (http.c:640-690).              *)
HeldKept == part = "serving" => Serving!HeldKept

(* A connection that is gone leaves nothing (http.c:1105-1190).            *)
NoLeak == part = "serving" => Serving!NoLeak

(* Nor a read that was put off (http.c:1105-1190).                         *)
NoneLeft == part = "serving" => Serving!NoneLeft

(* A connection whose user owes nothing reads or writes (http.c).          *)
Listens == part = "serving" => Serving!Listens

(* The virtual hosts make a forest of live servers (http.c:3345-3420).     *)
Forest == part = "hosts" => Hosts_!Forest

(* An open socket belongs to one server, unless its bind failed for want   *)
(* of memory (http.c:3085-3150).                                           *)
SocketsOwned == part = "hosts" => Hosts_!SocketsOwned

(* A request goes to a host that matches its name (http.c:2870-2990).      *)
RouteBest == part = "hosts" => Hosts_!RouteBest

(* Patterns match as a shell's do, but for a last star (http.c:2830).      *)
ShellMatching == part = "matches" => Matches!ShellMatching

(* A request is dispatched to the callback of its host and path, or gets   *)
(* 501 or 404 (http.c:2992-3062).                                          *)
RequestsDispatched == part = "calls" => Calls!RequestsDispatched

(* A callback that was deleted is not called (http.c:3440-3500).           *)
DeletedNotCalled == part = "calls" => Calls!DeletedNotCalled

-----------------------------------------------------------------------------
(* What the runs check: the properties above by what they are about. *)

(* A client of http.c: each request is sent once and in its turn, its user *)
(* is told once and of its own answer, and while requests wait something   *)
(* goes on with them.                                                      *)
ClientSound ==
    /\ FirstOnly /\ ClientAsserted /\ ToldOnce /\ NobodyLost /\ RightAnswer
    /\ SentOnce /\ Attended

(* A server's connection of http.c: each request is answered once, in      *)
(* order and framed as the client is told, what the user holds is kept,    *)
(* and a connection that is gone leaves nothing.                           *)
ServerSound ==
    /\ ServerAsserted /\ Framing /\ InOrder /\ RightRequest /\ HeldKept
    /\ NoLeak /\ NoneLeft /\ Listens

(* A request reaches the best host for its name and there the callback of  *)
(* its path, or is refused when there is none; hosts make a forest of live *)
(* servers, and a socket that a server listens on is its own.              *)
RoutesSound ==
    /\ Forest /\ SocketsOwned /\ RouteBest /\ ShellMatching
    /\ RequestsDispatched /\ DeletedNotCalled

=============================================================================
