----------------------------- MODULE Connection -----------------------------
(***************************************************************************)
(* The life of client connections in src/server_threaded.c: accepted by    *)
(* the main thread, queued as a job, served by a worker thread that runs a *)
(* libevent loop of its own for the connection, and closed.  The worker    *)
(* threads share the process's descriptor table: close() frees a number    *)
(* that accept(), epoll_create() or mysql_real_connect() of another thread *)
(* takes again, the lowest free one first.  The work queue is used through *)
(* its abstract specification JobStack, which WorkQueue implements.  A job *)
(* and its client_t are named by the client.                               *)
(*                                                                         *)
(* Time is abstract: a timer of a pending event may have elapsed whenever  *)
(* its loop looks, since a job may wait in the queue and a callback in     *)
(* MySQL for any time.                                                     *)
(***************************************************************************)
EXTENDS Naturals, Sequences, FiniteSets

CONSTANTS Client,       \* the peers, each connecting once
          Slots,        \* NUM_THREADS
          MaxFd,        \* the size of the descriptor table
          MaxChunks,    \* bound on what waits to be read of a connection
          FREE          \* an unused entry of the descriptor table

ASSUME SizeAssumption ==
    /\ Slots \in Nat \ {0}
    /\ MaxFd \in Nat
    /\ MaxChunks \in Nat

(* The files the server opens for a client: its socket, the epoll          *)
(* descriptor and the signal pair of its event base, and the connection to *)
(* the database.                                                           *)
Kind == {"socket", "epoll", "pair0", "pair1", "mysql"}

ASSUME FreeAssumption == FREE \notin Kind \X Client

VARIABLES
    stack, running, finished, dropped,   \* the work queue: see JobStack
    up,          \* the process has not exited
    listening,   \* the accept loop has not been told to exit
    files,       \* the descriptor table of the process
    peer,        \* whether the client's side is "open" or "shut"
    inbox,       \* what has arrived on the connection and was not read
    pc,          \* where the connection is, from connect() to free(job)
    fd,          \* the numbers it keeps: client->fd, the epoll descriptor and
                 \* the ev_signal_pair of client->evbase, its CDBManager's
    ev_fd,       \* the descriptor stored in ev_read and ev_write
    request,     \* what buffered_on_read is working on
    ev_read,     \* ev_read is pending in client->evbase
    ev_write,    \* ev_write is pending in client->evbase
    active       \* the active events of the current iteration, in order

queueVars == <<stack, running, finished, dropped>>
procVars  == <<up, listening>>
peerVars  == <<peer, inbox>>
fdVars    == <<fd, ev_fd>>
evVars    == <<ev_read, ev_write, active>>
vars == <<queueVars, procVars, files, peerVars, pc, fdVars, request, evVars>>

Queue == INSTANCE JobStack WITH Job <- Client

(* -1: no descriptor.                                                      *)
NoFd == 0
Fd == 1 .. MaxFd

SocketOf(c) == <<"socket", c>>

(* A request with a FunctionName; text that is no such request, a part of  *)
(* one included; JSON of a type that operator[] or asString() refuses.     *)
Chunk == {"call", "junk", "throw"}

Init ==
    /\ Queue!JSInit
    /\ up = TRUE
    /\ listening = TRUE
    /\ files = [n \in Fd |-> FREE]
    /\ peer = [c \in Client |-> "open"]
    /\ inbox = [c \in Client |-> <<>>]
    /\ pc = [c \in Client |-> "none"]
    /\ fd = [c \in Client |-> [k \in Kind |-> NoFd]]
    /\ ev_fd = [c \in Client |-> NoFd]
    /\ request = [c \in Client |-> "none"]
    /\ ev_read = [c \in Client |-> FALSE]
    /\ ev_write = [c \in Client |-> FALSE]
    /\ active = [c \in Client |-> <<>>]

-----------------------------------------------------------------------------
(* The clients, which client_test.cpp is one of, until the process exits.  *)

client_connect(c) ==
    /\ pc[c] = "none"
    /\ pc' = [pc EXCEPT ![c] = "backlog"]
    /\ UNCHANGED <<queueVars, procVars, files, peerVars, fdVars, request,
                   evVars>>

(* The connection waits for accept() or has its socket.                    *)
Reachable(c) == pc[c] = "backlog" \/ fd[c]["socket"] # NoFd

client_send(c, k) ==
    /\ Reachable(c)
    /\ peer[c] = "open"
    /\ Len(inbox[c]) < MaxChunks
    /\ inbox' = [inbox EXCEPT ![c] = Append(@, k)]
    /\ UNCHANGED <<queueVars, procVars, files, peer, pc, fdVars, request,
                   evVars>>

(* shutdown or close: the client sends nothing more and may or may not     *)
(* read what it is sent.                                                   *)
client_shut(c) ==
    /\ Reachable(c)
    /\ peer[c] = "open"
    /\ peer' = [peer EXCEPT ![c] = "shut"]
    /\ UNCHANGED <<queueVars, procVars, files, inbox, pc, fdVars, request,
                   evVars>>

client_step(c) ==
    /\ up
    /\ \/ client_connect(c)
       \/ \E k \in Chunk : client_send(c, k)
       \/ client_shut(c)

-----------------------------------------------------------------------------
(* The descriptor table.                                                   *)

FreeFds == {n \in Fd : files[n] = FREE}
Lowest(S) == CHOOSE n \in S : \A m \in S : n <= m

(* open, accept or socket: the lowest free number.                         *)
Opening(c, k) ==
    /\ FreeFds # {}
    /\ files' = [files EXCEPT ![Lowest(FreeFds)] = <<k, c>>]
    /\ fd' = [fd EXCEPT ![c][k] = Lowest(FreeFds)]

(* The files and the numbers once those of the given kinds are closed; a   *)
(* number that is -1 is not.                                               *)
FilesWithout(c, kinds) ==
    [n \in Fd |-> IF \E k \in kinds : fd[c][k] = n THEN FREE ELSE files[n]]
NumbersWithout(c, kinds) ==
    [fd EXCEPT ![c] = [k \in Kind |-> IF k \in kinds THEN NoFd ELSE @[k]]]

(* The kernel ends the connection of a closed socket and discards what was *)
(* not read.                                                               *)
hangup(c) ==
    /\ peer' = [peer EXCEPT ![c] = "shut"]
    /\ inbox' = [inbox EXCEPT ![c] = <<>>]

(* Mutant of closeClient: client->fd = -1 is missing.                      *)
Mutant_close_keeps_fd(c) ==
    /\ files' = FilesWithout(c, {"socket"})
    /\ fd' = fd
    /\ hangup(c)

closeClient(c) ==
    /\ files' = FilesWithout(c, {"socket"})
    /\ fd' = NumbersWithout(c, {"socket"})
    /\ hangup(c)

(* event_base_free closes the epoll descriptor and the signal pair.        *)
BaseKind == {"epoll", "pair0", "pair1"}
ClientKind == {"socket"} \cup BaseKind

(* Mutant of closeAndFreeClient: evsig_dealloc, which closes the signal    *)
(* pair, is missing from event_base_free.                                  *)
Mutant_free_leaks_pair(c) ==
    /\ files' = FilesWithout(c, {"socket", "epoll"})
    /\ fd' = NumbersWithout(c, {"socket", "epoll"})
    /\ hangup(c)
    /\ ev_read' = [ev_read EXCEPT ![c] = FALSE]
    /\ ev_write' = [ev_write EXCEPT ![c] = FALSE]
    /\ ev_fd' = [ev_fd EXCEPT ![c] = NoFd]
    /\ UNCHANGED active

(* closeClient, bufferevent_free and event_base_free, of what there is of  *)
(* the client.                                                             *)
closeAndFreeClient(c) ==
    /\ files' = FilesWithout(c, ClientKind)
    /\ fd' = NumbersWithout(c, ClientKind)
    /\ hangup(c)
    /\ ev_read' = [ev_read EXCEPT ![c] = FALSE]
    /\ ev_write' = [ev_write EXCEPT ![c] = FALSE]
    /\ ev_fd' = [ev_fd EXCEPT ![c] = NoFd]
    /\ UNCHANGED active

-----------------------------------------------------------------------------
(* on_accept, run by the main thread for one connection at a time.  With   *)
(* no free descriptor accept() fails and the connection stays in the       *)
(* backlog.                                                                *)

Accepting == {"accepted", "epolled", "based"}

accept_socket(c) ==
    /\ up
    /\ listening
    /\ pc[c] = "backlog"
    /\ \A d \in Client : pc[d] \notin Accepting
    /\ Opening(c, "socket")
    /\ pc' = [pc EXCEPT ![c] = "accepted"]
    /\ UNCHANGED <<queueVars, procVars, peerVars, ev_fd, request, evVars>>

(* event_base_new: epoll_init opens the epoll descriptor ...               *)
accept_epoll(c) ==
    /\ up
    /\ pc[c] = "accepted"
    /\ Opening(c, "epoll")
    /\ pc' = [pc EXCEPT ![c] = "epolled"]
    /\ UNCHANGED <<queueVars, procVars, peerVars, ev_fd, request, evVars>>

(* ... and evsig_init the signal pair.                                     *)
accept_pair(c) ==
    /\ up
    /\ pc[c] = "epolled"
    /\ FreeFds # {}
    /\ LET first == Lowest(FreeFds)
           rest == FreeFds \ {first}
       IN  /\ rest # {}
           /\ files' = [files EXCEPT ![first] = <<"pair0", c>>,
                                     ![Lowest(rest)] = <<"pair1", c>>]
           /\ fd' = [fd EXCEPT ![c] = [@ EXCEPT !["pair0"] = first,
                                                !["pair1"] = Lowest(rest)]]
    /\ pc' = [pc EXCEPT ![c] = "based"]
    /\ UNCHANGED <<queueVars, procVars, peerVars, ev_fd, request, evVars>>

(* socketpair fails: event_sock_err ends the process.  Without a number    *)
(* for epoll, event_base_new turns to poll and select, whose init needs a  *)
(* signal pair too.                                                        *)
accept_exit(c) ==
    /\ up
    /\ pc[c] \in {"accepted", "epolled"}
    /\ \/ FreeFds = {}
       \/ pc[c] = "epolled" /\ \E n \in Fd : FreeFds = {n}
    /\ up' = FALSE
    /\ UNCHANGED <<queueVars, listening, files, peerVars, pc, fdVars, request,
                   evVars>>

(* setnonblock or an allocation fails, before, in or after event_base_new: *)
(* all that exists of the client is closed and freed.                      *)
accept_fail(c) ==
    /\ up
    /\ pc[c] \in Accepting
    /\ closeAndFreeClient(c)
    /\ pc' = [pc EXCEPT ![c] = "closed"]
    /\ UNCHANGED <<queueVars, procVars, request>>

(* bufferevent_new stores the descriptor in both events, ev_read starts    *)
(* with its timer running, and the job is added.                           *)
accept_submit(c) ==
    /\ up
    /\ pc[c] = "based"
    /\ ev_fd' = [ev_fd EXCEPT ![c] = fd[c]["socket"]]
    /\ ev_read' = [ev_read EXCEPT ![c] = TRUE]
    /\ pc' = [pc EXCEPT ![c] = "queued"]
    /\ Queue!Submit(c)
    /\ UNCHANGED <<procVars, files, peerVars, fd, request, ev_write, active>>

accept_step(c) ==
    \/ accept_socket(c) \/ accept_epoll(c) \/ accept_pair(c)
    \/ accept_exit(c) \/ accept_fail(c) \/ accept_submit(c)

-----------------------------------------------------------------------------
(* server_job_function: event_base_dispatch(client->evbase).               *)

(* A worker takes the newest job.                                          *)
job_start ==
    /\ up
    /\ Queue!Start
    /\ pc' = [pc EXCEPT ![Head(stack)] = "poll"]
    /\ UNCHANGED <<procVars, files, peerVars, fdVars, request, evVars>>

Pending(c) ==
    {e \in {"read", "write"} :
        \/ e = "read" /\ ev_read[c]
        \/ e = "write" /\ ev_write[c]}

(* Closing the socket removes it from the epoll set.                       *)
Connected(c) == fd[c]["socket"] # NoFd
Readable(c) == Connected(c) /\ (inbox[c] # <<>> \/ peer[c] # "open")

(* What epoll_wait reports; the socket may be full.                        *)
Ready(c, writable) ==
    {e \in Pending(c) :
        \/ e = "read" /\ Readable(c)
        \/ e = "write" /\ Connected(c) /\ writable}

InOrder(S, kind) ==
    (IF "read" \in S THEN <<<<"read", kind>>>> ELSE <<>>)
    \o (IF "write" \in S THEN <<<<"write", kind>>>> ELSE <<>>)
Reversed(S, kind) ==
    (IF "write" \in S THEN <<<<"write", kind>>>> ELSE <<>>)
    \o (IF "read" \in S THEN <<<<"read", kind>>>> ELSE <<>>)

(* Mutant of expirable: no timeout was set on the bufferevent.             *)
Mutant_no_timeout(c) == {}

(* The events whose timers may have elapsed: bufferevent_settimeout gives  *)
(* one to each.                                                            *)
expirable(c) == Pending(c)

(* Mutant of StillReady: the event is left where epoll_dispatch put it and *)
(* becomes active a second time.                                           *)
Mutant_active_twice(c, writable, expired) == Ready(c, writable)

(* timeout_process deletes an event that has expired: what epoll_dispatch  *)
(* said of it is gone.                                                     *)
StillReady(c, writable, expired) == Ready(c, writable) \ expired

(* An iteration of event_base_loop up to event_process_active:             *)
(* epoll_dispatch activates the ready events, ev_read before ev_write, and *)
(* timeout_process takes an expired event out of the active queue and      *)
(* appends it with EV_TIMEOUT alone.                                       *)
loop_dispatch(c) ==
    /\ up
    /\ pc[c] = "poll"
    /\ \E expired \in SUBSET expirable(c), writable \in BOOLEAN :
          LET io == InOrder(StillReady(c, writable, expired), "io")
          IN  /\ \/ active' = [active EXCEPT
                                 ![c] = io \o InOrder(expired, "timeout")]
                 \/ active' = [active EXCEPT
                                 ![c] = io \o Reversed(expired, "timeout")]
              /\ active'[c] # <<>>
    /\ pc' = [pc EXCEPT ![c] = "process"]
    /\ UNCHANGED <<queueVars, procVars, files, peerVars, fdVars, request,
                   ev_read, ev_write>>

(* The active queue is empty: the next iteration.                          *)
loop_again(c) ==
    /\ up
    /\ pc[c] = "process"
    /\ active[c] = <<>>
    /\ pc' = [pc EXCEPT ![c] = "poll"]
    /\ UNCHANGED <<queueVars, procVars, files, peerVars, fdVars, request,
                   evVars>>

(* No event is left: event_base_dispatch returns, the client is freed, and *)
(* server_job_function returns.                                            *)
loop_end(c) ==
    /\ up
    /\ pc[c] = "poll"
    /\ Pending(c) = {}
    /\ closeAndFreeClient(c)
    /\ Queue!Finish(c)
    /\ pc' = [pc EXCEPT ![c] = "closed"]
    /\ UNCHANGED <<procVars, request>>

-----------------------------------------------------------------------------
(* bufferevent_readcb, buffered_on_read and buffered_on_error              *)

Processing(c, e, kind) ==
    /\ up
    /\ pc[c] = "process"
    /\ active[c] # <<>>
    /\ Head(active[c]) = <<e, kind>>
    /\ active' = [active EXCEPT ![c] = Tail(@)]

(* buffered_on_read gets what one read of the socket returned and parses   *)
(* it as one request: of several, the first one counts.                    *)
read_data(c) ==
    /\ Processing(c, "read", "io")
    /\ inbox[c] # <<>>
    /\ \E n \in 1 .. Len(inbox[c]) :
          inbox' = [inbox EXCEPT ![c] = SubSeq(@, n + 1, Len(@))]
    /\ request' = [request EXCEPT ![c] = Head(inbox[c])]
    /\ pc' = [pc EXCEPT ![c] =
                 IF Head(inbox[c]) = "junk" THEN "reply" ELSE "connect"]
    /\ UNCHANGED <<queueVars, procVars, files, peer, fdVars, ev_read,
                   ev_write>>

(* CDBManager MyDB; MyDB.initDB(...).                                      *)
db_connect(c) ==
    /\ up
    /\ pc[c] = "connect"
    /\ Opening(c, "mysql")
    /\ pc' = [pc EXCEPT ![c] = "query"]
    /\ UNCHANGED <<queueVars, procVars, peerVars, ev_fd, request, evVars>>

(* MySQL cannot be reached, or no descriptor is free: exit(1).             *)
db_fail(c) ==
    /\ up
    /\ pc[c] = "connect"
    /\ up' = FALSE
    /\ UNCHANGED <<queueVars, listening, files, peerVars, pc, fdVars, request,
                   evVars>>

(* The query succeeds or fails; ~CDBManager closes the connection.         *)
db_query(c) ==
    /\ up
    /\ pc[c] = "query"
    /\ request[c] = "call"
    /\ files' = FilesWithout(c, {"mysql"})
    /\ fd' = NumbersWithout(c, {"mysql"})
    /\ pc' = [pc EXCEPT ![c] = "reply"]
    /\ UNCHANGED <<queueVars, procVars, peerVars, ev_fd, request, evVars>>

(* value["FunctionName"] or asString() throws, before or after initDB, and *)
(* nobody catches: the process aborts.                                     *)
json_throw(c) ==
    /\ up
    /\ pc[c] \in {"connect", "query"}
    /\ request[c] = "throw"
    /\ up' = FALSE
    /\ UNCHANGED <<queueVars, listening, files, peerVars, pc, fdVars, request,
                   evVars>>

(* bufferevent_write_buffer queues the reply, and                          *)
(* bufferevent_socket_outbuf_cb adds ev_write.  If only its timer had made *)
(* it active, which is all that can be left behind the read, event_add     *)
(* takes it out of the active queue again.                                 *)
read_reply(c) ==
    /\ up
    /\ pc[c] = "reply"
    /\ ev_write' = [ev_write EXCEPT ![c] = TRUE]
    /\ active' = IF active[c] = <<<<"write", "timeout">>>>
                 THEN [active EXCEPT ![c] = <<>>]
                 ELSE active
    /\ request' = [request EXCEPT ![c] = "none"]
    /\ pc' = [pc EXCEPT ![c] = "process"]
    /\ UNCHANGED <<queueVars, procVars, files, peerVars, fdVars, ev_read>>

(* End of file, or an error: ev_read is disabled and buffered_on_error     *)
(* closes the socket.                                                      *)
read_eof(c) ==
    /\ Processing(c, "read", "io")
    /\ inbox[c] = <<>>
    /\ ev_read' = [ev_read EXCEPT ![c] = FALSE]
    /\ closeClient(c)
    /\ UNCHANGED <<queueVars, procVars, pc, ev_fd, request, ev_write>>

read_timeout(c) ==
    /\ Processing(c, "read", "timeout")
    /\ ev_read' = [ev_read EXCEPT ![c] = FALSE]
    /\ closeClient(c)
    /\ UNCHANGED <<queueVars, procVars, pc, ev_fd, request, ev_write>>

-----------------------------------------------------------------------------
(* bufferevent_writecb and buffered_on_error                               *)

(* The write goes to whatever the descriptor number stands for by now.     *)
Target(c) == files[ev_fd[c]]

IsStream(f) == f # FREE /\ f[1] # "epoll"

(* The whole output is written and ev_write deleted.                       *)
write_sent(c) ==
    /\ Processing(c, "write", "io")
    /\ IsStream(Target(c))
    /\ ev_write' = [ev_write EXCEPT ![c] = FALSE]
    /\ UNCHANGED <<queueVars, procVars, files, peerVars, pc, fdVars, request,
                   ev_read>>

(* EBADF on a closed number, EINVAL on an epoll descriptor, or the peer is *)
(* gone: writing is disabled and the client closed.                        *)
write_error(c) ==
    /\ Processing(c, "write", "io")
    /\ \/ ~IsStream(Target(c))
       \/ \E d \in Client : Target(c) = SocketOf(d) /\ peer[d] = "shut"
    /\ ev_write' = [ev_write EXCEPT ![c] = FALSE]
    /\ closeClient(c)
    /\ UNCHANGED <<queueVars, procVars, pc, ev_fd, request, ev_read>>

write_timeout(c) ==
    /\ Processing(c, "write", "timeout")
    /\ ev_write' = [ev_write EXCEPT ![c] = FALSE]
    /\ closeClient(c)
    /\ UNCHANGED <<queueVars, procVars, pc, ev_fd, request, ev_read>>

(* What the worker thread that has the job of c does by itself.            *)
job_step(c) ==
    \/ loop_dispatch(c) \/ loop_again(c) \/ loop_end(c)
    \/ read_data(c) \/ read_reply(c) \/ read_eof(c) \/ read_timeout(c)
    \/ db_connect(c) \/ db_fail(c) \/ db_query(c) \/ json_throw(c)
    \/ write_sent(c) \/ write_error(c) \/ write_timeout(c)

-----------------------------------------------------------------------------

(* killServer: the accept loop is told to exit and the waiting jobs are    *)
(* dropped, their clients neither closed nor freed.                        *)
killServer ==
    /\ up
    /\ listening
    /\ listening' = FALSE
    /\ Queue!DropAll
    /\ UNCHANGED <<up, files, peerVars, pc, fdVars, request, evVars>>

(* runServer returns and so does main, whatever the workers are doing.     *)
main_return ==
    /\ up
    /\ ~listening
    /\ \A c \in Client : pc[c] \notin Accepting
    /\ up' = FALSE
    /\ UNCHANGED <<queueVars, listening, files, peerVars, pc, fdVars, request,
                   evVars>>

Next ==
    \/ \E c \in Client : client_step(c) \/ accept_step(c) \/ job_step(c)
    \/ job_start
    \/ killServer
    \/ main_return

Spec == Init /\ [][Next]_vars

(* A worker thread that can run is scheduled.  Clients need do nothing.    *)
FairSpec == Spec /\ \A c \in Client : WF_vars(job_step(c))

-----------------------------------------------------------------------------
(* Properties                                                              *)

ConnPC == {"none", "backlog", "accepted", "epolled", "based", "queued",
           "poll", "process", "connect", "query", "reply", "closed"}

(* At most one entry for each of the two events: libevent's EVLIST_ACTIVE. *)
ActiveEvent == {"read", "write"} \X {"io", "timeout"}
ActiveQueue ==
    {<<>>} \cup {<<a>> : a \in ActiveEvent}
    \cup {<<p[1], p[2]>> : p \in {q \in ActiveEvent \X ActiveEvent :
                                   q[1][1] # q[2][1]}}

(* Every variable has its type, and no event is active twice although its  *)
(* timer may elapse while its descriptor is ready (event.c:2512-2544).     *)
TypeOK ==
    /\ stack \in Seq(Client)
    /\ running \subseteq Client
    /\ finished \subseteq Client
    /\ dropped \subseteq Client
    /\ up \in BOOLEAN
    /\ listening \in BOOLEAN
    /\ files \in [Fd -> {FREE} \cup Kind \X Client]
    /\ peer \in [Client -> {"open", "shut"}]
    /\ inbox \in [Client -> Seq(Chunk)]
    /\ pc \in [Client -> ConnPC]
    /\ fd \in [Client -> [Kind -> {NoFd} \cup Fd]]
    /\ ev_fd \in [Client -> {NoFd} \cup Fd]
    /\ request \in [Client -> Chunk \cup {"none"}]
    /\ ev_read \in [Client -> BOOLEAN]
    /\ ev_write \in [Client -> BOOLEAN]
    /\ active \in [Client -> ActiveQueue]

(* The number kept in client->fd, in a client's event base (epoll and the  *)
(* signal pair) and in its database connection stands for that very file,  *)
(* and every open file is kept by its owner: none of these numbers is      *)
(* closed twice or lost, whoever reuses it (server_threaded.c:31-57,       *)
(* 189-253; epoll.c:455-474; signal.c:421-428).  Nothing is said of the    *)
(* copy in ev_read and ev_write, which RepliesToOwnClient is about.        *)
DescriptorsOwned ==
    \A n \in Fd, c \in Client, k \in Kind : fd[c][k] = n <=> files[n] = <<k, c>>

(* A connection that is over, refused by on_accept or served, has left     *)
(* nothing in the descriptor table (server_threaded.c:40-57, 154-160;      *)
(* signal.c:421-428).                                                      *)
ClosedMeansReleased ==
    \A c \in Client : pc[c] = "closed" =>
        \A n \in Fd, k \in Kind : files[n] # <<k, c>>

(* A client keeps its worker only by sending again and again, which starts *)
(* the persistent read timer anew: the job of any other client that runs   *)
(* is finished, whatever the others do, unless the process exits           *)
(* (server_threaded.c:157-159, 242; server_threaded.h:33-35).              *)
JobsEnd ==
    \A c \in Client :
        \/ []<><<\E k \in Chunk : client_send(c, k)>>_vars
        \/ (c \in running) ~> (c \in finished \/ ~up)

(* "The output buffer for this client." (server_threaded.h:61): what a     *)
(* connection's write callback writes goes to that connection.             *)
RepliesToOwnClient ==
    [][\A c \in Client : write_sent(c) => Target(c) = SocketOf(c)]_vars

=============================================================================
