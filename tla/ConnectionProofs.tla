-------------------------- MODULE ConnectionProofs --------------------------
(***************************************************************************)
(* Proofs about Connection, for any set of clients, any number of workers, *)
(* any size of the descriptor table and any bound on what waits unread.    *)
(***************************************************************************)
EXTENDS Connection, FiniteSetTheorems, SequenceTheorems, WellFoundedInduction,
        TLAPS

(* Every disjunct of Next by name: the shape of the proofs below.          *)
LEMMA NextCases ==
    ASSUME [Next]_vars
    PROVE  \/ \E c \in Client :
                 \/ client_connect(c) \/ \E k \in Chunk : client_send(c, k)
                 \/ client_shut(c)
                 \/ accept_socket(c) \/ accept_epoll(c) \/ accept_pair(c)
                 \/ accept_exit(c) \/ accept_fail(c) \/ accept_submit(c)
                 \/ loop_dispatch(c) \/ loop_again(c) \/ loop_end(c)
                 \/ read_data(c) \/ read_reply(c) \/ read_eof(c) \/ read_timeout(c)
                 \/ db_connect(c) \/ db_fail(c) \/ db_query(c) \/ json_throw(c)
                 \/ write_sent(c) \/ write_error(c) \/ write_timeout(c)
           \/ job_start
           \/ killServer
           \/ main_return
           \/ UNCHANGED vars
  BY DEF Next, client_step, accept_step, job_step

-----------------------------------------------------------------------------
(* The lowest free number, which accept, epoll_create and socket return.   *)

(* A set of numbers that is not empty has a least one.                     *)
LEMMA LeastExists ==
    ASSUME NEW S, S \subseteq Nat, S # {}
    PROVE  \E n \in S : \A m \in S : n <= m
<1> DEFINE T == {0 .. n : n \in S}
<1>1. IsWellFoundedOn(StrictSubsetOrdering(Nat), FiniteSubsetsOf(Nat))
  BY FS_StrictSubsetOrderingWellFounded
<1>2. T \subseteq FiniteSubsetsOf(Nat)
  <2>1. ASSUME NEW n \in S
        PROVE  0 .. n \subseteq Nat /\ IsFiniteSet(0 .. n)
    BY FS_Interval
  <2>2. QED
    BY <2>1 DEF FiniteSubsetsOf
<1>3. T # {}
  OBVIOUS
<1>4. PICK t \in T : \A u \in T : <<u, t>> \notin StrictSubsetOrdering(Nat)
  <2> HIDE DEF T
  <2>1. QED
    BY <1>1, <1>2, <1>3, WFMin
<1>5. PICK n \in S : t = 0 .. n
  OBVIOUS
<1>6. ASSUME NEW m \in S PROVE n <= m
  <2>1. SUFFICES ASSUME m < n PROVE FALSE
    BY <1>6
  <2>2. 0 .. m \in T /\ 0 .. m \in SUBSET Nat /\ 0 .. n \in SUBSET Nat
    OBVIOUS
  <2>3. 0 .. m \subseteq 0 .. n
    BY <2>1
  <2>4. n \in 0 .. n /\ n \notin 0 .. m
    BY <2>1
  <2>5. 0 .. m # 0 .. n
    BY <2>4
  <2>6. <<0 .. m, 0 .. n>> \in StrictSubsetOrdering(Nat)
    BY <2>2, <2>3, <2>5 DEF StrictSubsetOrdering
  <2>7. QED
    BY <1>4, <1>5, <2>2, <2>6
<1>7. QED
  BY <1>6

(* The number that accept returns is one of a file that is not open.       *)
LEMMA LowestIsFree ==
    ASSUME NEW S, S \subseteq FreeFds, S # {}
    PROVE  /\ Lowest(S) \in S /\ Lowest(S) \in Fd /\ files[Lowest(S)] = FREE
           /\ Lowest(S) # NoFd
<1>1. S \subseteq Nat
  BY DEF FreeFds, Fd
<1>2. \E n \in S : \A m \in S : n <= m
  BY <1>1, LeastExists
<1>3. Lowest(S) \in S
  BY <1>2 DEF Lowest
<1>4. \A n \in S : n \in Fd /\ files[n] = FREE /\ n # NoFd
  BY <1>1, SizeAssumption DEF FreeFds, Fd, NoFd
<1>5. QED
  BY <1>3, <1>4

-----------------------------------------------------------------------------
(* The inductive invariant.                                                *)

(* The files a client may have, by how far it is.                          *)
MayHave(p) ==
    IF p \in {"none", "backlog", "closed"} THEN {}
    ELSE IF p = "accepted" THEN {"socket"}
    ELSE IF p = "epolled" THEN {"socket", "epoll"}
    ELSE IF p = "query" THEN Kind
    ELSE ClientKind

Stages == \A c \in Client : \A k \in Kind \ MayHave(pc[c]) : fd[c][k] = NoFd

(* The job of a client waits, runs, has ended or was dropped as its        *)
(* connection is queued, served or closed, and it waits only once.         *)
Serving == {"poll", "process", "connect", "query", "reply"}
JobsAgree ==
    /\ Queue!Distinct(stack)
    /\ \A c \in Client :
          /\ c \in Queue!Elements(stack) => pc[c] = "queued" /\ c \notin dropped
          /\ c \in dropped => pc[c] = "queued"
          /\ c \in running <=> pc[c] \in Serving
          /\ c \in finished => pc[c] = "closed"

Inv == TypeOK /\ JobsAgree /\ Stages /\ DescriptorsOwned

-----------------------------------------------------------------------------
(* Types                                                                   *)

(* What sequences of one or no active event make put together.             *)
LEMMA JoinedEvents ==
    ASSUME NEW a \in ActiveEvent, NEW b \in ActiveEvent
    PROVE  /\ <<a>> \o <<b>> = <<a, b>>
           /\ <<a>> \o <<>> = <<a>> /\ <<>> \o <<a>> = <<a>>
           /\ <<a, b>> \o <<>> = <<a, b>> /\ <<>> \o <<a, b>> = <<a, b>>
<1>1. <<a>> \in Seq(ActiveEvent) /\ <<b>> \in Seq(ActiveEvent)
  OBVIOUS
<1>2. <<a, b>> \in Seq(ActiveEvent) /\ Len(<<a, b>>) = 2
  OBVIOUS
<1> DEFINE s == <<a>> \o <<b>>
<1> DEFINE t == <<a, b>>
<1>3. s \in Seq(ActiveEvent) /\ Len(s) = 2 /\ s[1] = a /\ s[2] = b
  BY <1>1
<1>4. \A i \in 1 .. 2 : s[i] = t[i]
  <2>1. \A i \in 1 .. 2 : i = 1 \/ i = 2
    OBVIOUS
  <2>2. QED
    BY <1>3, <2>1
<1>5. s = t
  <2>1. t \in Seq(ActiveEvent) /\ Len(t) = 2
    BY <1>2
  <2> HIDE DEF s, t
  <2>2. QED
    BY <1>3, <1>4, <2>1, SeqEqual
<1>6. QED
  BY <1>1, <1>2, <1>5, ConcatEmptySeq

(* The active events of a set, in either order.                            *)
LEMMA OrderedEvents ==
    ASSUME NEW k \in {"io", "timeout"}
    PROVE  /\ InOrder({}, k) = <<>> /\ Reversed({}, k) = <<>>
           /\ InOrder({"read"}, k) = <<<<"read", k>>>>
           /\ Reversed({"read"}, k) = <<<<"read", k>>>>
           /\ InOrder({"write"}, k) = <<<<"write", k>>>>
           /\ Reversed({"write"}, k) = <<<<"write", k>>>>
           /\ InOrder({"read", "write"}, k) = <<<<"read", k>>, <<"write", k>>>>
           /\ Reversed({"read", "write"}, k) = <<<<"write", k>>, <<"read", k>>>>
<1>1. PICK r \in ActiveEvent : r = <<"read", k>>
  BY DEF ActiveEvent
<1>2. PICK w \in ActiveEvent : w = <<"write", k>>
  BY DEF ActiveEvent
<1>3. <<>> \o <<>> = <<>>
  <2>1. <<>> \in Seq(ActiveEvent)
    OBVIOUS
  <2>2. QED
    BY <2>1, ConcatEmptySeq
<1>4. /\ <<r>> \o <<w>> = <<r, w>> /\ <<w>> \o <<r>> = <<w, r>>
      /\ <<r>> \o <<>> = <<r>> /\ <<>> \o <<r>> = <<r>>
      /\ <<w>> \o <<>> = <<w>> /\ <<>> \o <<w>> = <<w>>
  BY JoinedEvents
<1>5. InOrder({}, k) = <<>> /\ Reversed({}, k) = <<>>
  BY <1>3 DEF InOrder, Reversed
<1>6. /\ InOrder({"read"}, k) = <<r>> /\ Reversed({"read"}, k) = <<r>>
      /\ InOrder({"write"}, k) = <<w>> /\ Reversed({"write"}, k) = <<w>>
  BY <1>1, <1>2, <1>4 DEF InOrder, Reversed
<1>7. /\ InOrder({"read", "write"}, k) = <<r, w>>
      /\ Reversed({"read", "write"}, k) = <<w, r>>
  BY <1>1, <1>2, <1>4 DEF InOrder, Reversed
<1>8. QED
  BY <1>1, <1>2, <1>5, <1>6, <1>7

(* Events that are ready and others that have expired make an active queue *)
(* in which no event is twice.                                             *)
LEMMA ActiveTyped ==
    ASSUME NEW S, NEW T, S \subseteq {"read", "write"}, T \subseteq {"read", "write"},
           S \cap T = {}
    PROVE  /\ InOrder(S, "io") \o InOrder(T, "timeout") \in ActiveQueue
           /\ InOrder(S, "io") \o Reversed(T, "timeout") \in ActiveQueue
<1>1. \A a \in ActiveEvent : <<a>> \in ActiveQueue
  BY DEF ActiveQueue
<1>2. ASSUME NEW a \in ActiveEvent, NEW b \in ActiveEvent, a[1] # b[1]
      PROVE  <<a, b>> \in ActiveQueue
  <2>1. <<a, b>> \in {q \in ActiveEvent \X ActiveEvent : q[1][1] # q[2][1]}
    BY <1>2
  <2>2. QED
    BY <2>1 DEF ActiveQueue
<1>3. <<>> \in ActiveQueue
  BY DEF ActiveQueue
<1>4. PICK ri \in ActiveEvent : ri = <<"read", "io">>
  BY DEF ActiveEvent
<1>5. PICK wi \in ActiveEvent : wi = <<"write", "io">>
  BY DEF ActiveEvent
<1>6. PICK rt \in ActiveEvent : rt = <<"read", "timeout">>
  BY DEF ActiveEvent
<1>7. PICK wt \in ActiveEvent : wt = <<"write", "timeout">>
  BY DEF ActiveEvent
<1>8. /\ ri[1] = "read" /\ rt[1] = "read" /\ wi[1] = "write" /\ wt[1] = "write"
      /\ "read" # "write"
  BY <1>4, <1>5, <1>6, <1>7
<1>9. /\ <<ri, wi>> \in ActiveQueue /\ <<rt, wt>> \in ActiveQueue
      /\ <<wt, rt>> \in ActiveQueue /\ <<ri, wt>> \in ActiveQueue
      /\ <<wi, rt>> \in ActiveQueue
  BY <1>2, <1>8
<1>10. /\ InOrder({}, "io") = <<>>
       /\ InOrder({}, "timeout") = <<>> /\ Reversed({}, "timeout") = <<>>
       /\ InOrder({"read"}, "io") = <<ri>> /\ InOrder({"write"}, "io") = <<wi>>
       /\ InOrder({"read", "write"}, "io") = <<ri, wi>>
       /\ InOrder({"read"}, "timeout") = <<rt>> /\ Reversed({"read"}, "timeout") = <<rt>>
       /\ InOrder({"write"}, "timeout") = <<wt>> /\ Reversed({"write"}, "timeout") = <<wt>>
       /\ InOrder({"read", "write"}, "timeout") = <<rt, wt>>
       /\ Reversed({"read", "write"}, "timeout") = <<wt, rt>>
  BY <1>4, <1>5, <1>6, <1>7, OrderedEvents
<1>11. <<>> \o <<>> = <<>>
  <2>1. <<>> \in Seq(ActiveEvent)
    OBVIOUS
  <2>2. QED
    BY <2>1, ConcatEmptySeq
<1>12. /\ <<ri>> \o <<>> = <<ri>> /\ <<wi>> \o <<>> = <<wi>>
       /\ <<>> \o <<rt>> = <<rt>> /\ <<>> \o <<wt>> = <<wt>>
       /\ <<ri>> \o <<wt>> = <<ri, wt>> /\ <<wi>> \o <<rt>> = <<wi, rt>>
       /\ <<ri, wi>> \o <<>> = <<ri, wi>>
       /\ <<>> \o <<rt, wt>> = <<rt, wt>> /\ <<>> \o <<wt, rt>> = <<wt, rt>>
  BY JoinedEvents
<1> DEFINE Joined(R, U) == /\ InOrder(R, "io") \o InOrder(U, "timeout") \in ActiveQueue
                           /\ InOrder(R, "io") \o Reversed(U, "timeout") \in ActiveQueue
<1> HIDE DEF ActiveQueue, ActiveEvent
<1>13. S = {} \/ S = {"read"} \/ S = {"write"} \/ S = {"read", "write"}
  OBVIOUS
<1>14. T = {} \/ T = {"read"} \/ T = {"write"} \/ T = {"read", "write"}
  OBVIOUS
<1>15. Joined({}, {})
  BY <1>3, <1>10, <1>11
<1>16. Joined({}, {"read"}) /\ Joined({}, {"write"})
  BY <1>1, <1>10, <1>12
<1>17. Joined({}, {"read", "write"})
  BY <1>9, <1>10, <1>12
<1>18. Joined({"read"}, {}) /\ Joined({"write"}, {})
  BY <1>1, <1>10, <1>12
<1>19. Joined({"read"}, {"write"}) /\ Joined({"write"}, {"read"})
  BY <1>9, <1>10, <1>12
<1>20. Joined({"read", "write"}, {})
  BY <1>9, <1>10, <1>12
<1>21. Joined(S, T)
  <2> HIDE DEF Joined
  <2>1. CASE S = {}
    BY <1>14, <1>15, <1>16, <1>17, <2>1
  <2>2. CASE S = {"read"}
    <3>1. T = {} \/ T = {"write"}
      BY <1>14, <2>2
    <3>2. QED
      BY <1>18, <1>19, <2>2, <3>1
  <2>3. CASE S = {"write"}
    <3>1. T = {} \/ T = {"read"}
      BY <1>14, <2>3
    <3>2. QED
      BY <1>18, <1>19, <2>3, <3>1
  <2>4. CASE S = {"read", "write"}
    <3>1. T = {}
      BY <1>14, <2>4
    <3>2. QED
      BY <1>20, <2>4, <3>1
  <2>5. QED
    BY <1>13, <2>1, <2>2, <2>3, <2>4
<1>22. QED
  BY <1>21

(* Taking the next event leaves an active queue.                           *)
LEMMA TailTyped ==
    ASSUME NEW q \in ActiveQueue, q # <<>>
    PROVE  Tail(q) \in ActiveQueue
<1>1. CASE \E a \in ActiveEvent : q = <<a>>
  <2>1. Tail(q) = <<>>
    BY <1>1
  <2>2. QED
    BY <2>1 DEF ActiveQueue
<1>2. CASE \E p \in ActiveEvent \X ActiveEvent : q = <<p[1], p[2]>>
  <2>1. PICK p \in ActiveEvent \X ActiveEvent : q = <<p[1], p[2]>>
    BY <1>2
  <2>2. Tail(q) = <<p[2]>> /\ p[2] \in ActiveEvent
    BY <2>1
  <2>3. QED
    BY <2>2 DEF ActiveQueue
<1>3. QED
  BY <1>1, <1>2 DEF ActiveQueue

(* The initial state has the invariant.                                    *)
LEMMA TypeInit == Init => Inv
<1> SUFFICES ASSUME Init PROVE Inv
  OBVIOUS
<1> USE DEF Init, Queue!JSInit, NoFd
<1>1. TypeOK
  BY SizeAssumption DEF TypeOK, Chunk, ConnPC, ActiveQueue
<1>2. Stages
  BY DEF Stages
<1>3. DescriptorsOwned
  BY FreeAssumption DEF DescriptorsOwned, Fd
<1>4. JobsAgree
  BY DEF JobsAgree, Serving, Queue!Distinct, Queue!Elements
<1>5. QED
  BY <1>1, <1>2, <1>3, <1>4 DEF Inv

(* Opening a file keeps the types of the table and of the numbers.         *)
LEMMA OpeningTyped ==
    ASSUME TypeOK, NEW c \in Client, NEW k \in Kind, Opening(c, k)
    PROVE  /\ files' \in [Fd -> {FREE} \cup Kind \X Client]
           /\ fd' \in [Client -> [Kind -> {NoFd} \cup Fd]]
<1>1. Lowest(FreeFds) \in Fd
  BY LowestIsFree DEF Opening
<1>2. <<k, c>> \in Kind \X Client
  OBVIOUS
<1>3. files' \in [Fd -> {FREE} \cup Kind \X Client]
  BY <1>1, <1>2 DEF TypeOK, Opening
<1>4. fd' \in [Client -> [Kind -> {NoFd} \cup Fd]]
  BY <1>1 DEF TypeOK, Opening
<1>5. QED
  BY <1>3, <1>4

(* So does closing files of some kinds.                                    *)
LEMMA ClosingTyped ==
    ASSUME TypeOK, NEW c \in Client, NEW K \in SUBSET Kind
    PROVE  /\ FilesWithout(c, K) \in [Fd -> {FREE} \cup Kind \X Client]
           /\ NumbersWithout(c, K) \in [Client -> [Kind -> {NoFd} \cup Fd]]
<1>1. FilesWithout(c, K) \in [Fd -> {FREE} \cup Kind \X Client]
  BY DEF TypeOK, FilesWithout
<1>2. [k \in Kind |-> IF k \in K THEN NoFd ELSE fd[c][k]] \in [Kind -> {NoFd} \cup Fd]
  BY DEF TypeOK
<1>3. NumbersWithout(c, K) \in [Client -> [Kind -> {NoFd} \cup Fd]]
  BY <1>2 DEF TypeOK, NumbersWithout
<1>4. QED
  BY <1>1, <1>3

(* closeClient and closeAndFreeClient keep the types of all they change.   *)
LEMMA CloseTyped ==
    ASSUME TypeOK, NEW c \in Client, closeClient(c) \/ closeAndFreeClient(c)
    PROVE  /\ files' \in [Fd -> {FREE} \cup Kind \X Client]
           /\ fd' \in [Client -> [Kind -> {NoFd} \cup Fd]]
           /\ peer' \in [Client -> {"open", "shut"}]
           /\ inbox' \in [Client -> Seq(Chunk)]
<1>1. {"socket"} \in SUBSET Kind /\ ClientKind \in SUBSET Kind
  BY DEF Kind, ClientKind, BaseKind
<1>2. hangup(c)
  BY DEF closeClient, closeAndFreeClient
<1>3. peer' \in [Client -> {"open", "shut"}] /\ inbox' \in [Client -> Seq(Chunk)]
  BY <1>2 DEF hangup, TypeOK
<1>4. QED
  BY <1>1, <1>3, ClosingTyped DEF closeClient, closeAndFreeClient

(* The callback of the next active event takes it from the queue.          *)
LEMMA ProcessingTyped ==
    ASSUME TypeOK, NEW c \in Client, NEW e, NEW k, Processing(c, e, k)
    PROVE  active' \in [Client -> ActiveQueue]
<1>1. active[c] \in ActiveQueue /\ active[c] # <<>>
  BY DEF TypeOK, Processing
<1>2. Tail(active[c]) \in ActiveQueue
  BY <1>1, TailTyped
<1>3. QED
  BY <1>2 DEF TypeOK, Processing

(* evsig_init's two numbers are different and were free.                   *)
LEMMA PairOpened ==
    ASSUME NEW c \in Client, accept_pair(c)
    PROVE  \E first, second \in Fd :
             /\ first # second /\ first # NoFd /\ second # NoFd
             /\ files[first] = FREE /\ files[second] = FREE
             /\ files' = [files EXCEPT ![first] = <<"pair0", c>>, ![second] = <<"pair1", c>>]
             /\ fd' = [fd EXCEPT ![c] = [@ EXCEPT !["pair0"] = first, !["pair1"] = second]]
<1> DEFINE first == Lowest(FreeFds)
           second == Lowest(FreeFds \ {first})
<1>1. /\ FreeFds # {} /\ FreeFds \ {first} # {}
      /\ files' = [files EXCEPT ![first] = <<"pair0", c>>, ![second] = <<"pair1", c>>]
      /\ fd' = [fd EXCEPT ![c] = [@ EXCEPT !["pair0"] = first, !["pair1"] = second]]
  BY DEF accept_pair
<1>2. first \in Fd /\ files[first] = FREE /\ first # NoFd
  BY <1>1, LowestIsFree
<1>3. FreeFds \ {first} \subseteq FreeFds
  OBVIOUS
<1> HIDE DEF first
<1>4. second \in FreeFds \ {first} /\ second \in Fd /\ files[second] = FREE /\ second # NoFd
  BY <1>1, <1>3, LowestIsFree
<1> HIDE DEF second
<1>5. QED
  BY <1>1, <1>2, <1>4

(* Every step keeps the types.                                             *)
LEMMA TypeStep ==
    ASSUME Inv, [Next]_vars
    PROVE  TypeOK'
<1>i. TypeOK
  BY DEF Inv
<1> USE <1>i, SizeAssumption DEF TypeOK
<1>1. ASSUME NEW c \in Client, client_connect(c)
      PROVE  TypeOK'
  BY <1>1 DEF client_connect, ConnPC, queueVars, procVars, peerVars, fdVars,
     evVars
<1>2. ASSUME NEW c \in Client, NEW k \in Chunk, client_send(c, k)
      PROVE  TypeOK'
  <2>1. inbox'[c] \in Seq(Chunk)
    BY <1>2 DEF client_send
  <2>2. QED
    BY <1>2, <2>1 DEF client_send, queueVars, procVars, fdVars, evVars
<1>3. ASSUME NEW c \in Client, client_shut(c)
      PROVE  TypeOK'
  BY <1>3 DEF client_shut, ConnPC, queueVars, procVars, peerVars, fdVars,
     evVars
<1>4. ASSUME NEW c \in Client, accept_socket(c)
      PROVE  TypeOK'
  <2>1. "socket" \in Kind /\ Opening(c, "socket")
    BY <1>4 DEF accept_socket, Kind
  <2>2. /\ files' \in [Fd -> {FREE} \cup Kind \X Client]
        /\ fd' \in [Client -> [Kind -> {NoFd} \cup Fd]]
    BY <2>1, OpeningTyped
  <2>3. QED
    BY <1>4, <2>2 DEF accept_socket, ConnPC, queueVars, procVars, peerVars, evVars
<1>5. ASSUME NEW c \in Client, accept_epoll(c)
      PROVE  TypeOK'
  <2>1. "epoll" \in Kind /\ Opening(c, "epoll")
    BY <1>5 DEF accept_epoll, Kind
  <2>2. /\ files' \in [Fd -> {FREE} \cup Kind \X Client]
        /\ fd' \in [Client -> [Kind -> {NoFd} \cup Fd]]
    BY <2>1, OpeningTyped
  <2>3. QED
    BY <1>5, <2>2 DEF accept_epoll, ConnPC, queueVars, procVars, peerVars, evVars
<1>6. ASSUME NEW c \in Client, accept_pair(c)
      PROVE  TypeOK'
  <2>1. PICK first, second \in Fd :
           /\ files' = [files EXCEPT ![first] = <<"pair0", c>>, ![second] = <<"pair1", c>>]
           /\ fd' = [fd EXCEPT ![c] = [@ EXCEPT !["pair0"] = first, !["pair1"] = second]]
    BY <1>6, PairOpened
  <2>2. "pair0" \in Kind /\ "pair1" \in Kind
    BY DEF Kind
  <2>3. files' \in [Fd -> {FREE} \cup Kind \X Client]
    BY <2>1, <2>2
  <2>4. fd' \in [Client -> [Kind -> {NoFd} \cup Fd]]
    BY <2>1, <2>2
  <2>5. QED
    BY <1>6, <2>3, <2>4 DEF accept_pair, ConnPC, queueVars, procVars, peerVars, evVars
<1>7. ASSUME NEW c \in Client, accept_exit(c)
      PROVE  TypeOK'
  BY <1>7 DEF accept_exit, ConnPC, queueVars, procVars, peerVars, fdVars,
     evVars
<1>8. ASSUME NEW c \in Client, accept_fail(c)
      PROVE  TypeOK'
  <2>1. closeAndFreeClient(c)
    BY <1>8 DEF accept_fail
  <2>2. /\ ev_fd' \in [Client -> {NoFd} \cup Fd]
        /\ ev_read' \in [Client -> BOOLEAN] /\ ev_write' \in [Client -> BOOLEAN]
        /\ active' = active
    BY <2>1 DEF closeAndFreeClient
  <2>3. QED
    BY <1>8, <2>1, <2>2, CloseTyped DEF accept_fail, ConnPC, queueVars,
       procVars
<1>9. ASSUME NEW c \in Client, accept_submit(c)
      PROVE  TypeOK'
  <2>1. <<c>> \o stack \in Seq(Client)
    OBVIOUS
  <2>2. fd[c]["socket"] \in {NoFd} \cup Fd
    BY DEF Kind
  <2>3. QED
    BY <1>9, <2>1, <2>2 DEF accept_submit, Queue!Submit, ConnPC, procVars, peerVars
<1>10. ASSUME NEW c \in Client, loop_dispatch(c)
      PROVE  TypeOK'
  <2>1. PICK expired \in SUBSET expirable(c), writable \in BOOLEAN :
           LET io == InOrder(StillReady(c, writable, expired), "io")
           IN  \/ active' = [active EXCEPT ![c] = io \o InOrder(expired, "timeout")]
               \/ active' = [active EXCEPT ![c] = io \o Reversed(expired, "timeout")]
    BY <1>10 DEF loop_dispatch
  <2>2. /\ StillReady(c, writable, expired) \subseteq {"read", "write"}
        /\ expired \subseteq {"read", "write"}
        /\ StillReady(c, writable, expired) \cap expired = {}
    BY DEF StillReady, Ready, Pending, expirable
  <2> DEFINE io == InOrder(StillReady(c, writable, expired), "io")
  <2>3. /\ io \o InOrder(expired, "timeout") \in ActiveQueue
        /\ io \o Reversed(expired, "timeout") \in ActiveQueue
    BY <2>2, ActiveTyped
  <2>4. active \in [Client -> ActiveQueue]
    OBVIOUS
  <2>5. \/ active' = [active EXCEPT ![c] = io \o InOrder(expired, "timeout")]
        \/ active' = [active EXCEPT ![c] = io \o Reversed(expired, "timeout")]
    BY <2>1
  <2> HIDE DEF io
  <2>6. active' \in [Client -> ActiveQueue]
    <3> HIDE DEF TypeOK
    <3>1. QED
      BY <2>3, <2>4, <2>5
  <2>7. QED
    BY <1>10, <2>6 DEF loop_dispatch, ConnPC, queueVars, procVars, peerVars, fdVars
<1>11. ASSUME NEW c \in Client, loop_again(c)
      PROVE  TypeOK'
  BY <1>11 DEF loop_again, ConnPC, queueVars, procVars, peerVars, fdVars,
     evVars
<1>12. ASSUME NEW c \in Client, loop_end(c)
      PROVE  TypeOK'
  <2>1. closeAndFreeClient(c)
    BY <1>12 DEF loop_end
  <2>2. /\ ev_fd' \in [Client -> {NoFd} \cup Fd]
        /\ ev_read' \in [Client -> BOOLEAN] /\ ev_write' \in [Client -> BOOLEAN]
        /\ active' = active
    BY <2>1 DEF closeAndFreeClient
  <2>3. QED
    BY <1>12, <2>1, <2>2, CloseTyped DEF loop_end, Queue!Finish, ConnPC,
       queueVars, procVars
<1>13. ASSUME NEW c \in Client, read_data(c)
      PROVE  TypeOK'
  <2>1. inbox[c] \in Seq(Chunk) /\ inbox[c] # <<>>
    BY <1>13 DEF read_data
  <2>2. Head(inbox[c]) \in Chunk
    BY <2>1
  <2>3. PICK n \in 1 .. Len(inbox[c]) :
           inbox' = [inbox EXCEPT ![c] = SubSeq(@, n + 1, Len(@))]
    BY <1>13 DEF read_data
  <2>4. inbox' \in [Client -> Seq(Chunk)]
    BY <2>1, <2>3
  <2>5. active' \in [Client -> ActiveQueue]
    BY <1>13, ProcessingTyped DEF read_data
  <2>6. QED
    BY <1>13, <2>2, <2>4, <2>5 DEF read_data, Processing, ConnPC, queueVars, procVars, fdVars
<1>14. ASSUME NEW c \in Client, read_reply(c)
      PROVE  TypeOK'
  <2>1. <<>> \in ActiveQueue
    BY DEF ActiveQueue
  <2>2. active' \in [Client -> ActiveQueue]
    BY <1>14, <2>1 DEF read_reply
  <2>3. QED
    BY <1>14, <2>2 DEF read_reply, ConnPC, queueVars, procVars, peerVars, fdVars
<1>15. ASSUME NEW c \in Client, read_eof(c)
      PROVE  TypeOK'
  <2>1. active' \in [Client -> ActiveQueue]
    BY <1>15, ProcessingTyped DEF read_eof
  <2>2. ev_read' \in [Client -> BOOLEAN] /\ closeClient(c)
    BY <1>15 DEF read_eof
  <2>3. QED
    BY <1>15, <2>1, <2>2, CloseTyped DEF read_eof, queueVars, procVars
<1>16. ASSUME NEW c \in Client, read_timeout(c)
      PROVE  TypeOK'
  <2>1. active' \in [Client -> ActiveQueue]
    BY <1>16, ProcessingTyped DEF read_timeout
  <2>2. ev_read' \in [Client -> BOOLEAN] /\ closeClient(c)
    BY <1>16 DEF read_timeout
  <2>3. QED
    BY <1>16, <2>1, <2>2, CloseTyped DEF read_timeout, queueVars, procVars
<1>17. ASSUME NEW c \in Client, db_connect(c)
      PROVE  TypeOK'
  <2>1. "mysql" \in Kind /\ Opening(c, "mysql")
    BY <1>17 DEF db_connect, Kind
  <2>2. /\ files' \in [Fd -> {FREE} \cup Kind \X Client]
        /\ fd' \in [Client -> [Kind -> {NoFd} \cup Fd]]
    BY <2>1, OpeningTyped
  <2>3. QED
    BY <1>17, <2>2 DEF db_connect, ConnPC, queueVars, procVars, peerVars, evVars
<1>18. ASSUME NEW c \in Client, db_fail(c)
      PROVE  TypeOK'
  BY <1>18 DEF db_fail, ConnPC, queueVars, procVars, peerVars, fdVars,
     evVars
<1>19. ASSUME NEW c \in Client, db_query(c)
      PROVE  TypeOK'
  <2>1. {"mysql"} \in SUBSET Kind
    BY DEF Kind
  <2>2. QED
    BY <1>19, <2>1, ClosingTyped DEF db_query, ConnPC, queueVars, procVars, peerVars, evVars
<1>20. ASSUME NEW c \in Client, json_throw(c)
      PROVE  TypeOK'
  BY <1>20 DEF json_throw, ConnPC, queueVars, procVars, peerVars, fdVars,
     evVars
<1>21. ASSUME NEW c \in Client, write_sent(c)
      PROVE  TypeOK'
  <2>1. active' \in [Client -> ActiveQueue]
    BY <1>21, ProcessingTyped DEF write_sent
  <2>2. ev_write' \in [Client -> BOOLEAN]
    BY <1>21 DEF write_sent
  <2>3. QED
    BY <1>21, <2>1, <2>2 DEF write_sent, queueVars, procVars, peerVars, fdVars
<1>22. ASSUME NEW c \in Client, write_error(c)
      PROVE  TypeOK'
  <2>1. active' \in [Client -> ActiveQueue]
    BY <1>22, ProcessingTyped DEF write_error
  <2>2. ev_write' \in [Client -> BOOLEAN] /\ closeClient(c)
    BY <1>22 DEF write_error
  <2>3. QED
    BY <1>22, <2>1, <2>2, CloseTyped DEF write_error, queueVars, procVars
<1>23. ASSUME NEW c \in Client, write_timeout(c)
      PROVE  TypeOK'
  <2>1. active' \in [Client -> ActiveQueue]
    BY <1>23, ProcessingTyped DEF write_timeout
  <2>2. ev_write' \in [Client -> BOOLEAN] /\ closeClient(c)
    BY <1>23 DEF write_timeout
  <2>3. QED
    BY <1>23, <2>1, <2>2, CloseTyped DEF write_timeout, queueVars, procVars
<1>24. ASSUME job_start
      PROVE  TypeOK'
  <2>1. Head(stack) \in Client /\ stack' \in Seq(Client)
    BY <1>24, Queue!PopElements DEF job_start, Queue!Start
  <2>2. QED
    BY <1>24, <2>1 DEF job_start, Queue!Start, ConnPC, procVars, peerVars,
       fdVars, evVars
<1>25. ASSUME killServer
      PROVE  TypeOK'
  <2>1. Queue!Stacked \subseteq Client
    BY DEF Queue!Stacked, Queue!Elements
  <2>2. stack' = <<>> /\ <<>> \in Seq(Client)
    BY <1>25 DEF killServer, Queue!DropAll
  <2>3. dropped' \subseteq Client
    BY <1>25, <2>1 DEF killServer, Queue!DropAll
  <2>4. QED
    BY <1>25, <2>2, <2>3 DEF killServer, Queue!DropAll, peerVars, fdVars,
       evVars
<1>26. ASSUME main_return
      PROVE  TypeOK'
  BY <1>26 DEF main_return, ConnPC, queueVars, procVars, peerVars, fdVars,
     evVars
<1>27. ASSUME UNCHANGED vars
      PROVE  TypeOK'
  BY <1>27 DEF vars, queueVars, procVars, peerVars, fdVars, evVars
<1>28. QED
  BY NextCases, <1>1, <1>2, <1>3, <1>4, <1>5, <1>6, <1>7, <1>8, <1>9, <1>10,
     <1>11, <1>12, <1>13, <1>14, <1>15, <1>16, <1>17, <1>18, <1>19, <1>20,
     <1>21, <1>22, <1>23, <1>24, <1>25, <1>26, <1>27

-----------------------------------------------------------------------------
(* Jobs                                                                    *)

(* Most steps leave the queue alone and the client where it was, or move   *)
(* it on within its stage.                                                 *)
LEMMA JobsKept ==
    ASSUME TypeOK, JobsAgree, UNCHANGED queueVars, NEW c \in Client,
           \A d \in Client \ {c} : pc'[d] = pc[d],
           \/ pc'[c] = pc[c]
           \/ pc[c] \in Serving /\ pc'[c] \in Serving
           \/ /\ pc[c] \in {"none", "backlog", "accepted", "epolled", "based"}
              /\ pc'[c] \in {"backlog", "accepted", "epolled", "based", "closed"}
    PROVE  JobsAgree'
  BY DEF JobsAgree, Serving, queueVars

(* A job is queued by the acceptor, taken by a worker, and ended or        *)
(* dropped together with its connection.                                   *)
LEMMA JobsStep ==
    ASSUME Inv, [Next]_vars
    PROVE  JobsAgree'
<1> USE DEF Inv
<1>t. pc \in [Client -> ConnPC] /\ stack \in Seq(Client)
  BY DEF TypeOK
<1>1. ASSUME NEW c \in Client, client_connect(c)
      PROVE  JobsAgree'
  BY <1>1, <1>t, JobsKept DEF client_connect, Serving
<1>2. ASSUME NEW c \in Client, NEW k \in Chunk, client_send(c, k)
      PROVE  JobsAgree'
  BY <1>2, <1>t, JobsKept DEF client_send, Serving
<1>3. ASSUME NEW c \in Client, client_shut(c)
      PROVE  JobsAgree'
  BY <1>3, <1>t, JobsKept DEF client_shut, Serving
<1>4. ASSUME NEW c \in Client, accept_socket(c)
      PROVE  JobsAgree'
  BY <1>4, <1>t, JobsKept DEF accept_socket, Serving
<1>5. ASSUME NEW c \in Client, accept_epoll(c)
      PROVE  JobsAgree'
  BY <1>5, <1>t, JobsKept DEF accept_epoll, Serving
<1>6. ASSUME NEW c \in Client, accept_pair(c)
      PROVE  JobsAgree'
  BY <1>6, <1>t, JobsKept DEF accept_pair, Serving
<1>7. ASSUME NEW c \in Client, accept_exit(c)
      PROVE  JobsAgree'
  BY <1>7, <1>t, JobsKept DEF accept_exit, Serving
<1>8. ASSUME NEW c \in Client, accept_fail(c)
      PROVE  JobsAgree'
  BY <1>8, <1>t, JobsKept DEF accept_fail, Serving, Accepting
<1>9. ASSUME NEW c \in Client, accept_submit(c)
      PROVE  JobsAgree'
  <2>1. /\ pc[c] = "based" /\ pc' = [pc EXCEPT ![c] = "queued"]
        /\ stack' = <<c>> \o stack /\ c \notin Queue!Elements(stack) /\ c \notin dropped
        /\ UNCHANGED <<running, finished, dropped>>
    BY <1>9 DEF accept_submit, Queue!Submit, Queue!Stacked, Queue!Elements
  <2>2. Queue!Elements(stack') = Queue!Elements(stack) \cup {c} /\ Queue!Distinct(stack')
    BY <1>t, <2>1, Queue!PushElements DEF JobsAgree
  <2>3. QED
    BY <1>t, <2>1, <2>2 DEF JobsAgree, Serving
<1>10. ASSUME NEW c \in Client, loop_dispatch(c)
      PROVE  JobsAgree'
  BY <1>10, <1>t, JobsKept DEF loop_dispatch, Serving
<1>11. ASSUME NEW c \in Client, loop_again(c)
      PROVE  JobsAgree'
  BY <1>11, <1>t, JobsKept DEF loop_again, Serving
<1>12. ASSUME NEW c \in Client, loop_end(c)
      PROVE  JobsAgree'
  <2>1. /\ pc[c] = "poll" /\ pc' = [pc EXCEPT ![c] = "closed"]
        /\ running' = running \ {c} /\ finished' = finished \cup {c}
        /\ UNCHANGED <<stack, dropped>>
    BY <1>12 DEF loop_end, Queue!Finish
  <2>2. QED
    BY <1>t, <2>1 DEF JobsAgree, Serving
<1>13. ASSUME NEW c \in Client, read_data(c)
      PROVE  JobsAgree'
  BY <1>13, <1>t, JobsKept DEF read_data, Serving, Processing
<1>14. ASSUME NEW c \in Client, read_reply(c)
      PROVE  JobsAgree'
  BY <1>14, <1>t, JobsKept DEF read_reply, Serving
<1>15. ASSUME NEW c \in Client, read_eof(c)
      PROVE  JobsAgree'
  BY <1>15, <1>t, JobsKept DEF read_eof, Serving, Processing
<1>16. ASSUME NEW c \in Client, read_timeout(c)
      PROVE  JobsAgree'
  BY <1>16, <1>t, JobsKept DEF read_timeout, Serving, Processing
<1>17. ASSUME NEW c \in Client, db_connect(c)
      PROVE  JobsAgree'
  BY <1>17, <1>t, JobsKept DEF db_connect, Serving
<1>18. ASSUME NEW c \in Client, db_fail(c)
      PROVE  JobsAgree'
  BY <1>18, <1>t, JobsKept DEF db_fail, Serving
<1>19. ASSUME NEW c \in Client, db_query(c)
      PROVE  JobsAgree'
  BY <1>19, <1>t, JobsKept DEF db_query, Serving
<1>20. ASSUME NEW c \in Client, json_throw(c)
      PROVE  JobsAgree'
  BY <1>20, <1>t, JobsKept DEF json_throw, Serving
<1>21. ASSUME NEW c \in Client, write_sent(c)
      PROVE  JobsAgree'
  BY <1>21, <1>t, JobsKept DEF write_sent, Serving, Processing
<1>22. ASSUME NEW c \in Client, write_error(c)
      PROVE  JobsAgree'
  BY <1>22, <1>t, JobsKept DEF write_error, Serving, Processing
<1>23. ASSUME NEW c \in Client, write_timeout(c)
      PROVE  JobsAgree'
  BY <1>23, <1>t, JobsKept DEF write_timeout, Serving, Processing
<1>24. ASSUME job_start
      PROVE  JobsAgree'
  <2> DEFINE c == Head(stack)
  <2>1. /\ stack # <<>> /\ stack' = Tail(stack) /\ running' = running \cup {c}
        /\ pc' = [pc EXCEPT ![c] = "poll"] /\ UNCHANGED <<finished, dropped>>
    BY <1>24 DEF job_start, Queue!Start
  <2>2. /\ c \in Client /\ Queue!Elements(stack) = Queue!Elements(stack') \cup {c}
        /\ Queue!Distinct(stack') /\ c \notin Queue!Elements(stack')
    BY <1>t, <2>1, Queue!PopElements DEF JobsAgree
  <2> HIDE DEF c
  <2>3. QED
    BY <1>t, <2>1, <2>2 DEF JobsAgree, Serving
<1>25. ASSUME killServer
      PROVE  JobsAgree'
  <2>1. /\ stack' = <<>> /\ dropped' = dropped \cup Queue!Elements(stack)
        /\ UNCHANGED <<running, finished, pc>>
    BY <1>25 DEF killServer, Queue!DropAll, Queue!Stacked, Queue!Elements
  <2>2. Queue!Elements(stack') = {} /\ Queue!Distinct(stack')
    BY <2>1 DEF Queue!Elements, Queue!Distinct
  <2>3. QED
    BY <2>1, <2>2 DEF JobsAgree
<1>26. ASSUME main_return
      PROVE  JobsAgree'
  BY <1>26 DEF main_return, JobsAgree, queueVars
<1>27. ASSUME UNCHANGED vars
      PROVE  JobsAgree'
  BY <1>27 DEF vars, JobsAgree, queueVars
<1>28. QED
  BY NextCases, <1>1, <1>2, <1>3, <1>4, <1>5, <1>6, <1>7, <1>8, <1>9, <1>10,
     <1>11, <1>12, <1>13, <1>14, <1>15, <1>16, <1>17, <1>18, <1>19, <1>20,
     <1>21, <1>22, <1>23, <1>24, <1>25, <1>26, <1>27

-----------------------------------------------------------------------------
(* Stages and descriptors                                                  *)

(* What closing files of some kinds leaves.                                *)
LEMMA NumbersAre ==
    ASSUME fd \in [Client -> [Kind -> {NoFd} \cup Fd]], NEW c \in Client, NEW K
    PROVE  \A d \in Client, k \in Kind :
              NumbersWithout(c, K)[d][k] = IF d = c /\ k \in K THEN NoFd ELSE fd[d][k]
  BY DEF NumbersWithout

(* A step that leaves the numbers alone and moves no client on.            *)
LEMMA StagesKept ==
    ASSUME Stages, fd' = fd, pc' = pc
    PROVE  Stages'
  BY DEF Stages

(* A client moves on to a stage where it may have no less.                 *)
LEMMA StagesMoved ==
    ASSUME Stages, fd' = fd, pc \in [Client -> ConnPC], NEW c \in Client, NEW p,
           pc' = [pc EXCEPT ![c] = p], MayHave(pc[c]) \subseteq MayHave(p)
    PROVE  Stages'
<1>1. \A d \in Client : MayHave(pc[d]) \subseteq MayHave(pc'[d])
  OBVIOUS
<1>2. QED
  BY <1>1 DEF Stages

(* A descriptor is opened on entering a stage and closed on leaving it; a  *)
(* client that a worker takes has no database connection yet.              *)
LEMMA StagesStep ==
    ASSUME Inv, [Next]_vars
    PROVE  Stages'
<1> USE DEF Inv, Stages
<1>t. /\ pc \in [Client -> ConnPC] /\ stack \in Seq(Client)
      /\ fd \in [Client -> [Kind -> {NoFd} \cup Fd]]
  BY DEF TypeOK
<1>1. ASSUME NEW c \in Client, client_connect(c)
      PROVE  Stages'
  <2>1. pc[c] = "none" /\ fd' = fd /\ pc' = [pc EXCEPT ![c] = "backlog"]
    BY <1>1 DEF client_connect, fdVars
  <2>2. QED
    BY <2>1, <1>t, StagesMoved DEF MayHave
<1>2. ASSUME NEW c \in Client, NEW k \in Chunk, client_send(c, k)
      PROVE  Stages'
  BY <1>2, StagesKept DEF client_send, fdVars
<1>3. ASSUME NEW c \in Client, client_shut(c)
      PROVE  Stages'
  BY <1>3, StagesKept DEF client_shut, fdVars
<1>4. ASSUME NEW c \in Client, accept_socket(c)
      PROVE  Stages'
  <2>1. /\ pc[c] = "backlog" /\ pc' = [pc EXCEPT ![c] = "accepted"] /\ Opening(c, "socket")
    BY <1>4 DEF accept_socket
  <2>2. "socket" \in Kind
    BY DEF Kind
  <2>3. \A d \in Client, k \in Kind : <<d, k>> # <<c, "socket">> => fd'[d][k] = fd[d][k]
    BY <2>1, <2>2, <1>t DEF Opening
  <2>4. QED
    BY <2>1, <2>3, <1>t DEF MayHave, ClientKind, BaseKind, Kind
<1>5. ASSUME NEW c \in Client, accept_epoll(c)
      PROVE  Stages'
  <2>1. /\ pc[c] = "accepted" /\ pc' = [pc EXCEPT ![c] = "epolled"] /\ Opening(c, "epoll")
    BY <1>5 DEF accept_epoll
  <2>2. "epoll" \in Kind
    BY DEF Kind
  <2>3. \A d \in Client, k \in Kind : <<d, k>> # <<c, "epoll">> => fd'[d][k] = fd[d][k]
    BY <2>1, <2>2, <1>t DEF Opening
  <2>4. QED
    BY <2>1, <2>3, <1>t DEF MayHave, ClientKind, BaseKind, Kind
<1>6. ASSUME NEW c \in Client, accept_pair(c)
      PROVE  Stages'
  <2>1. /\ pc[c] = "epolled" /\ pc' = [pc EXCEPT ![c] = "based"]
    BY <1>6 DEF accept_pair
  <2>2. \A d \in Client, k \in Kind :
           <<d, k>> \notin {<<c, "pair0">>, <<c, "pair1">>} => fd'[d][k] = fd[d][k]
    <3>1. PICK first, second \in Fd :
             fd' = [fd EXCEPT ![c] = [@ EXCEPT !["pair0"] = first, !["pair1"] = second]]
      BY <1>6, PairOpened
    <3>2. QED
      BY <3>1, <1>t DEF Kind
  <2>3. QED
    BY <2>1, <2>2, <1>t DEF MayHave, ClientKind, BaseKind, Kind
<1>7. ASSUME NEW c \in Client, accept_exit(c)
      PROVE  Stages'
  BY <1>7, StagesKept DEF accept_exit, fdVars
<1>8. ASSUME NEW c \in Client, accept_fail(c)
      PROVE  Stages'
  <2>1. /\ pc[c] \in {"accepted", "epolled", "based", "poll"}
        /\ pc' = [pc EXCEPT ![c] = "closed"] /\ fd' = NumbersWithout(c, ClientKind)
    BY <1>8 DEF accept_fail, Accepting, closeAndFreeClient
  <2>2. fd[c]["mysql"] = NoFd
    BY <2>1 DEF MayHave, ClientKind, BaseKind, Kind
  <2>3. \A d \in Client, k \in Kind :
           fd'[d][k] = IF d = c /\ k \in ClientKind THEN NoFd ELSE fd[d][k]
    BY <2>1, <1>t, NumbersAre
  <2>4. QED
    BY <2>1, <2>2, <2>3, <1>t DEF MayHave, ClientKind, BaseKind, Kind
<1>9. ASSUME NEW c \in Client, accept_submit(c)
      PROVE  Stages'
  <2>1. pc[c] = "based" /\ fd' = fd /\ pc' = [pc EXCEPT ![c] = "queued"]
    BY <1>9 DEF accept_submit
  <2>2. QED
    BY <2>1, <1>t, StagesMoved DEF MayHave
<1>10. ASSUME NEW c \in Client, loop_dispatch(c)
      PROVE  Stages'
  <2>1. pc[c] = "poll" /\ fd' = fd /\ pc' = [pc EXCEPT ![c] = "process"]
    BY <1>10 DEF loop_dispatch, fdVars
  <2>2. QED
    BY <2>1, <1>t, StagesMoved DEF MayHave
<1>11. ASSUME NEW c \in Client, loop_again(c)
      PROVE  Stages'
  <2>1. pc[c] = "process" /\ fd' = fd /\ pc' = [pc EXCEPT ![c] = "poll"]
    BY <1>11 DEF loop_again, fdVars
  <2>2. QED
    BY <2>1, <1>t, StagesMoved DEF MayHave
<1>12. ASSUME NEW c \in Client, loop_end(c)
      PROVE  Stages'
  <2>1. /\ pc[c] \in {"accepted", "epolled", "based", "poll"}
        /\ pc' = [pc EXCEPT ![c] = "closed"] /\ fd' = NumbersWithout(c, ClientKind)
    BY <1>12 DEF loop_end, closeAndFreeClient
  <2>2. fd[c]["mysql"] = NoFd
    BY <2>1 DEF MayHave, ClientKind, BaseKind, Kind
  <2>3. \A d \in Client, k \in Kind :
           fd'[d][k] = IF d = c /\ k \in ClientKind THEN NoFd ELSE fd[d][k]
    BY <2>1, <1>t, NumbersAre
  <2>4. QED
    BY <2>1, <2>2, <2>3, <1>t DEF MayHave, ClientKind, BaseKind, Kind
<1>13. ASSUME NEW c \in Client, read_data(c)
      PROVE  Stages'
  <2>1. /\ pc[c] = "process" /\ fd' = fd
        /\ \E p \in {"reply", "connect"} : pc' = [pc EXCEPT ![c] = p]
    BY <1>13 DEF read_data, Processing, fdVars
  <2>2. QED
    BY <2>1, <1>t, StagesMoved DEF MayHave
<1>14. ASSUME NEW c \in Client, read_reply(c)
      PROVE  Stages'
  <2>1. pc[c] = "reply" /\ fd' = fd /\ pc' = [pc EXCEPT ![c] = "process"]
    BY <1>14 DEF read_reply, fdVars
  <2>2. QED
    BY <2>1, <1>t, StagesMoved DEF MayHave
<1>15. ASSUME NEW c \in Client, read_eof(c)
      PROVE  Stages'
  <2>1. pc' = pc /\ fd' = NumbersWithout(c, {"socket"})
    BY <1>15 DEF read_eof, closeClient
  <2>2. QED
    BY <2>1, <1>t, NumbersAre
<1>16. ASSUME NEW c \in Client, read_timeout(c)
      PROVE  Stages'
  <2>1. pc' = pc /\ fd' = NumbersWithout(c, {"socket"})
    BY <1>16 DEF read_timeout, closeClient
  <2>2. QED
    BY <2>1, <1>t, NumbersAre
<1>17. ASSUME NEW c \in Client, db_connect(c)
      PROVE  Stages'
  <2>1. /\ pc[c] = "connect" /\ pc' = [pc EXCEPT ![c] = "query"] /\ Opening(c, "mysql")
    BY <1>17 DEF db_connect
  <2>2. "mysql" \in Kind
    BY DEF Kind
  <2>3. \A d \in Client, k \in Kind : <<d, k>> # <<c, "mysql">> => fd'[d][k] = fd[d][k]
    BY <2>1, <2>2, <1>t DEF Opening
  <2>4. QED
    BY <2>1, <2>3, <1>t DEF MayHave, ClientKind, BaseKind, Kind
<1>18. ASSUME NEW c \in Client, db_fail(c)
      PROVE  Stages'
  BY <1>18, StagesKept DEF db_fail, fdVars
<1>19. ASSUME NEW c \in Client, db_query(c)
      PROVE  Stages'
  <2>1. /\ pc[c] = "query" /\ pc' = [pc EXCEPT ![c] = "reply"]
        /\ fd' = NumbersWithout(c, {"mysql"})
    BY <1>19 DEF db_query
  <2>2. \A d \in Client, k \in Kind :
           fd'[d][k] = IF d = c /\ k = "mysql" THEN NoFd ELSE fd[d][k]
    BY <2>1, <1>t, NumbersAre
  <2>3. QED
    BY <2>1, <2>2, <1>t DEF MayHave, ClientKind, BaseKind, Kind
<1>20. ASSUME NEW c \in Client, json_throw(c)
      PROVE  Stages'
  BY <1>20, StagesKept DEF json_throw, fdVars
<1>21. ASSUME NEW c \in Client, write_sent(c)
      PROVE  Stages'
  BY <1>21, StagesKept DEF write_sent, Processing, fdVars
<1>22. ASSUME NEW c \in Client, write_error(c)
      PROVE  Stages'
  <2>1. pc' = pc /\ fd' = NumbersWithout(c, {"socket"})
    BY <1>22 DEF write_error, closeClient
  <2>2. QED
    BY <2>1, <1>t, NumbersAre
<1>23. ASSUME NEW c \in Client, write_timeout(c)
      PROVE  Stages'
  <2>1. pc' = pc /\ fd' = NumbersWithout(c, {"socket"})
    BY <1>23 DEF write_timeout, closeClient
  <2>2. QED
    BY <2>1, <1>t, NumbersAre
<1>24. ASSUME job_start
      PROVE  Stages'
  <2>1. Head(stack) \in Client /\ pc[Head(stack)] = "queued"
    BY <1>24, <1>t, Queue!PopElements DEF job_start, Queue!Start, JobsAgree
  <2>2. fd' = fd /\ pc' = [pc EXCEPT ![Head(stack)] = "poll"]
    BY <1>24 DEF job_start, fdVars
  <2>3. QED
    BY <2>1, <2>2, <1>t, StagesMoved DEF MayHave
<1>25. ASSUME killServer
      PROVE  Stages'
  BY <1>25, StagesKept DEF killServer, fdVars
<1>26. ASSUME main_return
      PROVE  Stages'
  BY <1>26, StagesKept DEF main_return, fdVars
<1>27. ASSUME UNCHANGED vars
      PROVE  Stages'
  BY <1>27, StagesKept DEF vars, fdVars
<1>28. QED
  BY NextCases, <1>1, <1>2, <1>3, <1>4, <1>5, <1>6, <1>7, <1>8, <1>9, <1>10,
     <1>11, <1>12, <1>13, <1>14, <1>15, <1>16, <1>17, <1>18, <1>19, <1>20,
     <1>21, <1>22, <1>23, <1>24, <1>25, <1>26, <1>27

(* What leaves the files and the descriptors alone keeps who owns them.    *)
LEMMA OwnedKept ==
    ASSUME DescriptorsOwned, UNCHANGED <<files, fd>>
    PROVE  DescriptorsOwned'
  BY DEF DescriptorsOwned

(* A number that was free is nobody's, and becomes the opener's.           *)
LEMMA OwnedOpen ==
    ASSUME TypeOK, DescriptorsOwned, NEW c \in Client, NEW k \in Kind,
           fd[c][k] = NoFd, Opening(c, k)
    PROVE  DescriptorsOwned'
<1> DEFINE low == Lowest(FreeFds)
<1>1. /\ low \in Fd /\ files[low] = FREE
      /\ files' = [files EXCEPT ![low] = <<k, c>>] /\ fd' = [fd EXCEPT ![c][k] = low]
  BY LowestIsFree DEF Opening
<1> HIDE DEF low
<1> SUFFICES ASSUME NEW n \in Fd, NEW d \in Client, NEW j \in Kind
             PROVE  fd'[d][j] = n <=> files'[n] = <<j, d>>
  BY DEF DescriptorsOwned
<1>2. /\ files'[n] = IF n = low THEN <<k, c>> ELSE files[n]
      /\ fd'[d][j] = IF d = c /\ j = k THEN low ELSE fd[d][j]
  BY <1>1 DEF TypeOK
<1>3. /\ fd[d][j] = n <=> files[n] = <<j, d>>
      /\ fd[d][j] = low <=> files[low] = <<j, d>>
  BY <1>1 DEF DescriptorsOwned
<1>4. <<j, d>> \in Kind \X Client /\ FREE # <<j, d>> /\ n # NoFd
  BY FreeAssumption DEF Fd, NoFd
<1>5. QED
  BY <1>1, <1>2, <1>3, <1>4

(* evsig_init opens two at once.                                           *)
LEMMA OwnedPair ==
    ASSUME Inv, NEW c \in Client, accept_pair(c)
    PROVE  DescriptorsOwned'
<1>1. PICK first, second \in Fd :
         /\ first # second
         /\ files[first] = FREE /\ files[second] = FREE
         /\ files' = [files EXCEPT ![first] = <<"pair0", c>>, ![second] = <<"pair1", c>>]
         /\ fd' = [fd EXCEPT ![c] = [@ EXCEPT !["pair0"] = first, !["pair1"] = second]]
  BY PairOpened
<1>2. /\ fd[c]["pair0"] = NoFd /\ fd[c]["pair1"] = NoFd
      /\ "pair0" \in Kind /\ "pair1" \in Kind
  BY DEF Inv, Stages, MayHave, ClientKind, BaseKind, Kind, accept_pair
<1> SUFFICES ASSUME NEW n \in Fd, NEW d \in Client, NEW j \in Kind
             PROVE  fd'[d][j] = n <=> files'[n] = <<j, d>>
  BY DEF DescriptorsOwned
<1>t. /\ files \in [Fd -> {FREE} \cup Kind \X Client]
      /\ fd \in [Client -> [Kind -> {NoFd} \cup Fd]]
  BY DEF Inv, TypeOK
<1>3. /\ files'[n] = IF n = second THEN <<"pair1", c>>
                     ELSE IF n = first THEN <<"pair0", c>> ELSE files[n]
      /\ fd'[d][j] = IF d = c /\ j = "pair0" THEN first
                     ELSE IF d = c /\ j = "pair1" THEN second ELSE fd[d][j]
  <2>1. files'[n] = IF n = second THEN <<"pair1", c>>
                    ELSE IF n = first THEN <<"pair0", c>> ELSE files[n]
    BY <1>1, <1>t
  <2>2. CASE d = c
    BY <1>1, <1>2, <1>t, <2>1, <2>2
  <2>3. CASE d # c
    BY <1>1, <1>t, <2>1, <2>3
  <2>4. QED
    BY <2>2, <2>3
<1>4. \A m \in Fd : fd[d][j] = m <=> files[m] = <<j, d>>
  BY DEF Inv, DescriptorsOwned
<1>5. <<j, d>> \in Kind \X Client /\ FREE # <<j, d>> /\ n # NoFd
  BY FreeAssumption DEF Fd, NoFd
<1>e. /\ <<"pair0", c>> = <<j, d>> <=> j = "pair0" /\ d = c
      /\ <<"pair1", c>> = <<j, d>> <=> j = "pair1" /\ d = c
  OBVIOUS
<1>f. fd[d][j] # first /\ fd[d][j] # second
  BY <1>1, <1>4, <1>5
<1>6. CASE n = first
  <2>1. files'[n] = <<"pair0", c>>
    BY <1>1, <1>3, <1>6
  <2>2. fd'[d][j] = n <=> j = "pair0" /\ d = c
    BY <1>1, <1>3, <1>6, <1>f
  <2>3. QED
    BY <1>e, <2>1, <2>2
<1>7. CASE n = second
  <2>1. files'[n] = <<"pair1", c>>
    BY <1>3, <1>7
  <2>2. fd'[d][j] = n <=> j = "pair1" /\ d = c
    BY <1>1, <1>3, <1>7, <1>f
  <2>3. QED
    BY <1>e, <2>1, <2>2
<1>8. CASE n \notin {first, second}
  <2>1. files'[n] = files[n]
    BY <1>3, <1>8
  <2>2. CASE d = c /\ j \in {"pair0", "pair1"}
    <3>1. fd[d][j] = NoFd /\ fd'[d][j] # n
      BY <1>2, <1>3, <1>8, <2>2
    <3>2. QED
      BY <1>4, <1>5, <2>1, <3>1
  <2>3. CASE ~(d = c /\ j \in {"pair0", "pair1"})
    BY <1>3, <1>4, <2>1, <2>3
  <2>4. QED
    BY <2>2, <2>3
<1>9. QED
  BY <1>6, <1>7, <1>8

(* A closed number was its owner's and is nobody's afterwards.             *)
LEMMA OwnedClose ==
    ASSUME TypeOK, DescriptorsOwned, NEW c \in Client, NEW K \in SUBSET Kind,
           files' = FilesWithout(c, K), fd' = NumbersWithout(c, K)
    PROVE  DescriptorsOwned'
<1> SUFFICES ASSUME NEW n \in Fd, NEW d \in Client, NEW j \in Kind
             PROVE  fd'[d][j] = n <=> files'[n] = <<j, d>>
  BY DEF DescriptorsOwned
<1>1. files'[n] = IF \E k \in K : fd[c][k] = n THEN FREE ELSE files[n]
  BY DEF FilesWithout
<1>2. fd'[d][j] = IF d = c /\ j \in K THEN NoFd ELSE fd[d][j]
  BY NumbersAre DEF TypeOK
<1>3. fd[d][j] = n <=> files[n] = <<j, d>>
  BY DEF DescriptorsOwned
<1>4. \A k \in K : fd[c][k] = n <=> files[n] = <<k, c>>
  BY DEF DescriptorsOwned
<1>5. <<j, d>> \in Kind \X Client /\ FREE # <<j, d>> /\ n # NoFd
  BY FreeAssumption DEF Fd, NoFd
<1>6. QED
  BY <1>1, <1>2, <1>3, <1>4, <1>5

(* A new number was free, so nobody else has it; a closed one was its      *)
(* owner's.                                                                *)
LEMMA OwnedStep ==
    ASSUME Inv, [Next]_vars
    PROVE  DescriptorsOwned'
<1> USE DEF Inv
<1>1. ASSUME NEW c \in Client, client_connect(c)
      PROVE  DescriptorsOwned'
  BY <1>1, OwnedKept DEF client_connect, fdVars
<1>2. ASSUME NEW c \in Client, NEW k \in Chunk, client_send(c, k)
      PROVE  DescriptorsOwned'
  BY <1>2, OwnedKept DEF client_send, fdVars
<1>3. ASSUME NEW c \in Client, client_shut(c)
      PROVE  DescriptorsOwned'
  BY <1>3, OwnedKept DEF client_shut, fdVars
<1>4. ASSUME NEW c \in Client, accept_socket(c)
      PROVE  DescriptorsOwned'
  <2>1. pc[c] = "backlog" /\ Opening(c, "socket")
    BY <1>4 DEF accept_socket
  <2>2. "socket" \in Kind /\ fd[c]["socket"] = NoFd
    BY <2>1 DEF Stages, MayHave, ClientKind, BaseKind, Kind
  <2>3. QED
    BY <2>1, <2>2, OwnedOpen
<1>5. ASSUME NEW c \in Client, accept_epoll(c)
      PROVE  DescriptorsOwned'
  <2>1. pc[c] = "accepted" /\ Opening(c, "epoll")
    BY <1>5 DEF accept_epoll
  <2>2. "epoll" \in Kind /\ fd[c]["epoll"] = NoFd
    BY <2>1 DEF Stages, MayHave, ClientKind, BaseKind, Kind
  <2>3. QED
    BY <2>1, <2>2, OwnedOpen
<1>6. ASSUME NEW c \in Client, accept_pair(c)
      PROVE  DescriptorsOwned'
  BY <1>6, OwnedPair
<1>7. ASSUME NEW c \in Client, accept_exit(c)
      PROVE  DescriptorsOwned'
  BY <1>7, OwnedKept DEF accept_exit, fdVars
<1>8. ASSUME NEW c \in Client, accept_fail(c)
      PROVE  DescriptorsOwned'
  <2>1. /\ files' = FilesWithout(c, ClientKind) /\ fd' = NumbersWithout(c, ClientKind)
        /\ ClientKind \in SUBSET Kind
    BY <1>8 DEF accept_fail, closeAndFreeClient, ClientKind, BaseKind, Kind
  <2>2. QED
    BY <2>1, OwnedClose
<1>9. ASSUME NEW c \in Client, accept_submit(c)
      PROVE  DescriptorsOwned'
  BY <1>9, OwnedKept DEF accept_submit, fdVars
<1>10. ASSUME NEW c \in Client, loop_dispatch(c)
      PROVE  DescriptorsOwned'
  BY <1>10, OwnedKept DEF loop_dispatch, fdVars
<1>11. ASSUME NEW c \in Client, loop_again(c)
      PROVE  DescriptorsOwned'
  BY <1>11, OwnedKept DEF loop_again, fdVars
<1>12. ASSUME NEW c \in Client, loop_end(c)
      PROVE  DescriptorsOwned'
  <2>1. /\ files' = FilesWithout(c, ClientKind) /\ fd' = NumbersWithout(c, ClientKind)
        /\ ClientKind \in SUBSET Kind
    BY <1>12 DEF loop_end, closeAndFreeClient, ClientKind, BaseKind, Kind
  <2>2. QED
    BY <2>1, OwnedClose
<1>13. ASSUME NEW c \in Client, read_data(c)
      PROVE  DescriptorsOwned'
  BY <1>13, OwnedKept DEF read_data, fdVars
<1>14. ASSUME NEW c \in Client, read_reply(c)
      PROVE  DescriptorsOwned'
  BY <1>14, OwnedKept DEF read_reply, fdVars
<1>15. ASSUME NEW c \in Client, read_eof(c)
      PROVE  DescriptorsOwned'
  <2>1. /\ files' = FilesWithout(c, {"socket"}) /\ fd' = NumbersWithout(c, {"socket"})
        /\ {"socket"} \in SUBSET Kind
    BY <1>15 DEF read_eof, closeClient, Kind
  <2>2. QED
    BY <2>1, OwnedClose
<1>16. ASSUME NEW c \in Client, read_timeout(c)
      PROVE  DescriptorsOwned'
  <2>1. /\ files' = FilesWithout(c, {"socket"}) /\ fd' = NumbersWithout(c, {"socket"})
        /\ {"socket"} \in SUBSET Kind
    BY <1>16 DEF read_timeout, closeClient, Kind
  <2>2. QED
    BY <2>1, OwnedClose
<1>17. ASSUME NEW c \in Client, db_connect(c)
      PROVE  DescriptorsOwned'
  <2>1. pc[c] = "connect" /\ Opening(c, "mysql")
    BY <1>17 DEF db_connect
  <2>2. "mysql" \in Kind /\ fd[c]["mysql"] = NoFd
    BY <2>1 DEF Stages, MayHave, ClientKind, BaseKind, Kind
  <2>3. QED
    BY <2>1, <2>2, OwnedOpen
<1>18. ASSUME NEW c \in Client, db_fail(c)
      PROVE  DescriptorsOwned'
  BY <1>18, OwnedKept DEF db_fail, fdVars
<1>19. ASSUME NEW c \in Client, db_query(c)
      PROVE  DescriptorsOwned'
  <2>1. /\ files' = FilesWithout(c, {"mysql"}) /\ fd' = NumbersWithout(c, {"mysql"})
        /\ {"mysql"} \in SUBSET Kind
    BY <1>19 DEF db_query, Kind
  <2>2. QED
    BY <2>1, OwnedClose
<1>20. ASSUME NEW c \in Client, json_throw(c)
      PROVE  DescriptorsOwned'
  BY <1>20, OwnedKept DEF json_throw, fdVars
<1>21. ASSUME NEW c \in Client, write_sent(c)
      PROVE  DescriptorsOwned'
  BY <1>21, OwnedKept DEF write_sent, fdVars
<1>22. ASSUME NEW c \in Client, write_error(c)
      PROVE  DescriptorsOwned'
  <2>1. /\ files' = FilesWithout(c, {"socket"}) /\ fd' = NumbersWithout(c, {"socket"})
        /\ {"socket"} \in SUBSET Kind
    BY <1>22 DEF write_error, closeClient, Kind
  <2>2. QED
    BY <2>1, OwnedClose
<1>23. ASSUME NEW c \in Client, write_timeout(c)
      PROVE  DescriptorsOwned'
  <2>1. /\ files' = FilesWithout(c, {"socket"}) /\ fd' = NumbersWithout(c, {"socket"})
        /\ {"socket"} \in SUBSET Kind
    BY <1>23 DEF write_timeout, closeClient, Kind
  <2>2. QED
    BY <2>1, OwnedClose
<1>24. ASSUME job_start
      PROVE  DescriptorsOwned'
  BY <1>24, OwnedKept DEF job_start, fdVars
<1>25. ASSUME killServer
      PROVE  DescriptorsOwned'
  BY <1>25, OwnedKept DEF killServer, fdVars
<1>26. ASSUME main_return
      PROVE  DescriptorsOwned'
  BY <1>26, OwnedKept DEF main_return, fdVars
<1>27. ASSUME UNCHANGED vars
      PROVE  DescriptorsOwned'
  BY <1>27, OwnedKept DEF vars, fdVars
<1>28. QED
  BY NextCases, <1>1, <1>2, <1>3, <1>4, <1>5, <1>6, <1>7, <1>8, <1>9, <1>10,
     <1>11, <1>12, <1>13, <1>14, <1>15, <1>16, <1>17, <1>18, <1>19, <1>20,
     <1>21, <1>22, <1>23, <1>24, <1>25, <1>26, <1>27

-----------------------------------------------------------------------------
(* The theorems                                                            *)

(* The inductive invariant is one.                                         *)
THEOREM Invariance == Spec => []Inv
<1>1. Init => Inv
  BY TypeInit
<1>2. Inv /\ [Next]_vars => Inv'
  BY TypeStep, JobsStep, StagesStep, OwnedStep DEF Inv
<1>3. QED
  BY <1>1, <1>2, PTL DEF Spec

(* Every variable of a connection has its type: in particular every number *)
(* kept, the copy in the events included, is one of the table or none, and *)
(* no event is active twice although its timer may elapse while its        *)
(* descriptor is ready (server_threaded.c:60-160; event.c:2512-2544).      *)
THEOREM TypeCorrect == Spec => []TypeOK
<1>1. Inv => TypeOK
  BY DEF Inv
<1>2. QED
  BY <1>1, Invariance, PTL

(* Whatever the workers, the clients and a shutdown do and whoever reuses  *)
(* a number: client->fd, the epoll descriptor and the signal pair of the   *)
(* event base and the database connection stand for the files of their own *)
(* client, and no open file is without its owner.  So a close through one  *)
(* of them never hits another's file, and no file is lost.  The copy of    *)
(* the number in the events is not meant: RepliesToOwnClient shows that it *)
(* may stand for another client's socket (server_threaded.c:31-57,         *)
(* 189-253; epoll.c:455-474; signal.c:421-428).                            *)
THEOREM DescriptorsAreOwned == Spec => []DescriptorsOwned
<1>1. Inv => DescriptorsOwned
  BY DEF Inv
<1>2. QED
  BY <1>1, Invariance, PTL

(* A connection that is over, at whichever point on_accept gave it up or   *)
(* when its job ended, has left no socket, epoll descriptor, signal pair   *)
(* or database connection open (server_threaded.c:40-57, 154-160, 189-253; *)
(* signal.c:421-428).                                                      *)
THEOREM ClosedIsReleased == Spec => []ClosedMeansReleased
<1>1. Inv => ClosedMeansReleased
  <2>1. SUFFICES ASSUME Inv, NEW c \in Client, pc[c] = "closed", NEW n \in Fd, NEW k \in Kind
                 PROVE  files[n] # <<k, c>>
    BY DEF ClosedMeansReleased
  <2>2. fd[c][k] = NoFd /\ n # NoFd
    BY <2>1 DEF Inv, Stages, MayHave, Fd, NoFd
  <2>3. QED
    BY <2>1, <2>2 DEF Inv, DescriptorsOwned
<1>2. QED
  BY <1>1, Invariance, PTL

(* A connection is served exactly while its job runs, and the client of a  *)
(* job that a shutdown dropped is never served (workqueue.c:101-117).      *)
THEOREM JobsFollowConnections == Spec => []JobsAgree
<1>1. Inv => JobsAgree
  BY DEF Inv
<1>2. QED
  BY <1>1, Invariance, PTL

(* Connection uses the work queue as JobStack says: each of its steps is   *)
(* one of JobStack, or none (server_threaded.c:157, 252, 365).             *)
THEOREM UsesTheQueue == Spec => Queue!JSSpec
<1>1. Init => Queue!JSInit
  BY DEF Init
<1>2. Inv /\ [Next]_vars => [Queue!JSNext]_(Queue!jsvars)
  <2> SUFFICES ASSUME Inv, [Next]_vars PROVE [Queue!JSNext]_(Queue!jsvars)
    OBVIOUS
  <2> USE DEF Queue!jsvars, Queue!JSNext, queueVars
  <2>1. ASSUME NEW c \in Client, client_step(c) PROVE UNCHANGED Queue!jsvars
    BY <2>1 DEF client_step, client_connect, client_send, client_shut
  <2>2. ASSUME NEW c \in Client, accept_submit(c) PROVE Queue!JSNext
    BY <2>2 DEF accept_submit
  <2>3. ASSUME NEW c \in Client, \/ accept_socket(c) \/ accept_epoll(c) \/ accept_pair(c)
                                   \/ accept_exit(c) \/ accept_fail(c)
        PROVE  UNCHANGED Queue!jsvars
    BY <2>3 DEF accept_socket, accept_epoll, accept_pair, accept_exit, accept_fail
  <2>4. ASSUME NEW c \in Client, loop_end(c) PROVE Queue!JSNext
    BY <2>4 DEF loop_end
  <2>5. ASSUME NEW c \in Client, job_step(c), ~loop_end(c) PROVE UNCHANGED Queue!jsvars
    BY <2>5 DEF job_step, loop_dispatch, loop_again, read_data, read_reply,
       read_eof,
                read_timeout, db_connect, db_fail, db_query, json_throw, write_sent,
                write_error, write_timeout
  <2>6. ASSUME job_start PROVE Queue!JSNext
    BY <2>6 DEF job_start
  <2>7. ASSUME killServer PROVE Queue!JSNext
    BY <2>7 DEF killServer
  <2>8. ASSUME main_return \/ UNCHANGED vars PROVE UNCHANGED Queue!jsvars
    BY <2>8 DEF main_return, vars
  <2>9. QED
    BY <2>1, <2>2, <2>3, <2>4, <2>5, <2>6, <2>7, <2>8 DEF Next, accept_step
<1>3. QED
  BY <1>1, <1>2, Invariance, PTL DEF Spec, Queue!JSSpec

=============================================================================
