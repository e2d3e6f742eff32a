----------------------------- MODULE HttpClient -----------------------------
(* A client's connection of http.c: the user makes, cancels and keeps        *)
(* requests, in and out of callbacks; connecting fails, times out and is     *)
(* retried; the server answers in any pieces, closes, or says what nobody    *)
(* asked.                                                                    *)
EXTENDS Http

CONSTANTS Outcomes,  \* how connecting may begin: pending, error, bind, port
          Does,      \* what the user does: cancel, free, own, chunk, inside
          OwnIn,     \* the callbacks that keep their request
          Faults,    \* what goes wrong: timeout (of connecting), stray
          Answers    \* the answers of the server, of 1 .. 5

Init == h = ConnectionNew(FALSE)
-----------------------------------------------------------------------------
(* evhttp_connection_connect *)
Connecting(x) ==
    [Reset(x) EXCEPT !.fd = TRUE, !.peer = "open", !.cbs = "connect", !.wr = TRUE,
                     !.state = "connecting"]
Without(queue, q) == SelectSeq(queue, LAMBDA p : p # q)
ConnectAs(x, q, outcome) ==
    CASE outcome = "bind" -> [Reset(x) EXCEPT !.queue = Without(@, q)]
      [] outcome = "port" -> Cleanup([Connecting(x) EXCEPT !.state = x.state])
      [] outcome = "error" -> ErrorCb(Connecting(x), "error", "none")
      [] OTHER -> [Connecting(x) EXCEPT !.conn = TRUE]
Connect ==
    /\ Calling("connect")
    /\ \/ h.state = "connecting" /\ Do(Pop(h))
       \/ h.state # "connecting" /\ \E o \in Outcomes : Do(ConnectAs(Pop(h), Top.q, o))

ConnectOk ==
    /\ Running /\ h.conn
    /\ Do(ConnectedCb([h EXCEPT !.conn = FALSE]))
ConnectFails ==
    /\ Running /\ h.conn
    /\ \E refused \in BOOLEAN :
          Do(IF refused THEN Cleanup([h EXCEPT !.conn = FALSE])
             ELSE ErrorCb([h EXCEPT !.conn = FALSE], "error", "none"))
(* The write event stays: the connection may still be made, or time out again*)
ConnectTimeout ==
    Running /\ h.conn /\ "timeout" \in Faults /\ Do(ErrorCb([h EXCEPT !.wr = FALSE], "timeout", "write"))
(* evhttp_connection_retry *)
Retry ==
    /\ Running /\ h.retry = "timer"
    /\ Do(ConnectFrame([h EXCEPT !.retry = "none", !.state = "disconnected"], 0))

(* The rest of evhttp_connection_cb_cleanup. *)
CleanupRest ==
    /\ Calling("cleanup")
    /\ Do(IF Top.qs = <<>> THEN Pop(h)
          ELSE Ask(Push(Push([Pop(h) EXCEPT !.req[Head(Top.qs)].con = FALSE],
                             [f |-> "cleanup", qs |-> Tail(Top.qs)]),
                        [f |-> "free", q |-> Head(Top.qs)]), Head(Top.qs), "cleanup"))
CleanupFree == Calling("free") /\ Do(RequestFree(Pop(h), Top.q))
-----------------------------------------------------------------------------
(* The user, in a callback or not. *)
Users == \/ Running
         \/ Calling("user") /\ ~h.gone /\ "inside" \in Does

Made(q, type, chunkcb) ==
    [h EXCEPT !.req[q] = [RequestNew EXCEPT !.live = "live", !.kind = "request", !.type = type,
                                            !.minor = 1, !.con = TRUE, !.chunkcb = chunkcb],
              !.queue = Append(@, q)]
Begin(x, q) ==
    CASE ~Connected(x) -> ConnectFrame(x, q)
      [] Connected(x) /\ Head(x.queue) = q -> Dispatch(x)
      [] OTHER -> x
MakeRequest ==
    /\ Users /\ Unused(h) # {}
    /\ LET q == CHOOSE q \in Unused(h) : \A p \in Unused(h) : q <= p
       IN \E type \in {"GET", "HEAD"}, chunkcb \in {FALSE, "chunk" \in Does} :
             Do(Begin(Made(q, type, chunkcb), q))

(* evhttp_cancel_request: of a request that is on no queue, TAILQ_REMOVE     *)
(* spoils the queue.                                                         *)
Cancelled(x, q) ==
    CASE x.queue # <<>> /\ Head(x.queue) = q -> ConnectionFail(x, "cancel")
      [] q \in {x.queue[i] : i \in DOMAIN x.queue} /\ Head(x.queue) # q ->
            RequestFree([x EXCEPT !.queue = Without(@, q)], q)
      [] OTHER -> Fails(RequestFree(x, q), "cancel: removed from a queue it is not on")
Cancel ==
    /\ Users /\ "cancel" \in Does
    /\ \E q \in Ids : /\ h.req[q].live = "live" /\ h.req[q].con /\ h.req[q].told = 0
                      /\ Do(Cancelled([h EXCEPT !.req[q].told = 10], q))
Frees == /\ Users /\ "free" \in Does
         /\ \A i \in DOMAIN h.todo : h.todo[i].f \notin {"chunkRest", "bodyRest"}
         /\ Do(ConnectionFree(h))
(* evhttp_request_own, and evhttp_request_free of what is owned.             *)
Owns == /\ Calling("user") /\ Top.why \in OwnIn /\ "own" \in Does
        /\ h.req[Top.q].live = "live" /\ ~h.req[Top.q].owned
        /\ h' = [h EXCEPT !.req[Top.q].owned = TRUE, !.req[Top.q].held = "yes"]
FreesOwned == /\ h.todo = <<>> /\ h.err = "none"
              /\ \E q \in Ids : h.req[q].held = "yes" /\ Do(RequestFree([h EXCEPT !.req[q].held = "no"], q))
-----------------------------------------------------------------------------
(* The server: it answers the requests that reached it in their order.       *)
Status(minor, code, q) == [k |-> "status", minor |-> minor, code |-> code, tag |-> q]
Hdr(name, value) == [k |-> "hdr", h |-> name, v |-> value]
End == [k |-> "end"]
Byte == [k |-> "byte"]
Size(n) == [k |-> "size", n |-> n]
Answer(a, q) ==
    CASE a = 1 -> <<Status(1, 200, q), Hdr("cl", 1), End, Byte>>
      [] a = 2 -> <<Status(1, 200, q), Hdr("te", TRUE), End, Size(1), Byte, End, Size(0), End>>
      [] a = 3 -> <<Status(1, 204, q), End>>
      [] a = 4 -> <<Status(1, 200, q), Hdr("conn", "close"), End, Byte>>
      [] OTHER -> <<Status(1, 100, q), End, Status(1, 200, q), Hdr("cl", 0), End>>
(* No bytes follow the answer to a HEAD.                                     *)
Sent(a, q) == IF h.req[q].type = "HEAD" THEN SelectSeq(Answer(a, q), LAMBDA p : p.k \in {"status", "hdr"}) \o <<End>>
              ELSE Answer(a, q)
ServerAnswers ==
    /\ Running /\ h.fd /\ h.peer = "open" /\ h.asked # <<>>
    /\ \E a \in Answers : h' = [h EXCEPT !.asked = Tail(@), !.net = @ \o Sent(a, Head(h.asked))]
ServerSays ==
    /\ Running /\ h.fd /\ h.peer = "open" /\ ~h.conn /\ "stray" \in Faults /\ h.net = <<>>
    /\ h' = [h EXCEPT !.net = <<Byte>>]

Loop == DeferredRead \/ Deliver \/ Eof \/ ReadTimeout \/ Flush \/ WriteFails
Frames == Return \/ ChunkRest \/ BodyRest \/ DoneFree \/ Connect \/ CleanupRest \/ CleanupFree
Connects == ConnectOk \/ ConnectFails \/ ConnectTimeout \/ Retry
User == MakeRequest \/ Cancel \/ Frees \/ Owns \/ FreesOwned
Next == Loop \/ Frames \/ Connects \/ User \/ PeerCloses \/ ServerAnswers \/ ServerSays
Spec == Init /\ [][Next]_h
-----------------------------------------------------------------------------
(* evhttp_connection_fail, _done, _cb_cleanup: the callback of a request     *)
(* runs once, and never for a request that was cancelled.                    *)
ToldOnce == \A q \in Ids : h.req[q].told \in {0, 1, 10}
(* Nothing frees a request before its user is told, but the user who frees   *)
(* the connection.                                                           *)
NobodyLost == \A q \in Ids : h.req[q].live = "freed" => h.req[q].told # 0 \/ h.gone
(* The answer a request's callback sees was made to that request, and not to *)
(* one that was cancelled or failed before it on the same connection.        *)
RightAnswer ==
    \A i \in DOMAIN h.todo :
       h.todo[i].f = "user" /\ h.todo[i].why = "done" => h.req[h.todo[i].q].from = h.todo[i].q
(* While requests wait, something is on its way that goes on with them.      *)
Attended ==
    Running /\ h.queue # <<>> =>
       \/ h.conn \/ h.retry = "timer" \/ h.deferred
       \/ h.fd /\ (h.rd \/ (h.wr /\ h.out # <<>>))
(* A request goes out once when connecting is not retried, and only when it  *)
(* is the first that waits.                                                  *)
SentOnce == \A q \in Ids : h.req[q].sent <= 1
FirstOnly == \A i \in DOMAIN h.queue : i > 1 => h.req[h.queue[i]].sent = 0
(* The assertions of evhttp_request_dispatch and of the write callback hold. *)
Asserted == h.err \notin {"dispatch: not idle", "written: not writing"}
=============================================================================
