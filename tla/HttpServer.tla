----------------------------- MODULE HttpServer -----------------------------
(* A server's connection of http.c: a client sends requests one after the    *)
(* other, does not wait for answers, may stop reading, closes; the user      *)
(* answers in the callback or later, at once or piece by piece.              *)
EXTENDS Http

CONSTANTS MaxSent,   \* requests the client sends
          Requests,  \* which ones, of 1 .. 13
          Codes,     \* what the user answers
          Bodies,    \* the lengths of answers
          Streams,   \* the user may answer piece by piece
          MaxOut,    \* bounds of the runs: pieces that wait when a chunk is
          MaxWire    \* added, pieces written

VARIABLE sent        \* requests sent

vars == <<h, sent>>

(* evhttp_get_request_connection, evhttp_get_request *)
Accepted == [ConnectionNew(TRUE) EXCEPT !.state = "firstline", !.fd = TRUE, !.peer = "open"]
Init == h = Associate(Accepted) /\ sent = 0
-----------------------------------------------------------------------------
(* The user holds the request from the callback on until it is answered.     *)
Users == (h.todo = <<>> /\ h.err = "none") \/ Calling("user")
Holding(how) == {q \in Ids : h.req[q].held = how}
Put(x, pieces) == [x EXCEPT !.out = @ \o pieces]

SendReply == \E q \in Holding("yes"), code \in Codes, n \in Bodies :
                Users /\ Do(Send(ResponseCode(h, q, code), q, n))
SendsError == \E q \in Holding("yes") : Users /\ Do(SendError(h, q, 503))

(* evhttp_send_reply_start *)
ByChunks(r) == r.outh.cl = -1 /\ r.minor >= 1 /\ NeedsBody(r)
Started(x, q) ==
    WriteBuffer(MakeHeader([x EXCEPT !.req[q].chunked = ByChunks(x.req[q]),
                                     !.req[q].outh.te = ByChunks(x.req[q])], q), "none")
ReplyStart ==
    \E q \in Holding("yes"), code \in Codes :
       /\ Users /\ Streams
       /\ Do(IF h.req[q].con THEN Started([ResponseCode(h, q, code) EXCEPT !.req[q].held = "chunks"], q)
             ELSE Fails(h, "reply started without a connection"))
(* evhttp_send_reply_chunk of a byte. *)
ReplyChunk ==
    \E q \in Holding("chunks") :
       /\ Users /\ h.req[q].con /\ NeedsBody(h.req[q]) /\ Len(h.out) < MaxOut /\ Len(h.wire) < MaxWire
       /\ Do(WriteBuffer(Put(h, (IF h.req[q].chunked THEN <<[k |-> "size", n |-> 1]>> ELSE <<>>)
                                \o Data(1, q)), "none"))
(* Mutant of Ended: the reply is sent as if it had not been started.         *)
Mutant_end_sends(x, q) == Send(x, q, 0)

Ended(x, q) ==
    CASE x.req[q].chunked ->
            WriteBuffer(Put([x EXCEPT !.req[q].chunked = FALSE], <<[k |-> "size", n |-> 0]>>), "sendDone")
      [] ~x.req[q].chunked /\ x.out = <<>> -> SendDone(x)
      [] OTHER -> [x EXCEPT !.cb = "sendDone"]
ReplyEnd ==
    \E q \in Holding("chunks") :
       /\ Users
       /\ LET x == [h EXCEPT !.req[q].held = "no"]
          IN Do(IF x.req[q].con THEN Ended([x EXCEPT !.req[q].userdone = TRUE], q)
                ELSE RequestFree(x, q))
-----------------------------------------------------------------------------
(* The client. *)
Line(type, minor, q) == [k |-> "request", type |-> type, minor |-> minor, tag |-> q, proxy |-> FALSE]
Proxied(line) == [line EXCEPT !.proxy = TRUE]
Hdr(name, value) == [k |-> "hdr", h |-> name, v |-> value]
End == [k |-> "end"]
Byte == [k |-> "byte"]
Size(n) == [k |-> "size", n |-> n]
Request(a, q) ==
    CASE a = 1 -> <<Line("GET", 1, q), End>>
      [] a = 2 -> <<Line("POST", 1, q), Hdr("cl", 1), End, Byte>>
      [] a = 3 -> <<Line("POST", 1, q), Hdr("te", TRUE), End, Size(1), Byte, End, Size(0), End>>
      [] a = 4 -> <<Line("POST", 1, q), Hdr("expect", "100"), Hdr("cl", 1), End, Byte>>
      [] a = 5 -> <<Line("GET", 0, q), Hdr("conn", "keep-alive"), End>>
      [] a = 6 -> <<[k |-> "cont"], End>>
      [] a = 7 -> <<Line("HEAD", 1, q), End>>
      [] a = 8 -> <<Line("POST", 1, q), Hdr("expect", "other"), Hdr("cl", 1), End, Byte>>
      [] a = 9 -> <<Line("GET", 1, q), Hdr("conn", "close"), End>>
      [] a = 10 -> <<Line("PUT", 1, q), Hdr("cl", 1), End, Byte>>
      [] a = 11 -> <<Line("GET", 0, q), End>>
      [] a = 12 -> <<Proxied(Line("GET", 1, q)), Hdr("pconn", "keep-alive"), End>>
      [] OTHER -> <<Line("POST", 1, q), Hdr("expect", "100"), Hdr("cl", 9), End, Byte>>
ClientSends ==
    /\ h.err = "none" /\ h.peer = "open" /\ h.fd /\ sent < MaxSent
    /\ \E a \in Requests : h' = [h EXCEPT !.net = @ \o Request(a, sent + 1)]
    /\ sent' = sent + 1

Loop == DeferredRead \/ Deliver \/ Eof \/ ReadTimeout \/ Flush \/ WriteFails \/ Return \/ PeerCloses
Replies == SendReply \/ SendsError \/ ReplyStart \/ ReplyChunk \/ ReplyEnd
Next == ClientSends \/ (Loop /\ UNCHANGED sent) \/ (Replies /\ UNCHANGED sent)
Spec == Init /\ [][Next]_vars
-----------------------------------------------------------------------------
(* What was written, read as the client reads it: what it expects next.      *)
Expecting(mode, tag, n) == [mode |-> mode, tag |-> tag, n |-> n]
Between == Expecting("between", 0, 0)
AfterHead(p) ==
    CASE ~p.body \/ (~p.te /\ p.cl = 0) -> Between
      [] p.body /\ p.te -> Expecting("size", p.tag, 0)
      [] p.body /\ ~p.te /\ p.cl > 0 -> Expecting("body", p.tag, p.cl)
      [] OTHER -> Expecting("close", p.tag, 0)
AfterByte(s) ==
    CASE s.n > 1 -> [s EXCEPT !.n = @ - 1]
      [] s.n = 1 /\ s.mode = "body" -> Between
      [] s.n = 1 /\ s.mode = "chunk" -> [s EXCEPT !.mode = "size"]
      [] OTHER -> s
Reading(s, p) ==
    CASE s.mode = "between" /\ p.k = "continue" -> s
      [] s.mode = "between" /\ p.k = "head" -> AfterHead(p)
      [] s.mode = "size" /\ p.k = "size" ->
            IF p.n = 0 THEN Between ELSE Expecting("chunk", s.tag, p.n)
      [] s.mode \in {"body", "chunk", "close"} /\ p.k = "byte" /\ p.tag = s.tag -> AfterByte(s)
      [] OTHER -> Expecting("wrong", 0, 0)
Framed(w) ==
    LET reading[i \in 0 .. Len(w)] == IF i = 0 THEN Between ELSE Reading(reading[i - 1], w[i])
    IN reading[Len(w)].mode # "wrong"

(* evhttp_make_header_response, evhttp_send_reply_chunk: the client that     *)
(* reads by the lengths it is told finds the replies.                        *)
Framing == Framed(h.wire)
Replied == Heads(h.wire)
(* Each request is answered once, in the order in which they came.           *)
InOrder == \A i \in DOMAIN Replied : Replied[i] = i
(* The request a callback sees is the one the client sent, whatever bodies   *)
(* were before it.                                                           *)
RightRequest == \A q \in Ids : h.req[q].held = "yes" /\ h.req[q].live = "live" => h.req[q].from = q
(* evhttp_connection_incoming_fail: what the user still answers is not freed *)
(* with its connection.                                                      *)
HeldKept == \A q \in Ids : h.req[q].held # "no" => h.req[q].live = "live"
(* Of a connection that is gone nothing is left but what the user holds.     *)
NoLeak == h.gone /\ h.todo = <<>> => \A q \in Ids : h.req[q].live = "live" => h.req[q].held # "no"
NoneLeft == h.gone => ~h.deferred
(* While the user holds nothing, the connection reads or writes.             *)
Listens ==
    Running /\ (\A q \in Ids : h.req[q].held = "no") =>
       h.deferred \/ (h.fd /\ (h.rd \/ (h.wr /\ h.out # <<>>)))
(* The assertions of evhttp_send, evhttp_send_done and evhttp_read_cb hold.  *)
Asserted == h.err \in {"none", "reply started without a connection"}
=============================================================================
