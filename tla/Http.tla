-------------------------------- MODULE Http --------------------------------
(* The connections of libevent's HTTP client and server, http.c: one         *)
(* evhttp_connection h with its requests.  A handler of the code is an       *)
(* operator from h to h.  Where a handler calls the user, the rest of it     *)
(* waits as a frame in h.todo, and the user's code runs as steps of its own. *)
(*                                                                           *)
(* What is read and written is a sequence of pieces, each of length one: a   *)
(* line, known by what it says, or a byte of a body.                         *)
(*                                                                           *)
(* h    state, fd (there is a socket), incoming, detect (CLOSEDETECT),       *)
(*      retryCnt, retry (retry_ev: none, timer, or never to fire), queue     *)
(*      (requests), cb, deferred (read_more_deferred_cb is scheduled), gone; *)
(*      of the bufferevent: cbs (the callbacks set), rd and wr (enabled),    *)
(*      conn (connecting), inp and out;                                      *)
(*      of the peer: net (what it sent and is not read), peer, asked (the    *)
(*      requests that reached it), wire (what a server wrote);               *)
(*      todo, err (the assertion that ended the program, or none), and st    *)
(*      and line, which are local to a handler                               *)
EXTENDS Integers, Sequences, FiniteSets

CONSTANTS Ids,         \* requests, 1 .. n
          MaxHeaders,  \* max_headers_size
          MaxBody,     \* max_body_size
          RetryMax,    \* retry_max
          IntBits,     \* bits of an int
          Allowed      \* allowed_methods

HttpAssumption == RetryMax \in Int /\ IntBits \in Nat /\ MaxBody \in Nat /\ MaxHeaders \in Nat

VARIABLE h

EmptyHeaders == [cl |-> -1, conn |-> "none", te |-> FALSE, expect |-> "none", pconn |-> "none"]
(* Ghosts: told counts the calls of the callback, from is the request that   *)
(* was read, or that the response read was made for, sent how often it was   *)
(* written, up to 2, held says what the user still has to do with it.        *)
RequestNew ==
    [live |-> "unused", kind |-> "response", type |-> "none", minor |-> 0, code |-> 0,
     uri |-> FALSE, con |-> FALSE, own |-> FALSE, owned |-> FALSE, defer |-> FALSE,
     needs |-> FALSE, proxy |-> FALSE, chunked |-> FALSE, ntoread |-> 0, body |-> 0,
     hsize |-> 0, inh |-> EmptyHeaders, outh |-> EmptyHeaders, inb |-> 0, outb |-> 0,
     userdone |-> FALSE, chunkcb |-> FALSE, told |-> 0, from |-> 0, sent |-> 0, held |-> "no"]
NoLine == [k |-> "none"]
ConnectionNew(incoming) ==
    [state |-> "disconnected", fd |-> FALSE, incoming |-> incoming, detect |-> FALSE,
     retryCnt |-> 0, retry |-> "none", queue |-> <<>>, cb |-> "none", deferred |-> FALSE,
     gone |-> FALSE, cbs |-> "normal", rd |-> FALSE, wr |-> TRUE, conn |-> FALSE,
     inp |-> <<>>, out |-> <<>>, net |-> <<>>, peer |-> "none", asked |-> <<>>, wire |-> <<>>,
     todo |-> <<>>, err |-> "none", st |-> "none", line |-> NoLine,
     req |-> [q \in Ids |-> RequestNew]]

Fails(x, what) == [x EXCEPT !.err = IF @ = "none" THEN what ELSE @]
Asserts(x, cond, what) == IF cond THEN x ELSE Fails(x, what)
Push(x, frame) == [x EXCEPT !.todo = <<frame>> \o @]
Pop(x) == [x EXCEPT !.todo = Tail(@)]
Ask(x, q, why) == Push([x EXCEPT !.req[q].told = @ + (IF why = "chunk" THEN 0 ELSE 1)],
                       [f |-> "user", q |-> q, why |-> why])
-----------------------------------------------------------------------------
(* Headers. *)
NeedsBody(r) == r.code \notin {204, 304} /\ r.code \notin 100 .. 199 /\ r.type # "HEAD"
IsConnectionClose(proxy, headers) ==
    IF proxy THEN headers.pconn # "keep-alive" ELSE headers.conn = "close"
IsKeepalive(headers) == headers.conn = "keep-alive"
(* find_header finds the first of two, so a second changes nothing.          *)
AddHeader(headers, name, value) ==
    [headers EXCEPT ![name] = IF @ = EmptyHeaders[name] THEN value ELSE @]

RequestHeaders(r) ==
    [r.outh EXCEPT !.pconn = "none",
                   !.cl = IF r.type \in {"POST", "PUT"} /\ @ = -1 THEN r.outb ELSE @]
WithLength(r, o) ==
    IF (r.minor >= 1 \/ IsKeepalive(r.inh)) /\ NeedsBody(r) /\ ~o.te /\ o.cl = -1
    THEN [o EXCEPT !.cl = r.outb] ELSE o
WithKeepalive(r, o) ==
    IF r.minor = 0 /\ IsKeepalive(r.inh) THEN AddHeader(o, "conn", "keep-alive") ELSE o
WithClose(r, o) ==
    IF IsConnectionClose(r.proxy, r.inh)
    THEN [o EXCEPT !.conn = IF r.proxy THEN "none" ELSE "close", !.pconn = "none"] ELSE o
ResponseHeaders(r) == WithClose(r, WithLength(r, WithKeepalive(r, r.outh)))

Data(n, q) == [i \in 1 .. n |-> [k |-> "byte", tag |-> q]]
MakeHeader(x, q) ==
    LET r == x.req[q]
        o == IF r.kind = "request" THEN RequestHeaders(r) ELSE ResponseHeaders(r)
    IN [x EXCEPT !.out = Append(@, [k |-> "head", tag |-> q, code |-> r.code, cl |-> o.cl,
                                    te |-> o.te, conn |-> o.conn, body |-> NeedsBody(r)])
                         \o Data(r.outb, q),
                 !.req[q].outh = o, !.req[q].outb = 0, !.req[q].sent = IF @ = 0 THEN 1 ELSE 2]

WriteBuffer(x, cb) == [x EXCEPT !.cb = cb, !.cbs = "writing", !.wr = TRUE]
SendContinue(x, q) ==
    [x EXCEPT !.wr = TRUE, !.out = Append(@, [k |-> "continue", tag |-> q]),
              !.cb = "continueDone", !.cbs = "normal"]
Connected(x) == x.state \notin {"disconnected", "connecting"}
-----------------------------------------------------------------------------
(* The life of requests and connections. *)
RequestFree(x, q) ==
    CASE x.req[q].live # "live" -> Fails(x, "freed twice")
      [] x.req[q].live = "live" /\ x.req[q].defer -> [x EXCEPT !.req[q].needs = TRUE]
      [] OTHER -> [x EXCEPT !.req[q] = [RequestNew EXCEPT !.live = "freed", !.told = @ + x.req[q].told,
                                                         !.from = x.req[q].from, !.sent = x.req[q].sent,
                                                         !.held = x.req[q].held]]
RECURSIVE FreeAll(_)
FreeAll(x) ==
    IF x.queue = <<>> THEN x ELSE FreeAll(RequestFree([x EXCEPT !.queue = Tail(@)], Head(x.queue)))
Closed(x) ==
    [x EXCEPT !.rd = FALSE, !.wr = FALSE, !.conn = FALSE, !.fd = FALSE, !.inp = <<>>,
              !.out = <<>>, !.net = <<>>, !.peer = "none", !.asked = <<>>]
ConnectionFree(x) ==
    [Closed(FreeAll(x)) EXCEPT !.gone = TRUE, !.retry = "none", !.deferred = FALSE]
(* Mutant of Reset: what was read stays.                                     *)
Mutant_reset_keeps_input(x) ==
    [Closed(x) EXCEPT !.state = "disconnected", !.inp = x.inp \o x.net]

Reset(x) == [Closed(x) EXCEPT !.state = "disconnected"]

Dispatch(x) ==
    IF x.queue = <<>> THEN x
    ELSE WriteBuffer(MakeHeader([Asserts(x, x.state = "idle", "dispatch: not idle") EXCEPT
                        !.detect = FALSE, !.rd = FALSE, !.state = "writing"], Head(x.queue)),
                     "written")

(* evhttp_connection_connect runs as a frame: the system decides how it ends.*)
ConnectFrame(x, q) == Push(x, [f |-> "connect", q |-> q])

(* 2 << cnt in IntBits bits, as a shift by cnt modulo the width does it.     *)
Wrapped(n) == IF n >= 2 ^ (IntBits - 1) THEN n - 2 ^ IntBits ELSE n
RetryDelay(cnt) == Wrapped((2 * 2 ^ (cnt % IntBits)) % 2 ^ IntBits)
(* evhttp_connection_cb_cleanup *)
Cleanup(x) ==
    IF RetryMax < 0 \/ x.retryCnt < RetryMax
    THEN [Asserts(x, x.retry = "none", "retry_ev assigned while pending") EXCEPT
            !.retry = IF RetryDelay(x.retryCnt) = 0 THEN "never" ELSE "timer",
            !.retryCnt = IF RetryMax < 0 THEN (@ + 1) % (2 * IntBits) ELSE @ + 1]
    ELSE Push([Reset(x) EXCEPT !.queue = <<>>], [f |-> "cleanup", qs |-> x.queue])

StartRead(x) ==
    [x EXCEPT !.wr = FALSE, !.rd = TRUE, !.state = "firstline", !.cbs = "normal",
              !.deferred = @ \/ x.inp # <<>>]

Unused(x) == {q \in Ids : x.req[q].live = "unused"}
(* evhttp_associate_new_request_with_connection; with no request left to     *)
(* make, evhttp_request_new has no memory.                                   *)
Associate(x) ==
    IF Unused(x) = {} THEN ConnectionFree(x)
    ELSE LET q == CHOOSE q \in Unused(x) : \A p \in Unused(x) : q <= p
         IN StartRead([x EXCEPT
                !.req[q] = [RequestNew EXCEPT !.live = "live", !.con = TRUE, !.own = TRUE,
                                              !.userdone = TRUE, !.kind = "request"],
                !.queue = Append(@, q)])
-----------------------------------------------------------------------------
(* Replies. *)
ResponseCode(x, q, code) == [x EXCEPT !.req[q].kind = "response", !.req[q].code = code]

Send(x, q, n) ==
    IF ~x.req[q].con THEN RequestFree([x EXCEPT !.req[q].held = "no"], q)
    ELSE WriteBuffer(MakeHeader([Asserts(x, x.queue # <<>> /\ Head(x.queue) = q, "send: not first")
                        EXCEPT !.req[q].userdone = TRUE, !.req[q].held = "no",
                               !.req[q].outb = @ + n], q), "sendDone")
SendPage(x, q, n) ==
    Send([x EXCEPT !.req[q].minor = 1,
                   !.req[q].code = IF x.req[q].kind = "response" THEN @ ELSE 200,
                   !.req[q].kind = "response",
                   !.req[q].outh = [EmptyHeaders EXCEPT !.conn = "close"]], q, n)
SendError(x, q, code) == SendPage(ResponseCode(x, q, code), q, 1)

(* evhttp_handle_request: the server's callback of every request. *)
HandleRequest(x, q) ==
    CASE x.req[q].type = "none" \/ ~x.req[q].uri -> SendError([x EXCEPT !.req[q].userdone = FALSE], q, 400)
      [] x.req[q].type \notin Allowed /\ x.req[q].type # "none" /\ x.req[q].uri ->
            SendError([x EXCEPT !.req[q].userdone = FALSE], q, 501)
      [] OTHER -> Ask([x EXCEPT !.req[q].userdone = FALSE, !.req[q].held = "yes"], q, "request")

NeedClose(r) ==
    \/ r.minor < 1 /\ ~IsKeepalive(r.inh)
    \/ IsConnectionClose(r.proxy, r.inh) \/ IsConnectionClose(r.proxy, r.outh)
AfterReply(x, q, close) == IF close THEN ConnectionFree(x) ELSE Associate(x)
SendDone(x) ==
    LET q == Head(x.queue)
    IN AfterReply(RequestFree([Asserts(x, x.req[q].own, "send_done: not its connection")
                                 EXCEPT !.queue = Tail(@)], q), q, NeedClose(x.req[q]))
-----------------------------------------------------------------------------
IncomingFail(x, q, error) ==
    CASE error \in {"timeout", "eof"} /\ ~x.req[q].userdone ->
            ConnectionFree([x EXCEPT !.queue = Tail(@), !.req[q].con = FALSE])
      [] error \in {"timeout", "eof"} /\ x.req[q].userdone -> ConnectionFree(x)
      [] OTHER -> HandleRequest([x EXCEPT !.req[q].uri = FALSE], q)
ConnectNext(x) == IF x.queue = <<>> THEN x ELSE ConnectFrame(x, 0)
OutgoingFail(x, q, error) ==
    ConnectNext(LET y == Reset(RequestFree([x EXCEPT !.queue = Tail(@)], q))
                IN IF error = "cancel" THEN y ELSE Ask(y, q, "failed"))
ConnectionFail(x, error) ==
    CASE x.queue = <<>> -> Fails(x, "connection_fail: no request")
      [] x.queue # <<>> /\ x.incoming ->
            IncomingFail([x EXCEPT !.rd = FALSE, !.wr = FALSE], Head(x.queue), error)
      [] OTHER -> OutgoingFail([x EXCEPT !.rd = FALSE, !.wr = FALSE], Head(x.queue), error)
-----------------------------------------------------------------------------
(* evhttp_connection_done: the message is read.                              *)
DoneClose(r) == IsConnectionClose(r.proxy, r.inh) \/ IsConnectionClose(r.proxy, r.outh)
NextRequest(x, close) ==
    CASE x.queue # <<>> /\ ~Connected(x) -> ConnectFrame(x, 0)
      [] x.queue # <<>> /\ Connected(x) -> Dispatch(x)
      [] x.queue = <<>> /\ ~close -> [x EXCEPT !.detect = TRUE, !.rd = TRUE]
      [] OTHER -> x
OutgoingDone(x, q, close) ==
    NextRequest(Ask(Push(IF close THEN Reset(x) ELSE x, [f |-> "doneFree", q |-> q]), q, "done"), close)
Done(x) ==
    LET q == Head(x.queue)
    IN IF x.incoming THEN HandleRequest([x EXCEPT !.state = "writing"], q)
       ELSE OutgoingDone([x EXCEPT !.queue = Tail(@), !.req[q].con = FALSE, !.state = "idle"],
                         q, DoneClose(x.req[q]))
-----------------------------------------------------------------------------
(* Reading lines. *)
Lines(inp) == {i \in DOMAIN inp : inp[i].k # "byte"}
(* evbuffer_readln: up to the end of the first line; bytes in front of it    *)
(* make it one that says nothing.                                            *)
TakeLine(x) ==
    LET n == CHOOSE i \in Lines(x.inp) : \A j \in Lines(x.inp) : i <= j
    IN [x EXCEPT !.line = IF n = 1 THEN x.inp[1] ELSE [k |-> "bad", n |-> n],
                 !.inp = SubSeq(@, n + 1, Len(@))]
LineLength(l) == IF l.k = "bad" THEN l.n ELSE 1

RequestLine(x, q) ==
    [x EXCEPT !.st = "all", !.req[q].type = x.line.type, !.req[q].minor = x.line.minor,
              !.req[q].uri = TRUE, !.req[q].proxy = x.line.proxy, !.req[q].from = x.line.tag]
StatusLine(x, q) ==
    [x EXCEPT !.st = IF x.line.code = 0 THEN "corrupt" ELSE "all",
              !.req[q].minor = x.line.minor, !.req[q].code = x.line.code, !.req[q].from = x.line.tag]
(* evhttp_parse_firstline of the line taken. *)
ParseLine(x, q) ==
    CASE x.line.k = "request" /\ x.req[q].kind = "request" -> RequestLine(x, q)
      [] x.line.k = "status" /\ x.req[q].kind = "response" -> StatusLine(x, q)
      [] OTHER -> [x EXCEPT !.st = "corrupt"]
Counted(x, q) ==
    IF LineLength(x.line) > MaxHeaders THEN [x EXCEPT !.st = "long"]
    ELSE ParseLine([x EXCEPT !.req[q].hsize = LineLength(x.line)], q)
ParseFirstline(x, q) ==
    IF Lines(x.inp) = {} THEN [x EXCEPT !.st = IF Len(x.inp) > MaxHeaders THEN "long" ELSE "more"]
    ELSE Counted(TakeLine(x), q)

(* evhttp_parse_headers, a line at a time. *)
HeaderLine(x, q) ==
    CASE x.req[q].hsize > MaxHeaders -> [x EXCEPT !.st = "long"]
      [] x.req[q].hsize <= MaxHeaders /\ x.line.k = "end" -> [x EXCEPT !.st = "all"]
      [] x.req[q].hsize <= MaxHeaders /\ x.line.k = "hdr" ->
            [x EXCEPT !.req[q].inh = AddHeader(@, x.line.h, x.line.v)]
      [] x.req[q].hsize <= MaxHeaders /\ x.line.k = "cont" /\ x.req[q].inh # EmptyHeaders -> x
      [] OTHER -> [x EXCEPT !.st = "corrupt"]
CountedHeader(x, q) == HeaderLine([x EXCEPT !.req[q].hsize = @ + LineLength(x.line)], q)
RECURSIVE HeaderLines(_, _)
HeaderLines(x, q) ==
    CASE x.st # "loop" -> x
      [] x.st = "loop" /\ Lines(x.inp) = {} ->
            [x EXCEPT !.st = IF x.req[q].hsize + Len(x.inp) > MaxHeaders THEN "long" ELSE "more"]
      [] OTHER -> HeaderLines(CountedHeader(TakeLine(x), q), q)
ParseHeaders(x, q) == HeaderLines([x EXCEPT !.st = "loop"], q)
-----------------------------------------------------------------------------
(* Reading bodies. *)
ReadTrailerEnd(x) ==
    CASE x.st \in {"corrupt", "long"} -> ConnectionFail(x, "invalid")
      [] x.st = "all" -> Done([x EXCEPT !.rd = FALSE])
      [] OTHER -> [x EXCEPT !.rd = TRUE]
ReadTrailer(x, q) == ReadTrailerEnd(ParseHeaders(x, q))

(* evhttp_handle_chunked_read: the size of a chunk, or a whole chunk.        *)
ChunkSize(x, q) ==
    CASE x.line.k = "end" -> x
      [] x.line.k # "size" /\ x.line.k # "end" -> [x EXCEPT !.st = "corrupt"]
      [] x.line.k = "size" /\ x.req[q].body + x.line.n > MaxBody -> [x EXCEPT !.st = "long"]
      [] OTHER -> [x EXCEPT !.req[q].body = @ + x.line.n, !.req[q].ntoread = x.line.n,
                            !.st = IF x.line.n = 0 THEN "all" ELSE @]
WholeChunk(x, q) ==
    [x EXCEPT !.req[q].inb = @ + x.req[q].ntoread,
              !.inp = SubSeq(@, x.req[q].ntoread + 1, Len(@)), !.req[q].ntoread = -1,
              !.req[q].defer = x.req[q].chunkcb,
              !.st = IF x.req[q].chunkcb THEN "user" ELSE @]
RECURSIVE ChunkedRead(_, _)
ChunkedRead(x, q) ==
    CASE x.st # "loop" -> x
      [] x.st = "loop" /\ \/ x.inp = <<>>
                          \/ x.req[q].ntoread < 0 /\ Lines(x.inp) = {}
                          \/ Len(x.inp) < x.req[q].ntoread -> [x EXCEPT !.st = "more"]
      [] OTHER -> ChunkedRead(IF x.req[q].ntoread < 0 THEN ChunkSize(TakeLine(x), q)
                              ELSE WholeChunk(x, q), q)

BodyEnd(x, q) ==
    IF x.req[q].ntoread = 0 THEN Done([x EXCEPT !.rd = FALSE]) ELSE [x EXCEPT !.rd = TRUE]
BodyRead(x, q) ==
    IF \/ x.req[q].body > MaxBody
       \/ ~x.req[q].chunked /\ x.req[q].ntoread >= 0 /\ x.req[q].ntoread > MaxBody
    THEN ConnectionFail(x, "invalid")
    ELSE IF x.req[q].inb > 0 /\ x.req[q].chunkcb
    THEN Ask(Push([x EXCEPT !.req[q].defer = TRUE], [f |-> "bodyRest", q |-> q]), q, "chunk")
    ELSE BodyEnd(x, q)
ChunksRead(x, q) ==
    CASE x.st = "all" -> ReadTrailer([x EXCEPT !.state = "trailer"], q)
      [] x.st \in {"corrupt", "long"} -> ConnectionFail(x, "invalid")
      [] x.st = "user" -> Ask(Push(x, [f |-> "chunkRest", q |-> q]), q, "chunk")
      [] OTHER -> BodyRead(x, q)
Chunked(x, q) == ChunksRead(ChunkedRead([x EXCEPT !.st = "loop"], q), q)

Move(x, q, n) ==
    [x EXCEPT !.req[q].body = @ + n, !.req[q].inb = @ + n, !.inp = SubSeq(@, n + 1, Len(@))]
MoveLength(x, q, n) == Move([x EXCEPT !.req[q].ntoread = @ - n], q, n)
ReadBody(x, q) ==
    CASE x.req[q].chunked -> Chunked(x, q)
      [] ~x.req[q].chunked /\ x.req[q].ntoread < 0 -> BodyRead(Move(x, q, Len(x.inp)), q)
      [] OTHER -> BodyRead(IF x.req[q].chunkcb \/ Len(x.inp) >= x.req[q].ntoread
                           THEN MoveLength(x, q, IF Len(x.inp) > x.req[q].ntoread
                                                 THEN x.req[q].ntoread ELSE Len(x.inp))
                           ELSE x, q)

(* The end of evhttp_get_body: Expect, in a request of version 1.1.          *)
Expect(x, q) ==
    LET r == x.req[q]
    IN CASE r.kind # "request" \/ r.minor < 1 \/ r.inh.expect = "none" -> ReadBody(x, q)
         [] r.kind = "request" /\ r.minor >= 1 /\ r.inh.expect = "other" -> SendError(x, q, 417)
         [] OTHER -> IF r.ntoread > 0 /\ r.ntoread > MaxBody THEN SendError(x, q, 413)
                     ELSE ReadBody(IF x.inp = <<>> THEN SendContinue(x, q) ELSE x, q)
(* evhttp_get_body_length: no length and a connection that stays open, or a  *)
(* length that is none, is an error.                                         *)
BadLength(r) == r.inh.cl = -2 \/ (r.inh.cl = -1 /\ r.inh.conn \notin {"none", "close"})
Sized(x, q) ==
    CASE BadLength(x.req[q]) -> ConnectionFail(x, "invalid")
      [] ~BadLength(x.req[q]) /\ x.req[q].kind = "request" /\ x.req[q].inh.cl < 1 ->
            Done([x EXCEPT !.req[q].ntoread = x.req[q].inh.cl])
      [] OTHER -> Expect([x EXCEPT !.req[q].ntoread = x.req[q].inh.cl], q)
GetBody(x, q) ==
    CASE x.req[q].kind = "request" /\ x.req[q].type \notin {"POST", "PUT", "PATCH"} -> Done(x)
      [] ~(x.req[q].kind = "request" /\ x.req[q].type \notin {"POST", "PUT", "PATCH"})
         /\ x.req[q].inh.te ->
            Expect([x EXCEPT !.state = "body", !.req[q].chunked = TRUE, !.req[q].ntoread = -1], q)
      [] OTHER -> Sized([x EXCEPT !.state = "body"], q)
-----------------------------------------------------------------------------
(* The callbacks of the bufferevent. *)
HeadersRead(x, q) ==
    CASE x.st \in {"corrupt", "long"} -> ConnectionFail(x, "invalid")
      [] x.st = "more" -> x
      [] x.st = "all" /\ x.req[q].kind = "response" /\ x.req[q].code = 100 ->
            StartRead([x EXCEPT !.rd = FALSE])
      [] x.st = "all" /\ x.req[q].kind = "response" /\ x.req[q].code # 100
         /\ ~NeedsBody(x.req[q]) -> Done([x EXCEPT !.rd = FALSE])
      [] OTHER -> GetBody([x EXCEPT !.rd = FALSE], q)
ReadHeader(x, q) == HeadersRead(ParseHeaders(x, q), q)
FirstlineRead(x, q) ==
    CASE x.st \in {"corrupt", "long"} -> ConnectionFail(x, "invalid")
      [] x.st = "more" -> x
      [] OTHER -> ReadHeader([x EXCEPT !.state = "headers"], q)
ReadFirstline(x, q) == FirstlineRead(ParseFirstline(x, q), q)

ReadIn(x, q) ==
    CASE x.state = "firstline" -> ReadFirstline(x, q)
      [] x.state = "headers" -> ReadHeader(x, q)
      [] x.state = "body" -> ReadBody(x, q)
      [] x.state = "trailer" -> ReadTrailer(x, q)
      [] x.state = "idle" -> Reset(x)
      [] OTHER -> Fails(x, "read_cb: illegal connection state")
ReadCb(x) ==
    ReadIn([x EXCEPT !.deferred = FALSE], IF x.queue = <<>> THEN 0 ELSE Head(x.queue))

(* evhttp_write_connectioncb *)
Written(x) ==
    StartRead([Asserts(x, x.queue # <<>> /\ x.state = "writing", "written: not writing")
                 EXCEPT !.req[Head(x.queue)].kind = "response"])
WriteCb(x) ==
    CASE x.cb = "written" -> Written(x)
      [] x.cb = "sendDone" -> SendDone(x)
      [] x.cb = "continueDone" -> [x EXCEPT !.wr = FALSE]
      [] OTHER -> x

(* what is timeout, eof or error, dir read or write. *)
DetectClose(x) == Reset([Asserts(x, x.state = "idle", "error_cb: close detected when not idle")
                           EXCEPT !.detect = FALSE])
ErrorCb(x, what, dir) ==
    IF x.state = "connecting" /\ what = "timeout" THEN Cleanup(x)
    ELSE IF /\ x.state = "body" /\ what = "eof" /\ dir = "read"
            /\ ~x.req[Head(x.queue)].chunked /\ x.req[Head(x.queue)].ntoread < 0
    THEN Done(x)
    ELSE IF x.detect THEN DetectClose(x)
    ELSE ConnectionFail(x, IF what = "timeout" THEN "timeout" ELSE "eof")
(* evhttp_connection_cb, for BEV_EVENT_CONNECTED. *)
ConnectedCb(x) == Dispatch([x EXCEPT !.retryCnt = 0, !.state = "idle", !.cbs = "normal"])
-----------------------------------------------------------------------------
(* What the loop and the peer do while no user code runs. *)
Running == h.todo = <<>> /\ h.err = "none" /\ ~h.gone
Top == Head(h.todo)
Calling(f) == h.err = "none" /\ h.todo # <<>> /\ Top.f = f
Do(x) == h' = [x EXCEPT !.st = "none", !.line = NoLine]

DeferredRead == Running /\ h.deferred /\ Do(ReadCb(h))
Deliver ==
    /\ Running /\ h.rd /\ h.fd /\ h.net # <<>>
    /\ \E n \in DOMAIN h.net :
          LET x == [h EXCEPT !.inp = @ \o SubSeq(h.net, 1, n), !.net = SubSeq(@, n + 1, Len(@))]
          IN Do(IF h.cbs = "normal" THEN ReadCb(x) ELSE x)
Eof ==
    /\ Running /\ h.rd /\ h.fd /\ h.net = <<>> /\ h.peer = "closed"
    /\ \E what \in {"eof", "error"} : Do(ErrorCb([h EXCEPT !.rd = FALSE], what, "read"))
ReadTimeout ==
    Running /\ h.rd /\ h.fd /\ h.net = <<>> /\ Do(ErrorCb([h EXCEPT !.rd = FALSE], "timeout", "read"))
Heads(out) == LET heads == SelectSeq(out, LAMBDA p : p.k = "head")
              IN [i \in DOMAIN heads |-> heads[i].tag]
Writable == Running /\ h.wr /\ h.fd /\ ~h.conn /\ h.out # <<>>
Flush ==
    /\ Writable /\ h.peer = "open"
    /\ Do(WriteCb([h EXCEPT !.out = <<>>,
                            !.asked = IF h.incoming THEN @ ELSE @ \o Heads(h.out),
                            !.wire = IF h.incoming THEN @ \o h.out ELSE @]))
WriteFails ==
    /\ Writable
    /\ \E what \in IF h.peer = "closed" THEN {"timeout", "error"} ELSE {"timeout"} :
          Do(ErrorCb([h EXCEPT !.wr = FALSE], what, "write"))
PeerCloses == h.fd /\ h.err = "none" /\ h.peer = "open" /\ ~h.conn /\ h' = [h EXCEPT !.peer = "closed"]

Return == Calling("user") /\ Do(Pop(h))
(* evhttp_handle_chunked_read and evhttp_read_body after the user's callback *)
Drained(x, q) == [Pop(x) EXCEPT !.req[q].inb = 0, !.req[q].defer = FALSE]
ChunkRest ==
    /\ Calling("chunkRest")
    /\ LET q == Top.q
       IN Do(IF h.req[q].needs THEN RequestFree(Drained(h, q), q) ELSE Chunked(Drained(h, q), q))
BodyRest ==
    /\ Calling("bodyRest")
    /\ LET q == Top.q
       IN Do(IF h.req[q].needs THEN RequestFree(Drained(h, q), q) ELSE BodyEnd(Drained(h, q), q))
DoneFree ==
    /\ Calling("doneFree")
    /\ Do(IF h.req[Top.q].owned THEN Pop(h) ELSE RequestFree(Pop(h), Top.q))
=============================================================================
