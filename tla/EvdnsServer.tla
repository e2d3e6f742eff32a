---------------------------- MODULE EvdnsServer ----------------------------
(***************************************************************************)
(* A port that answers DNS requests (evdns.c): requests that the           *)
(* application answers now or later, replies that wait for the socket, and *)
(* a port that is closed while requests refer to it.                       *)
(***************************************************************************)
EXTENDS Integers, Sequences, FiniteSets

CONSTANTS Requests, Plans      \* what the callback does with a request

VARIABLES p, op

vars == <<p, op>>

evdns_add_server_port_with_base ==
    [refcnt |-> 1, open |-> TRUE, closing |-> FALSE, read |-> TRUE, write |-> FALSE,
     pend |-> <<>>, req |-> [q \in Requests |-> "none"], sent |-> {}, odd |-> {},
     sock |-> "ok", freed |-> FALSE, bad |-> FALSE]

server_port_free(v) ==
    [v EXCEPT !.freed = TRUE, !.read = FALSE, !.write = FALSE, !.bad = @ \/ v.freed \/ v.pend # <<>>]

Without(s, x) == SelectSeq(s, LAMBDA y : y # x)
Unreferenced(v) == IF v.refcnt = 0 THEN server_port_free(v) ELSE v

server_request_free(v, q) ==
    Unreferenced([v EXCEPT !.pend = Without(@, q), !.refcnt = @ - 1, !.req[q] = "gone"])

Drained(v) == [v EXCEPT !.write = FALSE, !.read = TRUE]

(* A reply that fails for another reason than a full socket is dropped.    *)
RECURSIVE server_port_flush(_)
server_port_flush(v) ==
    IF v.freed THEN v
    ELSE IF v.pend = <<>> THEN Drained(v)
    ELSE IF v.sock = "full" THEN v
    ELSE server_port_flush(server_request_free(
            [v EXCEPT !.sent = IF v.sock = "ok" THEN @ \cup {Head(v.pend)} ELSE @], Head(v.pend)))

FlushRest(v) == IF v.pend # <<>> /\ ~v.freed THEN server_port_flush(v) ELSE v

Enqueue(v, q) ==
    [v EXCEPT !.req[q] = "pending", !.pend = Append(@, q), !.write = TRUE,
              !.read = IF v.pend = <<>> THEN ~v.closing ELSE @]

evdns_server_request_respond(v, q) ==
    CASE v.sock = "ok" -> FlushRest(server_request_free([v EXCEPT !.sent = @ \cup {q}], q))
      [] v.sock = "full" -> v
      [] OTHER -> Enqueue(v, q)

evdns_server_request_drop(v, q) == server_request_free(v, q)

evdns_close_server_port(v) ==
    IF v.refcnt = 1 THEN server_port_free([v EXCEPT !.refcnt = 0, !.open = FALSE])
    ELSE [v EXCEPT !.refcnt = @ - 1, !.open = FALSE, !.closing = TRUE]

(* The flags that say that a query is not a standard one are masked before *)
(* they are looked at, so every query comes to the callback.               *)
request_parse(v, q) == [v EXCEPT !.req[q] = "user", !.refcnt = @ + 1]

UserCallback(v, q, plan) ==
    CASE plan = "respond" -> evdns_server_request_respond(v, q)
      [] plan = "drop" -> evdns_server_request_drop(v, q)
      [] plan = "close" -> IF v.open THEN evdns_server_request_drop(evdns_close_server_port(v), q)
                           ELSE evdns_server_request_drop(v, q)
      [] OTHER -> v

-----------------------------------------------------------------------------
Init == p = evdns_add_server_port_with_base /\ op = "new"

Do(name, v) == op' = name /\ p' = v

(* After the callback the loop of server_port_read looks at the port.      *)
Touched(v) == [v EXCEPT !.bad = @ \/ v.freed]
server_port_read ==
    \E q \in Requests, plan \in Plans, odd \in BOOLEAN :
       /\ p.read /\ p.req[q] = "none"
       /\ Do("read", Touched(UserCallback(
              request_parse([p EXCEPT !.odd = IF odd THEN @ \cup {q} ELSE @], q), q, plan)))

WriteReady == p.write /\ p.sock # "full" /\ Do("write", server_port_flush(p))

Respond(q) == p.req[q] = "user" /\ Do("respond", evdns_server_request_respond(p, q))
Drop(q) == p.req[q] = "user" /\ Do("drop", evdns_server_request_drop(p, q))
Close == p.open /\ Do("close", evdns_close_server_port(p))
SocketState(s) == ~p.freed /\ p.sock # s /\ Do("socket", [p EXCEPT !.sock = s])

Next == \/ server_port_read \/ WriteReady \/ Close
        \/ \E q \in Requests : Respond(q) \/ Drop(q)
        \/ \E s \in {"ok", "full", "broken"} : SocketState(s)

Spec == Init /\ [][Next]_vars
-----------------------------------------------------------------------------
(* Properties                                                              *)

(* The port lives as long as the application or a request refers to it,    *)
(* and no longer (evdns.c:2059-2104).                                      *)
References ==
    /\ p.refcnt = (IF p.open THEN 1 ELSE 0)
                    + Cardinality({q \in Requests : p.req[q] \in {"user", "pending"}})
    /\ p.freed <=> p.refcnt = 0

(* Replies that wait are the pending ones, each once, and the socket tells *)
(* when it can take them (evdns.c:1992-2015).                              *)
PendingArmed ==
    /\ {p.pend[i] : i \in DOMAIN p.pend} = {q \in Requests : p.req[q] = "pending"}
    /\ Len(p.pend) = Cardinality({q \in Requests : p.req[q] = "pending"})
    /\ p.pend # <<>> => p.write

=============================================================================
