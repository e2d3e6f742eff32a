------------------------------- MODULE Evdns -------------------------------
(***************************************************************************)
(* The asynchronous resolver (evdns.c): requests that wait or are in       *)
(* flight, nameservers that fail and are probed, retransmissions, searches *)
(* and deferred callbacks.  An operator takes the base d and returns it    *)
(* after the function of its name; sockets, packets and timers are         *)
(* whatever the environment makes of them.  Transaction ids are unique     *)
(* (transaction_id_pick), so a request stands for its id.                  *)
(***************************************************************************)
EXTENDS Integers, Sequences, FiniteSets

CONSTANTS Servers,
          MaxInflight, MaxReissues, MaxRetransmits, MaxTimeouts,
          Domains,         \* number of domains to search
          Handles,         \* handles of requests, numbers
          MaxAsked,        \* bound: names that the application looks up
          Results,         \* what nameservers answer
          Does             \* what the application and the sockets do

VARIABLES d, op

vars == <<d, op>>

None == "none"
NewServer == [up |-> TRUE, timedout |-> 0, choked |-> FALSE, ww |-> FALSE,
              probe |-> 0, timer |-> FALSE, sock |-> "ok", heard |-> FALSE]

(* What a handle and its current request hold.  A probe is for the server  *)
(* target; raw says that the name has too few dots to be tried first.      *)
NoHandle == [kind |-> None, cur |-> FALSE, ns |-> None, tx |-> 0, reissue |-> 0,
             tm |-> FALSE, timer |-> FALSE, sent |-> {}, target |-> None,
             search |-> FALSE, index |-> 0, raw |-> FALSE, asked |-> <<>>]

Rotate(s, k) == SubSeq(s, k + 1, Len(s)) \o SubSeq(s, 1, k)
Without(s, x) == SelectSeq(s, LAMBDA y : y # x)
Pending(v, h) == \E i \in DOMAIN v.cbs : v.cbs[i].h = h
GoodAt(v) == CHOOSE k \in DOMAIN v.srv :
                v.ns[v.srv[k]].up /\ \A j \in 1 .. k - 1 : ~v.ns[v.srv[j]].up

(* nameserver_pick: who is picked, and the list that starts after it.      *)
Picked(v) == IF v.srv = <<>> THEN None
             ELSE IF v.good = 0 THEN Head(Rotate(v.srv, 1)) ELSE v.srv[GoodAt(v)]
nameserver_pick(v) ==
    IF v.srv = <<>> THEN v
    ELSE [v EXCEPT !.srv = Rotate(@, IF v.good = 0 THEN 1 ELSE GoodAt(v))]

reply_schedule_callback(v, h, result) ==
    [v EXCEPT !.cbs = Append(@, [h |-> h, result |-> result, target |-> v.h[h].target])]

-----------------------------------------------------------------------------
(* Nameservers that fail; transmission                                     *)

RECURSIVE Reassign(_, _, _)
Reassign(v, s, todo) ==
    IF todo = <<>> THEN v
    ELSE IF v.h[Head(todo)].tx = 0 /\ v.h[Head(todo)].ns = s
    THEN Reassign(nameserver_pick([v EXCEPT !.h[Head(todo)].ns = Picked(v)]), s, Tail(todo))
    ELSE Reassign(v, s, Tail(todo))

nameserver_failed(v, s) ==
    LET down == [v EXCEPT !.good = @ - 1, !.ns[s].up = FALSE, !.ns[s].timer = TRUE,
                         !.ns[s].heard = FALSE]
    IN  IF ~v.ns[s].up THEN v
        ELSE IF down.good = 0 THEN down ELSE Reassign(down, s, v.infl)

Timed(v, h) == [v EXCEPT !.h[h].timer = TRUE, !.h[h].tx = @ + 1, !.h[h].tm = FALSE]

evdns_request_transmit(v, h) ==
    LET s == v.h[h].ns
        me == [v EXCEPT !.h[h].tm = TRUE]
    IN  IF s = None THEN me
        ELSE IF v.ns[s].choked THEN me
        ELSE CASE v.ns[s].sock = "ok" ->
                    [Timed(me, h) EXCEPT !.h[h].sent = @ \cup {s}, !.used = @ \cup {s}]
               [] v.ns[s].sock = "full" ->
                    [me EXCEPT !.ns[s].choked = TRUE, !.ns[s].ww = TRUE, !.used = @ \cup {s}]
               [] OTHER -> Timed(nameserver_failed([me EXCEPT !.used = @ \cup {s}], s), h)

RECURSIVE TransmitAll(_, _)
TransmitAll(v, todo) ==
    IF todo = <<>> THEN v
    ELSE TransmitAll(IF v.h[Head(todo)].tm THEN evdns_request_transmit(v, Head(todo)) ELSE v,
                     Tail(todo))
evdns_transmit(v) == TransmitAll(v, v.infl)

Promoted(v, h) == [nameserver_pick(v) EXCEPT !.h[h].ns = Picked(v), !.wait = Tail(@), !.nwait = @ - 1,
                                             !.infl = Append(@, h), !.ninfl = @ + 1]
RECURSIVE evdns_requests_pump_waiting_queue(_)
evdns_requests_pump_waiting_queue(v) ==
    IF v.ninfl >= MaxInflight \/ v.nwait = 0 \/ v.srv = <<>> THEN v
    ELSE evdns_requests_pump_waiting_queue(
            evdns_transmit(evdns_request_transmit(Promoted(v, Head(v.wait)), Head(v.wait))))

request_finished(v, h, inflight) ==
    evdns_requests_pump_waiting_queue(
        IF inflight
        THEN [v EXCEPT !.infl = Without(@, h), !.ninfl = @ - 1, !.h[h].cur = FALSE, !.h[h].timer = FALSE]
        ELSE [v EXCEPT !.wait = Without(@, h), !.nwait = @ - 1, !.h[h].cur = FALSE])

evdns_cancel_request(v, h) ==
    IF ~v.h[h].cur \/ Pending(v, h) THEN v
    ELSE request_finished(reply_schedule_callback(v, h, "cancel"), h, v.h[h].ns # None)

CancelProbe(v, s) ==
    IF v.ns[s].probe = 0 THEN v
    ELSE [evdns_cancel_request(v, v.ns[s].probe) EXCEPT !.ns[s].probe = 0]

nameserver_up(v, s) ==
    IF v.ns[s].up THEN v
    ELSE [CancelProbe([v EXCEPT !.ns[s].timer = FALSE], s)
            EXCEPT !.ns[s].up = TRUE, !.ns[s].timedout = 0, !.good = @ + 1]

-----------------------------------------------------------------------------
(* New requests and searches                                               *)

(* The request is sent at once if there is room in flight; the nameserver  *)
(* is picked here, before anything else happens.                           *)
Issuing(v) == v.ninfl < MaxInflight
FirstServer(v) == IF Issuing(v) THEN Picked(v) ELSE None
AfterNew(v) == IF Issuing(v) THEN nameserver_pick(v) ELSE v

Fresh(v, h, s, name) ==
    [v EXCEPT !.h[h].cur = TRUE, !.h[h].ns = s, !.h[h].tx = 0, !.h[h].reissue = 0,
              !.h[h].tm = FALSE, !.h[h].timer = FALSE, !.h[h].sent = {},
              !.h[h].asked = Append(@, name)]

request_submit(v, h) ==
    IF v.h[h].ns # None
    THEN evdns_request_transmit([v EXCEPT !.infl = Append(@, h), !.ninfl = @ + 1], h)
    ELSE [v EXCEPT !.wait = Append(@, h), !.nwait = @ + 1]

request_new(v, h, name) == Fresh(AfterNew(v), h, FirstServer(v), name)

(* The name is index -1, with a domain appended its number.                *)
search_request_new(v, h, raw) ==
    LET first == IF raw THEN 0 ELSE -1
    IN  request_submit(
            request_new([v EXCEPT !.h[h].search = Domains > 0, !.h[h].index = first, !.h[h].raw = raw],
                        h, IF Domains > 0 THEN first ELSE -1), h)

(* submit_next: the new request was made before the old one is finished.   *)
Replaced(v, h, s, name) == request_submit(Fresh(request_finished(v, h, TRUE), h, s, name), h)

LastName(v, h) == v.h[h].index + 1 >= Domains

search_done(v, h) == LastName(v, h) /\ ~v.h[h].raw

search_try_next(v, h) ==
    IF LastName(v, h)
    THEN Replaced([AfterNew(v) EXCEPT !.h[h].search = FALSE], h, FirstServer(v), -1)
    ELSE Replaced([AfterNew(v) EXCEPT !.h[h].index = @ + 1], h, FirstServer(v), v.h[h].index + 1)

nameserver_send_probe(v, s, h) ==
    request_submit([request_new([v EXCEPT !.h[h] = [NoHandle EXCEPT !.kind = "probe", !.target = s]], h, -1)
                      EXCEPT !.ns[s].probe = h, !.h[h].ns = s], h)

-----------------------------------------------------------------------------
(* Answers and timeouts                                                    *)

Reissued(v, h) == [nameserver_pick(v) EXCEPT !.h[h].ns = Picked(v), !.h[h].reissue = @ + 1,
                                             !.h[h].tx = 0, !.h[h].tm = TRUE]

PassFailure(v, h, result) ==
    IF v.h[h].search /\ ~search_done(v, h) THEN search_try_next(v, h)
    ELSE request_finished(reply_schedule_callback(v, h, result), h, TRUE)

Forget(v, h) == IF v.ns[v.h[h].ns].probe = h THEN [v EXCEPT !.ns[v.h[h].ns].probe = 0] ELSE v

BadServer(v, h, result) ==
    LET failed == nameserver_failed(v, v.h[h].ns)
    IN  IF v.h[h].reissue >= MaxReissues THEN PassFailure(v, h, result)
        ELSE IF Picked(failed) # v.h[h].ns THEN Reissued(failed, h)
        ELSE PassFailure(nameserver_pick(failed), h, result)

reply_handle(v, h, result) ==
    CASE result = "refused" -> BadServer(v, h, result)
      [] result = "failed" -> PassFailure(v, h, result)
      [] result = "ok" ->
            LET told == Forget(reply_schedule_callback(v, h, result), h)
            IN  request_finished(nameserver_up(told, v.h[h].ns), h, TRUE)
      [] OTHER -> PassFailure(nameserver_up(Forget(v, h), v.h[h].ns), h, result)

CountTimeout(v, s) ==
    IF v.ns[s].timedout + 1 > MaxTimeouts
    THEN nameserver_failed([v EXCEPT !.ns[s].timedout = 0], s)
    ELSE [v EXCEPT !.ns[s].timedout = @ + 1]

evdns_request_timeout_callback(v, h) ==
    IF v.h[h].tx >= MaxRetransmits
    THEN request_finished(reply_schedule_callback(v, h, "timeout"), h, TRUE)
    ELSE evdns_request_transmit([nameserver_pick(v) EXCEPT !.h[h].ns = Picked(v)], h)

(* Mutant of nameserver_probe_failed: no other probe.                      *)
Mutant_last_probe(v, s) == [v EXCEPT !.ns[s].timer = FALSE]

nameserver_probe_failed(v, s) == [v EXCEPT !.ns[s].timer = ~v.ns[s].up]

nameserver_probe_callback(v, s, result) ==
    LET me == [v EXCEPT !.ns[s].probe = 0]
    IN  IF result = "cancel" THEN v
        ELSE IF result \in {"ok", "missing"} THEN nameserver_up(me, s)
        ELSE nameserver_probe_failed(me, s)

-----------------------------------------------------------------------------
(* All nameservers are removed                                             *)

RECURSIVE FreeServers(_, _)
FreeServers(v, todo) ==
    IF todo = <<>> THEN v
    ELSE FreeServers([CancelProbe([v EXCEPT !.ns[Head(todo)].timer = FALSE], Head(todo))
                        EXCEPT !.ns[Head(todo)].sock = "closed"], Tail(todo))

(* Each suspended request becomes the first of those that wait.            *)
Suspended(v) ==
    [v EXCEPT !.srv = <<>>, !.good = 0, !.infl = <<>>, !.ninfl = 0, !.nwait = @ + Len(v.infl),
              !.wait = [i \in 1 .. Len(v.infl) |-> v.infl[Len(v.infl) + 1 - i]] \o @,
              !.h = [h \in Handles |->
                       IF \E i \in DOMAIN v.infl : v.infl[i] = h
                       THEN [v.h[h] EXCEPT !.tx = 0, !.reissue = 0, !.ns = None, !.timer = FALSE,
                                           !.tm = FALSE, !.sent = {}]
                       ELSE v.h[h]]]

evdns_base_clear_nameservers_and_suspend(v) == Suspended(FreeServers(v, v.srv))

_evdns_nameserver_add_impl(v, s) ==
    [v EXCEPT !.srv = IF @ = <<>> THEN <<s>> ELSE <<Head(@), s>> \o Tail(@),
              !.ns[s] = NewServer, !.good = @ + 1]

(* evdns_base_free with fail_requests: everybody is told.                  *)
RECURSIVE FinishAll(_)
FinishAll(v) ==
    IF v.infl # <<>>
    THEN FinishAll(request_finished(reply_schedule_callback(v, Head(v.infl), "shutdown"), Head(v.infl), TRUE))
    ELSE IF v.wait # <<>>
    THEN FinishAll(request_finished(reply_schedule_callback(v, Head(v.wait), "shutdown"), Head(v.wait), FALSE))
    ELSE v

evdns_base_free(v) ==
    [FinishAll([FreeServers(v, v.srv) EXCEPT !.srv = <<>>, !.good = 0]) EXCEPT !.closed = TRUE]

-----------------------------------------------------------------------------
(* told[h] is how many results the application got for handle h, used the *)
(* servers that were sent to in this step; heard says of a server that a   *)
(* packet came from it since it failed.                                    *)
evdns_base_new ==
    [srv |-> <<>>, ns |-> [s \in Servers |-> NewServer], good |-> 0,
     infl |-> <<>>, ninfl |-> 0, wait |-> <<>>, nwait |-> 0,
     h |-> [h \in Handles |-> NoHandle], cbs |-> <<>>, closed |-> FALSE,
     told |-> [h \in Handles |-> 0], used |-> {}]

RECURSIVE AddAll(_, _)
AddAll(v, todo) == IF todo = {} THEN v
                   ELSE LET s == CHOOSE x \in todo : TRUE
                        IN  AddAll(_evdns_nameserver_add_impl(v, s), todo \ {s})

Init == d = AddAll(evdns_base_new, Servers) /\ op = "new"

Now == [d EXCEPT !.ns = [s \in Servers |-> [@[s] EXCEPT !.heard = @ /\ ~d.ns[s].up]]]
Named(name) == IF name \in {"clear", "add"} THEN name ELSE "step"
Do(name, v) ==
    /\ name \in Does /\ ~d.closed
    /\ op' = Named(name)
    /\ d' = [v EXCEPT !.used = IF name = "clear" THEN @ ELSE {}]
Configured == {d.srv[i] : i \in DOMAIN d.srv}
InFlight == {d.infl[i] : i \in DOMAIN d.infl}
FreeHandles == {h \in Handles : d.h[h].kind = None}
NextHandle == CHOOSE h \in FreeHandles : \A g \in FreeHandles : h <= g
AskedNames == Cardinality({h \in Handles : d.h[h].kind \in {"user", "done"}})

(* The application.                                                        *)
Resolve(raw) ==
    /\ FreeHandles # {} /\ AskedNames < MaxAsked
    /\ Do("resolve", search_request_new([Now EXCEPT !.h[NextHandle].kind = "user"], NextHandle, raw))
Cancel(h) ==
    /\ d.h[h].kind = "user" /\ d.told[h] = 0
    /\ Do("cancel", evdns_cancel_request(Now, h))
Clear == d.srv # <<>> /\ Do("clear", evdns_base_clear_nameservers_and_suspend(Now))
AddServer(s) == s \notin Configured /\ Do("add", _evdns_nameserver_add_impl(Now, s))
Resume == Do("resume", evdns_requests_pump_waiting_queue(Now))
Free == Do("free", evdns_base_free(Now))

(* The sockets: what the kernel says, and the packets of nameservers.      *)
SocketState(s, st) ==
    /\ s \in Configured /\ d.ns[s].sock # st
    /\ Do("socket", [Now EXCEPT !.ns[s].sock = st])
Stopped(v, s, tried) == IF tried THEN v ELSE [v EXCEPT !.ns[s].ww = FALSE]
Writable(s) ==
    /\ s \in Configured /\ d.ns[s].ww /\ d.ns[s].sock = "ok"
    /\ LET v == [Now EXCEPT !.ns[s].choked = FALSE]
       IN  Do("writable", Stopped(evdns_transmit(v), s, \E h \in InFlight : d.h[h].tm))
nameserver_read(s, h, result) ==
    /\ s \in Configured /\ h \in InFlight /\ s \in d.h[h].sent
    /\ Do("reply", reply_handle([Now EXCEPT !.ns[s].timedout = 0, !.ns[s].heard = TRUE], h, result))
ReadError(s) ==
    /\ s \in Configured /\ d.ns[s].sock = "broken" /\ d.ns[s].up
    /\ Do("socket", nameserver_failed(Now, s))

(* Timers, and the queue of deferred callbacks.                            *)
RequestTimeout(h) ==
    /\ d.h[h].timer
    /\ LET v == CountTimeout([Now EXCEPT !.h[h].timer = FALSE], d.h[h].ns)
       IN  Do("timeout", evdns_request_timeout_callback(v, h))
nameserver_prod_callback(s) ==
    /\ s \in Configured /\ d.ns[s].timer /\ FreeHandles # {}
    /\ Do("probe", nameserver_send_probe([Now EXCEPT !.ns[s].timer = FALSE], s, NextHandle))

(* A handle of a probe is free again after its callback.                   *)
reply_run_callback ==
    /\ d.cbs # <<>>
    /\ LET cb == Head(d.cbs)
           v == [Now EXCEPT !.cbs = Tail(@), !.used = {}]
       IN  op' = "step" /\
           d' = IF cb.target = None
                THEN [v EXCEPT !.told[cb.h] = @ + 1, !.h[cb.h] = [NoHandle EXCEPT !.kind = "done"]]
                ELSE [nameserver_probe_callback(v, cb.target, cb.result) EXCEPT !.h[cb.h] = NoHandle]

Sockets(s) ==
    \/ \E st \in {"ok", "full", "broken"} : SocketState(s, st)
    \/ Writable(s) \/ ReadError(s) \/ nameserver_prod_callback(s)
    \/ \E h \in Handles, a \in Results : nameserver_read(s, h, a)
Application == \/ \E raw \in BOOLEAN : Resolve(raw)
               \/ \E h \in Handles : Cancel(h) \/ RequestTimeout(h)
               \/ \E s \in Servers : AddServer(s)
               \/ Clear \/ Resume \/ Free
Next == Application \/ reply_run_callback \/ \E s \in Servers : Sockets(s)

Spec == Init /\ [][Next]_vars

-----------------------------------------------------------------------------
(* Properties                                                              *)

(* The counters of the base are those of its lists, a request is in the    *)
(* list that its nameserver says, and good nameservers are counted, after  *)
(* every callback that calls back into the lists (evdns.c:648-700).        *)
Consistent ==
    /\ d.ninfl = Len(d.infl) /\ d.nwait = Len(d.wait)
    /\ d.good = Cardinality({s \in Configured : d.ns[s].up})
    /\ \A h \in Handles : d.h[h].cur =>
          IF d.h[h].ns = None THEN \E i \in DOMAIN d.wait : d.wait[i] = h
                              ELSE h \in InFlight
    /\ \A h \in InFlight : d.h[h].ns \in Configured

(* A request in flight has a timer, or waits for a socket that will tell,  *)
(* or was given to another server and waits for its own timer: it is never *)
(* forgotten (evdns.c:2216-2264).                                          *)
NothingForgotten ==
    \A h \in InFlight : d.h[h].timer \/ (d.h[h].tm /\ \E s \in Configured : d.ns[s].ww)

(* A server that is down is probed again, one probe at a time.             *)
DownIsProbed ==
    \A s \in Configured : ~d.ns[s].up =>
        \/ d.ns[s].timer
        \/ d.ns[s].probe # 0
        \/ \E i \in DOMAIN d.cbs : d.cbs[i].target = s

(* Every name that was looked up is answered once, and nobody who was      *)
(* answered is still in a list (evdns.c:774-850).                          *)
AnsweredOnce ==
    \A h \in Handles :
        /\ d.told[h] <= 1
        /\ d.h[h].kind \in {"user", "done"} =>
              d.told[h] + (IF Pending(d, h) THEN 1 ELSE 0) + (IF d.h[h].cur THEN 1 ELSE 0) = 1

(* A name is missing only when it was tried with every domain and as it    *)
(* is, each once (evdns.c:3200-3238).                                      *)
SearchComplete ==
    \A i \in DOMAIN d.cbs : d.cbs[i].result = "missing" /\ d.cbs[i].target = None =>
        LET asked == d.h[d.cbs[i].h].asked
        IN  /\ {asked[j] : j \in DOMAIN asked} = -1 .. Domains - 1
            /\ Len(asked) = Domains + 1

=============================================================================
